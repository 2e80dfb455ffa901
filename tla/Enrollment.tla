----------------------------- MODULE Enrollment -----------------------------
(***************************************************************************)
(* The controller's identity (src/controller.rs, src/state.rs, the Enroll, *)
(* Unenroll and Session commands of src/main.rs): three pieces that belong *)
(* together and are changed one at a time, by rcodex processes that know   *)
(* nothing of each other:                                                  *)
(*   registered  the clients the relay's server has enrolled               *)
(*   keys        the signing keys in the macOS login Keychain              *)
(*   stateFile   ~/.rcodex/state.json, naming one client and its key       *)
(*                                                                         *)
(*   enroll     check -> start -> create -> authorize -> finish -> save    *)
(*              with cleanup after a failure from create on                *)
(*   session    ensure -> refresh, or enroll's steps if there is no state  *)
(*   unenroll   load -> revoke -> delete key -> delete state               *)
(*                                                                         *)
(* Abstractions.  An enrollment is the number of the attempt that made it, *)
(* and stands for its client id and for its key id.  A challenge that does *)
(* not match or has expired is a failed step.  Saving the state is one     *)
(* step, its rename being atomic.                                          *)
(***************************************************************************)
EXTENDS Naturals

CONSTANTS
  Enrollers,    \* the processes that enroll or open sessions
  Unenrollers,  \* the processes that unenroll
  MaxAttempts   \* bound on the enrollments started

ASSUME AttemptsAssumption == MaxAttempts \in Nat

Procs == Enrollers \cup Unenrollers
Attempts == 1 .. MaxAttempts
None == 0

VARIABLES
  stateFile,   \* the enrollment in state.json, None if there is no file
  keys,        \* the enrollments whose key is in the Keychain
  registered,  \* the enrollments the server knows
  attempts,    \* enrollments started so far
  pc,          \* the step each process is at
  mine,        \* the enrollment each process works on
  saved,       \* history: the enrollments that were saved
  abandoned    \* history: those whose key nobody is left to delete

vars == <<stateFile, keys, registered, attempts, pc, mine, saved, abandoned>>

EnrollSteps == {"check", "start", "create", "authorize", "finish", "save", "cleanup"}
SessionSteps == {"ensure", "refresh"}
UnenrollSteps == {"load", "revoke", "delete key", "delete state"}

(* Enrollments are attempts, and steps those of the commands.              *)
TypeOK ==
  /\ stateFile \in Attempts \cup {None}
  /\ keys \subseteq Attempts /\ registered \subseteq Attempts
  /\ attempts \in 0 .. MaxAttempts
  /\ pc \in [Procs -> {"idle"} \cup EnrollSteps \cup SessionSteps \cup UnenrollSteps]
  /\ mine \in [Procs -> Attempts \cup {None}]
  /\ \A p \in Procs : pc[p] \in {"authorize", "save", "refresh", "revoke"} => mine[p] # None
  /\ saved \subseteq Attempts /\ abandoned \subseteq Attempts

Init ==
  /\ stateFile = None /\ keys = {} /\ registered = {} /\ attempts = 0
  /\ pc = [p \in Procs |-> "idle"] /\ mine = [p \in Procs |-> None]
  /\ saved = {} /\ abandoned = {}

identity == <<stateFile, keys, registered>>
history == <<saved, abandoned>>

At(p, step) == pc[p] = step

Goto(p, step) == pc' = [pc EXCEPT ![p] = step]

(* The process moves on, or ends, without touching the identity.           *)
OnlyGoto(p, step) == Goto(p, step) /\ UNCHANGED <<identity, attempts, mine, history>>

-----------------------------------------------------------------------------
(* Outside the program: the identity is revoked from elsewhere.            *)
ServerForgets(e) ==
  /\ e \in registered /\ registered' = registered \ {e}
  /\ UNCHANGED <<stateFile, keys, attempts, pc, mine, history>>

-----------------------------------------------------------------------------
StartEnroll(p) == p \in Enrollers /\ At(p, "idle") /\ OnlyGoto(p, "check")

StartSession(p) == p \in Enrollers /\ At(p, "idle") /\ OnlyGoto(p, "ensure")

StartUnenroll(p) == p \in Unenrollers /\ At(p, "idle") /\ OnlyGoto(p, "load")

(* ensure_session: the enrollment there is, or a new one.                  *)
Ensure(p) ==
  /\ At(p, "ensure")
  /\ IF stateFile # None
       THEN Goto(p, "refresh") /\ mine' = [mine EXCEPT ![p] = stateFile]
       ELSE Goto(p, "check") /\ UNCHANGED mine
  /\ UNCHANGED <<identity, attempts, history>>

(* refresh_session changes nothing here; without the key or the server's   *)
(* consent it fails, and either way the command ends.                      *)
Refresh(p) == At(p, "refresh") /\ OnlyGoto(p, "idle")

-----------------------------------------------------------------------------
(* enroll.                                                                 *)

(* "rcodex is already enrolled; remove its state explicitly .."            *)
AlreadyEnrolled(p) == At(p, "check") /\ stateFile # None /\ OnlyGoto(p, "idle")

(* The slip of enrolling whether there is a state file or not.             *)
CheckNothing(p) == At(p, "check") /\ OnlyGoto(p, "start")

Check(p) == At(p, "check") /\ stateFile = None /\ OnlyGoto(p, "start")

(* The slip of forgetting the attempt the challenge is for.                *)
EnrollStartForgetting(p) ==
  /\ At(p, "start") /\ attempts < MaxAttempts
  /\ attempts' = attempts + 1
  /\ Goto(p, "create")
  /\ UNCHANGED <<identity, mine, history>>

EnrollStart(p) ==
  /\ At(p, "start") /\ attempts < MaxAttempts
  /\ attempts' = attempts + 1
  /\ mine' = [mine EXCEPT ![p] = attempts + 1]
  /\ Goto(p, "create")
  /\ UNCHANGED <<identity, history>>

(* Before there is a key there is nothing to clean up.                     *)
EnrollStartFails(p) == pc[p] \in {"start", "create"} /\ OnlyGoto(p, "idle")

CreateKey(p) ==
  /\ At(p, "create")
  /\ keys' = keys \cup {mine[p]}
  /\ Goto(p, "authorize")
  /\ UNCHANGED <<stateFile, registered, attempts, mine, history>>

(* The step-up authorization in the browser, of which nothing is kept.     *)
Authorize(p) == At(p, "authorize") /\ OnlyGoto(p, "finish")

EnrollFinish(p) ==
  /\ At(p, "finish")
  /\ registered' = registered \cup {mine[p]}
  /\ Goto(p, "save")
  /\ UNCHANGED <<stateFile, keys, attempts, mine, history>>

(* The slip of cleaning up only what fails before the server's answer.     *)
EnrollFailsForGood(p) ==
  /\ pc[p] \in {"authorize", "finish", "save"}
  /\ registered' = registered
  /\ Goto(p, IF pc[p] = "authorize" THEN "cleanup" ELSE "idle")
  /\ UNCHANGED <<stateFile, keys, attempts, mine, history>>

(* Any of the steps fails, enroll_finish perhaps after the server has done *)
(* its part.                                                               *)
EnrollFails(p) ==
  /\ pc[p] \in {"authorize", "finish", "save"}
  /\ \/ registered' = registered
     \/ At(p, "finish") /\ registered' = registered \cup {mine[p]}
  /\ Goto(p, "cleanup")
  /\ UNCHANGED <<stateFile, keys, attempts, mine, history>>

Save(p) ==
  /\ At(p, "save")
  /\ stateFile' = mine[p] /\ saved' = saved \cup {mine[p]}
  /\ Goto(p, "idle")
  /\ UNCHANGED <<keys, registered, attempts, mine, abandoned>>

(* The error of this deletion is ignored.                                  *)
Cleanup(p) ==
  /\ At(p, "cleanup")
  /\ \/ keys' = keys \ {mine[p]} /\ UNCHANGED abandoned
     \/ UNCHANGED keys /\ abandoned' = abandoned \cup {mine[p]}
  /\ Goto(p, "idle")
  /\ UNCHANGED <<stateFile, registered, attempts, mine, saved>>

-----------------------------------------------------------------------------
(* unenroll.                                                               *)

NotEnrolled(p) == At(p, "load") /\ stateFile = None /\ OnlyGoto(p, "idle")

(* The slip of an unenroll that deletes the key before it revokes.         *)
LoadDeletingKey(p) ==
  /\ At(p, "load") /\ stateFile # None
  /\ mine' = [mine EXCEPT ![p] = stateFile]
  /\ keys' = keys \ {stateFile}
  /\ Goto(p, "revoke")
  /\ UNCHANGED <<stateFile, registered, attempts, history>>

Load(p) ==
  /\ At(p, "load") /\ stateFile # None
  /\ mine' = [mine EXCEPT ![p] = stateFile]
  /\ Goto(p, "revoke")
  /\ UNCHANGED <<identity, attempts, history>>

(* The slip of taking "not found" for a failure.                           *)
RevokeKnown(p) ==
  /\ At(p, "revoke") /\ mine[p] \in registered
  /\ registered' = registered \ {mine[p]}
  /\ Goto(p, "delete key")
  /\ UNCHANGED <<stateFile, keys, attempts, mine, history>>

(* "not found" is as good.                                                 *)
Revoke(p) ==
  /\ At(p, "revoke")
  /\ registered' = registered \ {mine[p]}
  /\ Goto(p, "delete key")
  /\ UNCHANGED <<stateFile, keys, attempts, mine, history>>

(* A key that is not there is as good as deleted.                          *)
DeleteKey(p) ==
  /\ At(p, "delete key")
  /\ keys' = keys \ {mine[p]}
  /\ Goto(p, "delete state")
  /\ UNCHANGED <<stateFile, registered, attempts, mine, history>>

(* Whatever enrollment the file names by now.                              *)
DeleteState(p) ==
  /\ At(p, "delete state")
  /\ stateFile' = None
  /\ Goto(p, "idle")
  /\ UNCHANGED <<keys, registered, attempts, mine, history>>

(* The server may have revoked before the answer was lost.                 *)
UnenrollFails(p) ==
  /\ pc[p] \in {"load", "revoke", "delete key", "delete state"}
  /\ \/ UNCHANGED registered
     \/ At(p, "revoke") /\ registered' = registered \ {mine[p]}
  /\ Goto(p, "idle")
  /\ UNCHANGED <<stateFile, keys, attempts, mine, history>>

-----------------------------------------------------------------------------
(* A crash of an enrollment with a key leaves the key behind.              *)
Crash(p) ==
  /\ ~ At(p, "idle")
  /\ Goto(p, "idle")
  /\ abandoned' = IF pc[p] \in {"authorize", "finish", "save", "cleanup"}
                    THEN abandoned \cup {mine[p]} ELSE abandoned
  /\ UNCHANGED <<identity, attempts, mine, saved>>

EnrollStep(p) ==
  \/ Ensure(p) \/ Refresh(p)
  \/ AlreadyEnrolled(p) \/ Check(p) \/ EnrollStart(p) \/ EnrollStartFails(p) \/ CreateKey(p)
  \/ Authorize(p) \/ EnrollFinish(p) \/ EnrollFails(p) \/ Save(p) \/ Cleanup(p)

UnenrollSucceeds(p) == NotEnrolled(p) \/ Load(p) \/ Revoke(p) \/ DeleteKey(p) \/ DeleteState(p)

Next ==
  \/ \E p \in Enrollers : StartEnroll(p) \/ StartSession(p) \/ EnrollStep(p)
  \/ \E p \in Unenrollers : StartUnenroll(p) \/ UnenrollSucceeds(p) \/ UnenrollFails(p)
  \/ \E p \in Procs : Crash(p)
  \/ \E e \in Attempts : ServerForgets(e)

Spec == Init /\ [][Next]_vars

(* The user runs unenroll again and again, and none of its steps fails for *)
(* ever.                                                                   *)
RetryingSpec ==
  /\ Spec
  /\ \A p \in Unenrollers :
       /\ SF_vars(StartUnenroll(p)) /\ SF_vars(Load(p)) /\ SF_vars(Revoke(p))
       /\ SF_vars(DeleteKey(p)) /\ SF_vars(DeleteState(p))

-----------------------------------------------------------------------------
(* As long as the server accepts a client that was enrolled to the end,    *)
(* the key it would have to sign with exists: revocation comes first, be   *)
(* there crashes, retries and other processes.                             *)
KeysOutliveRegistrations == \A e \in saved \cap registered : e \in keys

(* No key is left behind unnoticed: each belongs to the state file, to an  *)
(* enrollment under way, or to one whose process died or could not delete  *)
(* it.                                                                     *)
KeysAreAccountedFor ==
  \A e \in keys :
    \/ e = stateFile \/ e \in abandoned
    \/ \E p \in Enrollers : pc[p] \in {"authorize", "finish", "save", "cleanup"} /\ mine[p] = e

(* The state file is not forgotten before the server has forgotten: with   *)
(* one process enrolling and one unenrolling, a client enrolled to the end *)
(* and still accepted is the one in the file.                              *)
RegisteredIsOnFile == \A e \in saved \cap registered : stateFile = e

(* "unenroll is safe to retry if the server already removed the identity": *)
(* retried, it gets rid of what is left of it.                             *)
RetriedUnenrollFinishes ==
  \A e \in Attempts :
    (stateFile = e /\ e \notin registered) ~> (stateFile # e /\ e \notin keys)

-----------------------------------------------------------------------------
(* What one might expect, and does not hold: no run checks it.             *)

(* "Safe, idempotent `rcodex unenroll` cleanup": the state it deletes is   *)
(* that of the identity it has revoked.  TLC refutes it with two processes *)
(* unenrolling: the later deletes whatever state there is by then.         *)
DeletesWhatItRevoked ==
  [][stateFile # None /\ stateFile' = None => stateFile \notin registered]_vars

(* "rcodex is already enrolled; remove its state explicitly before         *)
(* re-enrolling": an enrollment never replaces another.  TLC refutes it    *)
(* with two processes enrolling: each checks before either saves.          *)
NeverReplaced == [][stateFile = None \/ stateFile' \in {None, stateFile}]_vars
=============================================================================
