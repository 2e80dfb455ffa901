-------------------------- MODULE EnrollmentProofs --------------------------
(***************************************************************************)
(* Proofs about Enrollment, for any sets of processes, overlapping or not, *)
(* and any number of enrollments; then about Enrolling, for any ports and  *)
(* any number of strangers: it implements Enrollment, so that what is      *)
(* proved of that holds of it, codes are never mixed up, and no two        *)
(* processes listen on one port.                                           *)
(***************************************************************************)
EXTENDS Enrolling, TLAPS

Making == {"create", "authorize", "finish", "save", "cleanup"}

(* An enrollment under way is one that was started, and is not yet saved.  *)
MadeAreUnsaved ==
  \A p \in Procs : pc[p] \in Making => mine[p] \in 1 .. attempts /\ mine[p] \notin saved

(* No two processes are making the same one.                               *)
MadeAreDistinct ==
  \A p, q \in Procs : pc[p] \in Making /\ pc[q] \in Making /\ p # q => mine[p] # mine[q]

(* Its key is there until something fails.                                 *)
MadeHaveKeys ==
  \A p \in Procs : pc[p] \in {"authorize", "finish", "save"} => mine[p] \in keys

(* What is unenrolled was saved, and once revoked it stays so.             *)
UnenrolledAreSaved ==
  \A p \in Procs : pc[p] \in {"revoke", "delete key"} => mine[p] \in saved

RevokedIsGone ==
  \A p \in Procs : pc[p] = "delete key" => mine[p] \notin registered

SavedAreStarted == saved \subseteq 1 .. attempts

StateIsSaved == stateFile = None \/ stateFile \in saved

Inv ==
  /\ TypeOK
  /\ MadeAreUnsaved /\ MadeAreDistinct /\ MadeHaveKeys
  /\ UnenrolledAreSaved /\ RevokedIsGone
  /\ SavedAreStarted /\ StateIsSaved
  /\ KeysOutliveRegistrations

-----------------------------------------------------------------------------
(* It holds initially, when nothing is made, saved or registered.          *)
LEMMA InitInv == Init => Inv
BY AttemptsAssumption DEF Init, Inv, TypeOK, Attempts, None, Making, EnrollSteps, SessionSteps,
   UnenrollSteps, MadeAreUnsaved, MadeAreDistinct, MadeHaveKeys, UnenrolledAreSaved,
   RevokedIsGone, SavedAreStarted, StateIsSaved, KeysOutliveRegistrations

(* What is being made is one of the attempts, hence not None.              *)
LEMMA MadeAreSome ==
  ASSUME Inv, NEW p \in Procs, pc[p] \in Making
  PROVE  mine[p] \in Attempts /\ mine[p] # None
BY AttemptsAssumption DEF Inv, TypeOK, MadeAreUnsaved, Attempts, None

(* A process may move on, if the step it comes to asks for no more than    *)
(* the one it was at.                                                      *)
LEMMA MoveKeepsInv ==
  ASSUME Inv, NEW p \in Procs,
         NEW step \in {"idle"} \cup EnrollSteps \cup SessionSteps \cup UnenrollSteps,
         OnlyGoto(p, step),
         step \in Making => pc[p] \in Making /\ step # "create",
         step \in {"authorize", "finish", "save"} => pc[p] \in {"authorize", "finish", "save"},
         step \notin {"refresh", "revoke", "delete key"}
  PROVE  Inv'
<1> USE DEF OnlyGoto, Goto, identity, history
<1>1. TypeOK'
  <2>1. pc' \in [Procs -> {"idle"} \cup EnrollSteps \cup SessionSteps \cup UnenrollSteps]
    BY DEF Inv, TypeOK
  <2>2. \A q \in Procs : pc'[q] \in {"authorize", "save", "refresh", "revoke"} => mine'[q] # None
    BY MadeAreSome DEF Inv, TypeOK, Making
  <2> QED BY <2>1, <2>2 DEF Inv, TypeOK
<1>2. MadeAreUnsaved' /\ MadeAreDistinct' /\ MadeHaveKeys'
  BY DEF Inv, TypeOK, MadeAreUnsaved, MadeAreDistinct, MadeHaveKeys, Making
<1>3. UnenrolledAreSaved' /\ RevokedIsGone'
  BY DEF Inv, TypeOK, UnenrolledAreSaved, RevokedIsGone
<1>4. SavedAreStarted' /\ StateIsSaved' /\ KeysOutliveRegistrations'
  BY DEF Inv, SavedAreStarted, StateIsSaved, KeysOutliveRegistrations
<1> QED BY <1>1, <1>2, <1>3, <1>4 DEF Inv

(* The attempt is a new one: neither saved nor another's.                  *)
LEMMA EnrollStartKeepsInv ==
  ASSUME Inv, NEW p \in Procs, EnrollStart(p)
  PROVE  Inv'
<1> USE DEF EnrollStart, Goto, identity, history, Attempts, None
<1>1. TypeOK'
  <2>1. /\ stateFile' \in Attempts \cup {None} /\ keys' \subseteq Attempts
        /\ registered' \subseteq Attempts /\ attempts' \in 0 .. MaxAttempts
        /\ mine' \in [Procs -> Attempts \cup {None}]
        /\ saved' \subseteq Attempts /\ abandoned' \subseteq Attempts
    BY AttemptsAssumption DEF Inv, TypeOK
  <2>2. pc' \in [Procs -> {"idle"} \cup EnrollSteps \cup SessionSteps \cup UnenrollSteps]
    BY DEF Inv, TypeOK, EnrollSteps, SessionSteps, UnenrollSteps
  <2>3. \A q \in Procs : pc'[q] \in {"authorize", "save", "refresh", "revoke"} => mine'[q] # None
    BY DEF Inv, TypeOK
  <2> QED BY <2>1, <2>2, <2>3 DEF TypeOK
<1>2. MadeAreUnsaved'
  BY DEF Inv, TypeOK, MadeAreUnsaved, SavedAreStarted
<1>3. MadeAreDistinct'
  BY DEF Inv, TypeOK, MadeAreUnsaved, MadeAreDistinct
<1>4. MadeHaveKeys'
  BY DEF Inv, TypeOK, MadeHaveKeys
<1>5. UnenrolledAreSaved' /\ RevokedIsGone'
  BY DEF Inv, TypeOK, UnenrolledAreSaved, RevokedIsGone
<1>6. SavedAreStarted' /\ StateIsSaved'
  BY DEF Inv, TypeOK, SavedAreStarted, StateIsSaved
<1>7. KeysOutliveRegistrations'
  BY DEF Inv, KeysOutliveRegistrations
<1> QED BY <1>1, <1>2, <1>3, <1>4, <1>5, <1>6, <1>7 DEF Inv

(* From here on the key is there.                                          *)
LEMMA CreateKeyKeepsInv ==
  ASSUME Inv, NEW p \in Procs, CreateKey(p)
  PROVE  Inv'
<1> USE DEF CreateKey, Goto, history
<1>1. TypeOK'
  <2>1. /\ stateFile' \in Attempts \cup {None} /\ keys' \subseteq Attempts
        /\ registered' \subseteq Attempts /\ attempts' \in 0 .. MaxAttempts
        /\ mine' \in [Procs -> Attempts \cup {None}]
        /\ saved' \subseteq Attempts /\ abandoned' \subseteq Attempts
    BY MadeAreSome DEF Inv, TypeOK, Making, At
  <2>2. pc' \in [Procs -> {"idle"} \cup EnrollSteps \cup SessionSteps \cup UnenrollSteps]
    BY DEF Inv, TypeOK, EnrollSteps, SessionSteps, UnenrollSteps
  <2>3. \A q \in Procs : pc'[q] \in {"authorize", "save", "refresh", "revoke"} => mine'[q] # None
    BY MadeAreSome DEF Inv, TypeOK, Making, At
  <2> QED BY <2>1, <2>2, <2>3 DEF TypeOK
<1>2. MadeAreUnsaved'
  BY DEF Inv, Making, At, MadeAreUnsaved
<1>3. MadeAreDistinct'
  BY DEF Inv, Making, At, MadeAreDistinct
<1>4. MadeHaveKeys'
  BY DEF Inv, TypeOK, MadeHaveKeys
<1>5. UnenrolledAreSaved' /\ RevokedIsGone'
  BY DEF Inv, TypeOK, UnenrolledAreSaved, RevokedIsGone
<1>6. SavedAreStarted' /\ StateIsSaved'
  BY DEF Inv, SavedAreStarted, StateIsSaved
<1>7. KeysOutliveRegistrations'
  BY DEF Inv, KeysOutliveRegistrations
<1> QED BY <1>1, <1>2, <1>3, <1>4, <1>5, <1>6, <1>7 DEF Inv

(* What the server registers is not saved, so it owes nobody a key yet.    *)
LEMMA EnrollFinishKeepsInv ==
  ASSUME Inv, NEW p \in Procs, EnrollFinish(p)
  PROVE  Inv'
<1> USE DEF EnrollFinish, Goto, history
<1>1. TypeOK'
  <2>1. /\ stateFile' \in Attempts \cup {None} /\ keys' \subseteq Attempts
        /\ registered' \subseteq Attempts /\ attempts' \in 0 .. MaxAttempts
        /\ mine' \in [Procs -> Attempts \cup {None}]
        /\ saved' \subseteq Attempts /\ abandoned' \subseteq Attempts
    BY MadeAreSome DEF Inv, TypeOK, Making, At
  <2>2. pc' \in [Procs -> {"idle"} \cup EnrollSteps \cup SessionSteps \cup UnenrollSteps]
    BY DEF Inv, TypeOK, EnrollSteps, SessionSteps, UnenrollSteps
  <2>3. \A q \in Procs : pc'[q] \in {"authorize", "save", "refresh", "revoke"} => mine'[q] # None
    BY MadeAreSome DEF Inv, TypeOK, Making, At
  <2> QED BY <2>1, <2>2, <2>3 DEF TypeOK
<1>2. MadeAreUnsaved'
  BY DEF Inv, Making, At, MadeAreUnsaved
<1>3. MadeAreDistinct'
  BY DEF Inv, Making, At, MadeAreDistinct
<1>4. MadeHaveKeys'
  BY DEF Inv, TypeOK, At, MadeHaveKeys
<1>5. UnenrolledAreSaved' /\ RevokedIsGone'
  BY DEF Inv, TypeOK, Making, At, MadeAreUnsaved, UnenrolledAreSaved, RevokedIsGone
<1>6. SavedAreStarted' /\ StateIsSaved'
  BY DEF Inv, SavedAreStarted, StateIsSaved
<1>7. KeysOutliveRegistrations'
  BY DEF Inv, At, MadeHaveKeys, KeysOutliveRegistrations
<1> QED BY <1>1, <1>2, <1>3, <1>4, <1>5, <1>6, <1>7 DEF Inv

(* Nor does what it registers in spite of the failure.                     *)
LEMMA EnrollFailsKeepsInv ==
  ASSUME Inv, NEW p \in Procs, EnrollFails(p)
  PROVE  Inv'
<1> USE DEF EnrollFails, Goto, history
<1>1. TypeOK'
  <2>1. /\ stateFile' \in Attempts \cup {None} /\ keys' \subseteq Attempts
        /\ registered' \subseteq Attempts /\ attempts' \in 0 .. MaxAttempts
        /\ mine' \in [Procs -> Attempts \cup {None}]
        /\ saved' \subseteq Attempts /\ abandoned' \subseteq Attempts
    BY MadeAreSome DEF Inv, TypeOK, Making
  <2>2. pc' \in [Procs -> {"idle"} \cup EnrollSteps \cup SessionSteps \cup UnenrollSteps]
    BY DEF Inv, TypeOK, EnrollSteps, SessionSteps, UnenrollSteps
  <2>3. \A q \in Procs : pc'[q] \in {"authorize", "save", "refresh", "revoke"} => mine'[q] # None
    BY DEF Inv, TypeOK
  <2> QED BY <2>1, <2>2, <2>3 DEF TypeOK
<1>2. MadeAreUnsaved'
  BY DEF Inv, Making, MadeAreUnsaved
<1>3. MadeAreDistinct'
  BY DEF Inv, Making, MadeAreDistinct
<1>4. MadeHaveKeys'
  BY DEF Inv, TypeOK, MadeHaveKeys
<1>5. UnenrolledAreSaved' /\ RevokedIsGone'
  BY DEF Inv, TypeOK, Making, MadeAreUnsaved, UnenrolledAreSaved, RevokedIsGone
<1>6. SavedAreStarted' /\ StateIsSaved'
  BY DEF Inv, SavedAreStarted, StateIsSaved
<1>7. KeysOutliveRegistrations'
  BY DEF Inv, MadeHaveKeys, KeysOutliveRegistrations
<1> QED BY <1>1, <1>2, <1>3, <1>4, <1>5, <1>6, <1>7 DEF Inv

(* What is saved has its key.                                              *)
LEMMA SaveKeepsInv ==
  ASSUME Inv, NEW p \in Procs, Save(p)
  PROVE  Inv'
<1> USE DEF Save, Goto
<1>1. TypeOK'
  <2>1. /\ stateFile' \in Attempts \cup {None} /\ keys' \subseteq Attempts
        /\ registered' \subseteq Attempts /\ attempts' \in 0 .. MaxAttempts
        /\ mine' \in [Procs -> Attempts \cup {None}]
        /\ saved' \subseteq Attempts /\ abandoned' \subseteq Attempts
    BY DEF Inv, TypeOK, At
  <2>2. pc' \in [Procs -> {"idle"} \cup EnrollSteps \cup SessionSteps \cup UnenrollSteps]
    BY DEF Inv, TypeOK, EnrollSteps, SessionSteps, UnenrollSteps
  <2>3. \A q \in Procs : pc'[q] \in {"authorize", "save", "refresh", "revoke"} => mine'[q] # None
    BY DEF Inv, TypeOK
  <2> QED BY <2>1, <2>2, <2>3 DEF TypeOK
<1>2. MadeAreUnsaved'
  BY DEF Inv, TypeOK, Making, At, MadeAreUnsaved, MadeAreDistinct
<1>3. MadeAreDistinct'
  BY DEF Inv, Making, MadeAreDistinct
<1>4. MadeHaveKeys'
  BY DEF Inv, TypeOK, MadeHaveKeys
<1>5. UnenrolledAreSaved' /\ RevokedIsGone'
  BY DEF Inv, TypeOK, UnenrolledAreSaved, RevokedIsGone
<1>6. SavedAreStarted' /\ StateIsSaved'
  BY DEF Inv, Making, At, MadeAreUnsaved, SavedAreStarted, StateIsSaved
<1>7. KeysOutliveRegistrations'
  BY DEF Inv, At, MadeHaveKeys, KeysOutliveRegistrations
<1> QED BY <1>1, <1>2, <1>3, <1>4, <1>5, <1>6, <1>7 DEF Inv

(* The key that is deleted is of no saved enrollment, nor of another's.    *)
LEMMA CleanupKeepsInv ==
  ASSUME Inv, NEW p \in Procs, Cleanup(p)
  PROVE  Inv'
<1> USE DEF Cleanup, Goto
<1>1. TypeOK'
  <2>1. /\ stateFile' \in Attempts \cup {None} /\ keys' \subseteq Attempts
        /\ registered' \subseteq Attempts /\ attempts' \in 0 .. MaxAttempts
        /\ mine' \in [Procs -> Attempts \cup {None}]
        /\ saved' \subseteq Attempts /\ abandoned' \subseteq Attempts
    BY MadeAreSome DEF Inv, TypeOK, Making, At
  <2>2. pc' \in [Procs -> {"idle"} \cup EnrollSteps \cup SessionSteps \cup UnenrollSteps]
    BY DEF Inv, TypeOK, EnrollSteps, SessionSteps, UnenrollSteps
  <2>3. \A q \in Procs : pc'[q] \in {"authorize", "save", "refresh", "revoke"} => mine'[q] # None
    BY DEF Inv, TypeOK
  <2> QED BY <2>1, <2>2, <2>3 DEF TypeOK
<1>2. MadeAreUnsaved'
  BY DEF Inv, Making, MadeAreUnsaved
<1>3. MadeAreDistinct'
  BY DEF Inv, Making, MadeAreDistinct
<1>4. MadeHaveKeys'
  BY DEF Inv, TypeOK, Making, At, MadeAreDistinct, MadeHaveKeys
<1>5. UnenrolledAreSaved' /\ RevokedIsGone'
  BY DEF Inv, TypeOK, UnenrolledAreSaved, RevokedIsGone
<1>6. SavedAreStarted' /\ StateIsSaved'
  BY DEF Inv, SavedAreStarted, StateIsSaved
<1>7. KeysOutliveRegistrations'
  BY DEF Inv, Making, At, MadeAreUnsaved, KeysOutliveRegistrations
<1> QED BY <1>1, <1>2, <1>3, <1>4, <1>5, <1>6, <1>7 DEF Inv

(* A session works with the enrollment there is.                           *)
LEMMA EnsureKeepsInv ==
  ASSUME Inv, NEW p \in Procs, Ensure(p)
  PROVE  Inv'
<1> USE DEF Ensure, Goto, identity, history
<1>1. TypeOK'
  <2>1. /\ stateFile' \in Attempts \cup {None} /\ keys' \subseteq Attempts
        /\ registered' \subseteq Attempts /\ attempts' \in 0 .. MaxAttempts
        /\ mine' \in [Procs -> Attempts \cup {None}]
        /\ saved' \subseteq Attempts /\ abandoned' \subseteq Attempts
    BY DEF Inv, TypeOK
  <2>2. pc' \in [Procs -> {"idle"} \cup EnrollSteps \cup SessionSteps \cup UnenrollSteps]
    BY DEF Inv, TypeOK, EnrollSteps, SessionSteps, UnenrollSteps
  <2>3. \A q \in Procs : pc'[q] \in {"authorize", "save", "refresh", "revoke"} => mine'[q] # None
    BY DEF Inv, TypeOK
  <2> QED BY <2>1, <2>2, <2>3 DEF TypeOK
<1>2. MadeAreUnsaved'
  BY DEF Inv, TypeOK, Making, MadeAreUnsaved
<1>3. MadeAreDistinct'
  BY DEF Inv, TypeOK, Making, MadeAreDistinct
<1>4. MadeHaveKeys'
  BY DEF Inv, TypeOK, MadeHaveKeys
<1>5. UnenrolledAreSaved' /\ RevokedIsGone'
  BY DEF Inv, TypeOK, UnenrolledAreSaved, RevokedIsGone
<1>6. SavedAreStarted' /\ StateIsSaved'
  BY DEF Inv, SavedAreStarted, StateIsSaved
<1>7. KeysOutliveRegistrations'
  BY DEF Inv, KeysOutliveRegistrations
<1> QED BY <1>1, <1>2, <1>3, <1>4, <1>5, <1>6, <1>7 DEF Inv

(* What is loaded to be unenrolled was saved.                              *)
LEMMA LoadKeepsInv ==
  ASSUME Inv, NEW p \in Procs, Load(p)
  PROVE  Inv'
<1> USE DEF Load, Goto, identity, history
<1>1. TypeOK'
  <2>1. /\ stateFile' \in Attempts \cup {None} /\ keys' \subseteq Attempts
        /\ registered' \subseteq Attempts /\ attempts' \in 0 .. MaxAttempts
        /\ mine' \in [Procs -> Attempts \cup {None}]
        /\ saved' \subseteq Attempts /\ abandoned' \subseteq Attempts
    BY DEF Inv, TypeOK
  <2>2. pc' \in [Procs -> {"idle"} \cup EnrollSteps \cup SessionSteps \cup UnenrollSteps]
    BY DEF Inv, TypeOK, EnrollSteps, SessionSteps, UnenrollSteps
  <2>3. \A q \in Procs : pc'[q] \in {"authorize", "save", "refresh", "revoke"} => mine'[q] # None
    BY DEF Inv, TypeOK
  <2> QED BY <2>1, <2>2, <2>3 DEF TypeOK
<1>2. MadeAreUnsaved'
  BY DEF Inv, TypeOK, Making, MadeAreUnsaved
<1>3. MadeAreDistinct'
  BY DEF Inv, TypeOK, Making, MadeAreDistinct
<1>4. MadeHaveKeys'
  BY DEF Inv, TypeOK, MadeHaveKeys
<1>5. UnenrolledAreSaved' /\ RevokedIsGone'
  BY DEF Inv, TypeOK, UnenrolledAreSaved, RevokedIsGone, StateIsSaved
<1>6. SavedAreStarted' /\ StateIsSaved'
  BY DEF Inv, SavedAreStarted, StateIsSaved
<1>7. KeysOutliveRegistrations'
  BY DEF Inv, KeysOutliveRegistrations
<1> QED BY <1>1, <1>2, <1>3, <1>4, <1>5, <1>6, <1>7 DEF Inv

(* Once revoked it is gone.                                                *)
LEMMA RevokeKeepsInv ==
  ASSUME Inv, NEW p \in Procs, Revoke(p)
  PROVE  Inv'
<1> USE DEF Revoke, Goto, history
<1>1. TypeOK'
  <2>1. /\ stateFile' \in Attempts \cup {None} /\ keys' \subseteq Attempts
        /\ registered' \subseteq Attempts /\ attempts' \in 0 .. MaxAttempts
        /\ mine' \in [Procs -> Attempts \cup {None}]
        /\ saved' \subseteq Attempts /\ abandoned' \subseteq Attempts
    BY DEF Inv, TypeOK
  <2>2. pc' \in [Procs -> {"idle"} \cup EnrollSteps \cup SessionSteps \cup UnenrollSteps]
    BY DEF Inv, TypeOK, EnrollSteps, SessionSteps, UnenrollSteps
  <2>3. \A q \in Procs : pc'[q] \in {"authorize", "save", "refresh", "revoke"} => mine'[q] # None
    BY DEF Inv, TypeOK
  <2> QED BY <2>1, <2>2, <2>3 DEF TypeOK
<1>2. MadeAreUnsaved'
  BY DEF Inv, TypeOK, Making, MadeAreUnsaved
<1>3. MadeAreDistinct'
  BY DEF Inv, TypeOK, Making, MadeAreDistinct
<1>4. MadeHaveKeys'
  BY DEF Inv, TypeOK, MadeHaveKeys
<1>5. UnenrolledAreSaved' /\ RevokedIsGone'
  BY DEF Inv, TypeOK, At, UnenrolledAreSaved, RevokedIsGone
<1>6. SavedAreStarted' /\ StateIsSaved'
  BY DEF Inv, SavedAreStarted, StateIsSaved
<1>7. KeysOutliveRegistrations'
  BY DEF Inv, KeysOutliveRegistrations
<1> QED BY <1>1, <1>2, <1>3, <1>4, <1>5, <1>6, <1>7 DEF Inv

(* The key goes after the registration.                                    *)
LEMMA DeleteKeyKeepsInv ==
  ASSUME Inv, NEW p \in Procs, DeleteKey(p)
  PROVE  Inv'
<1> USE DEF DeleteKey, Goto, history
<1>1. TypeOK'
  <2>1. /\ stateFile' \in Attempts \cup {None} /\ keys' \subseteq Attempts
        /\ registered' \subseteq Attempts /\ attempts' \in 0 .. MaxAttempts
        /\ mine' \in [Procs -> Attempts \cup {None}]
        /\ saved' \subseteq Attempts /\ abandoned' \subseteq Attempts
    BY DEF Inv, TypeOK
  <2>2. pc' \in [Procs -> {"idle"} \cup EnrollSteps \cup SessionSteps \cup UnenrollSteps]
    BY DEF Inv, TypeOK, EnrollSteps, SessionSteps, UnenrollSteps
  <2>3. \A q \in Procs : pc'[q] \in {"authorize", "save", "refresh", "revoke"} => mine'[q] # None
    BY DEF Inv, TypeOK
  <2> QED BY <2>1, <2>2, <2>3 DEF TypeOK
<1>2. MadeAreUnsaved'
  BY DEF Inv, TypeOK, Making, MadeAreUnsaved
<1>3. MadeAreDistinct'
  BY DEF Inv, TypeOK, Making, MadeAreDistinct
<1>4. MadeHaveKeys'
  BY DEF Inv, TypeOK, Making, At, MadeAreUnsaved, MadeHaveKeys, UnenrolledAreSaved
<1>5. UnenrolledAreSaved' /\ RevokedIsGone'
  BY DEF Inv, TypeOK, UnenrolledAreSaved, RevokedIsGone
<1>6. SavedAreStarted' /\ StateIsSaved'
  BY DEF Inv, SavedAreStarted, StateIsSaved
<1>7. KeysOutliveRegistrations'
  BY DEF Inv, At, RevokedIsGone, KeysOutliveRegistrations
<1> QED BY <1>1, <1>2, <1>3, <1>4, <1>5, <1>6, <1>7 DEF Inv

(* The state goes last.                                                    *)
LEMMA DeleteStateKeepsInv ==
  ASSUME Inv, NEW p \in Procs, DeleteState(p)
  PROVE  Inv'
<1> USE DEF DeleteState, Goto, history
<1>1. TypeOK'
  <2>1. /\ stateFile' \in Attempts \cup {None} /\ keys' \subseteq Attempts
        /\ registered' \subseteq Attempts /\ attempts' \in 0 .. MaxAttempts
        /\ mine' \in [Procs -> Attempts \cup {None}]
        /\ saved' \subseteq Attempts /\ abandoned' \subseteq Attempts
    BY DEF Inv, TypeOK
  <2>2. pc' \in [Procs -> {"idle"} \cup EnrollSteps \cup SessionSteps \cup UnenrollSteps]
    BY DEF Inv, TypeOK, EnrollSteps, SessionSteps, UnenrollSteps
  <2>3. \A q \in Procs : pc'[q] \in {"authorize", "save", "refresh", "revoke"} => mine'[q] # None
    BY DEF Inv, TypeOK
  <2> QED BY <2>1, <2>2, <2>3 DEF TypeOK
<1>2. MadeAreUnsaved'
  BY DEF Inv, TypeOK, Making, MadeAreUnsaved
<1>3. MadeAreDistinct'
  BY DEF Inv, TypeOK, Making, MadeAreDistinct
<1>4. MadeHaveKeys'
  BY DEF Inv, TypeOK, MadeHaveKeys
<1>5. UnenrolledAreSaved' /\ RevokedIsGone'
  BY DEF Inv, TypeOK, UnenrolledAreSaved, RevokedIsGone
<1>6. SavedAreStarted' /\ StateIsSaved'
  BY DEF Inv, SavedAreStarted, StateIsSaved
<1>7. KeysOutliveRegistrations'
  BY DEF Inv, KeysOutliveRegistrations
<1> QED BY <1>1, <1>2, <1>3, <1>4, <1>5, <1>6, <1>7 DEF Inv

(* Whatever is left undone.                                                *)
LEMMA UnenrollFailsKeepsInv ==
  ASSUME Inv, NEW p \in Procs, UnenrollFails(p)
  PROVE  Inv'
<1> USE DEF UnenrollFails, Goto, history
<1>1. TypeOK'
  <2>1. /\ stateFile' \in Attempts \cup {None} /\ keys' \subseteq Attempts
        /\ registered' \subseteq Attempts /\ attempts' \in 0 .. MaxAttempts
        /\ mine' \in [Procs -> Attempts \cup {None}]
        /\ saved' \subseteq Attempts /\ abandoned' \subseteq Attempts
    BY DEF Inv, TypeOK
  <2>2. pc' \in [Procs -> {"idle"} \cup EnrollSteps \cup SessionSteps \cup UnenrollSteps]
    BY DEF Inv, TypeOK, EnrollSteps, SessionSteps, UnenrollSteps
  <2>3. \A q \in Procs : pc'[q] \in {"authorize", "save", "refresh", "revoke"} => mine'[q] # None
    BY DEF Inv, TypeOK
  <2> QED BY <2>1, <2>2, <2>3 DEF TypeOK
<1>2. MadeAreUnsaved'
  BY DEF Inv, TypeOK, Making, MadeAreUnsaved
<1>3. MadeAreDistinct'
  BY DEF Inv, TypeOK, Making, MadeAreDistinct
<1>4. MadeHaveKeys'
  BY DEF Inv, TypeOK, MadeHaveKeys
<1>5. UnenrolledAreSaved' /\ RevokedIsGone'
  BY DEF Inv, TypeOK, UnenrolledAreSaved, RevokedIsGone
<1>6. SavedAreStarted' /\ StateIsSaved'
  BY DEF Inv, SavedAreStarted, StateIsSaved
<1>7. KeysOutliveRegistrations'
  BY DEF Inv, KeysOutliveRegistrations
<1> QED BY <1>1, <1>2, <1>3, <1>4, <1>5, <1>6, <1>7 DEF Inv

(* A crash takes nothing but the process.                                  *)
LEMMA CrashKeepsInv ==
  ASSUME Inv, NEW p \in Procs, Crash(p)
  PROVE  Inv'
<1> USE DEF Crash, Goto, identity
<1>1. TypeOK'
  <2>1. /\ stateFile' \in Attempts \cup {None} /\ keys' \subseteq Attempts
        /\ registered' \subseteq Attempts /\ attempts' \in 0 .. MaxAttempts
        /\ mine' \in [Procs -> Attempts \cup {None}]
        /\ saved' \subseteq Attempts /\ abandoned' \subseteq Attempts
    BY MadeAreSome DEF Inv, TypeOK, Making
  <2>2. pc' \in [Procs -> {"idle"} \cup EnrollSteps \cup SessionSteps \cup UnenrollSteps]
    BY DEF Inv, TypeOK, EnrollSteps, SessionSteps, UnenrollSteps
  <2>3. \A q \in Procs : pc'[q] \in {"authorize", "save", "refresh", "revoke"} => mine'[q] # None
    BY DEF Inv, TypeOK
  <2> QED BY <2>1, <2>2, <2>3 DEF TypeOK
<1>2. MadeAreUnsaved'
  BY DEF Inv, Making, MadeAreUnsaved
<1>3. MadeAreDistinct'
  BY DEF Inv, Making, MadeAreDistinct
<1>4. MadeHaveKeys'
  BY DEF Inv, TypeOK, MadeHaveKeys
<1>5. UnenrolledAreSaved' /\ RevokedIsGone'
  BY DEF Inv, TypeOK, UnenrolledAreSaved, RevokedIsGone
<1>6. SavedAreStarted' /\ StateIsSaved'
  BY DEF Inv, SavedAreStarted, StateIsSaved
<1>7. KeysOutliveRegistrations'
  BY DEF Inv, KeysOutliveRegistrations
<1> QED BY <1>1, <1>2, <1>3, <1>4, <1>5, <1>6, <1>7 DEF Inv

(* The server may only forget.                                             *)
LEMMA ServerForgetsKeepsInv ==
  ASSUME Inv, NEW e \in Attempts, ServerForgets(e)
  PROVE  Inv'
<1> USE DEF ServerForgets, history
<1>1. TypeOK'
  <2>1. /\ stateFile' \in Attempts \cup {None} /\ keys' \subseteq Attempts
        /\ registered' \subseteq Attempts /\ attempts' \in 0 .. MaxAttempts
        /\ mine' \in [Procs -> Attempts \cup {None}]
        /\ saved' \subseteq Attempts /\ abandoned' \subseteq Attempts
    BY DEF Inv, TypeOK
  <2>2. pc' \in [Procs -> {"idle"} \cup EnrollSteps \cup SessionSteps \cup UnenrollSteps]
    BY DEF Inv, TypeOK, EnrollSteps, SessionSteps, UnenrollSteps
  <2>3. \A q \in Procs : pc'[q] \in {"authorize", "save", "refresh", "revoke"} => mine'[q] # None
    BY DEF Inv, TypeOK
  <2> QED BY <2>1, <2>2, <2>3 DEF TypeOK
<1>2. MadeAreUnsaved'
  BY DEF Inv, MadeAreUnsaved
<1>3. MadeAreDistinct'
  BY DEF Inv, MadeAreDistinct
<1>4. MadeHaveKeys'
  BY DEF Inv, MadeHaveKeys
<1>5. UnenrolledAreSaved' /\ RevokedIsGone'
  BY DEF Inv, UnenrolledAreSaved, RevokedIsGone
<1>6. SavedAreStarted' /\ StateIsSaved'
  BY DEF Inv, SavedAreStarted, StateIsSaved
<1>7. KeysOutliveRegistrations'
  BY DEF Inv, KeysOutliveRegistrations
<1> QED BY <1>1, <1>2, <1>3, <1>4, <1>5, <1>6, <1>7 DEF Inv

-----------------------------------------------------------------------------
(* Every step of every process keeps the invariant.                        *)
LEMMA NextKeepsInv == Inv /\ [Next]_vars => Inv'
<1> SUFFICES ASSUME Inv, [Next]_vars PROVE Inv'
  OBVIOUS
<1>1. CASE \E p \in Enrollers : StartEnroll(p) \/ StartSession(p) \/ EnrollStep(p)
  <2> PICK p \in Enrollers : StartEnroll(p) \/ StartSession(p) \/ EnrollStep(p)
    BY <1>1
  <2> p \in Procs
    BY DEF Procs
  <2>1. CASE StartEnroll(p)
    BY <2>1, MoveKeepsInv DEF StartEnroll, EnrollSteps, Making
  <2>2. CASE StartSession(p)
    BY <2>2, MoveKeepsInv DEF StartSession, SessionSteps, Making
  <2>3. CASE Ensure(p)
    BY <2>3, EnsureKeepsInv
  <2>4. CASE Refresh(p) \/ AlreadyEnrolled(p) \/ EnrollStartFails(p)
    BY <2>4, MoveKeepsInv DEF Refresh, AlreadyEnrolled, EnrollStartFails, Making
  <2>5. CASE Check(p)
    BY <2>5, MoveKeepsInv DEF Check, EnrollSteps, Making
  <2>6. CASE EnrollStart(p)
    BY <2>6, EnrollStartKeepsInv
  <2>7. CASE CreateKey(p)
    BY <2>7, CreateKeyKeepsInv
  <2>8. CASE Authorize(p)
    BY <2>8, MoveKeepsInv DEF Authorize, At, EnrollSteps, Making
  <2>9. CASE EnrollFinish(p)
    BY <2>9, EnrollFinishKeepsInv
  <2>10. CASE EnrollFails(p)
    BY <2>10, EnrollFailsKeepsInv
  <2>11. CASE Save(p)
    BY <2>11, SaveKeepsInv
  <2>12. CASE Cleanup(p)
    BY <2>12, CleanupKeepsInv
  <2> QED
    BY <2>1, <2>2, <2>3, <2>4, <2>5, <2>6, <2>7, <2>8, <2>9, <2>10, <2>11, <2>12 DEF EnrollStep
<1>2. CASE \E p \in Unenrollers : StartUnenroll(p) \/ UnenrollSucceeds(p) \/ UnenrollFails(p)
  <2> PICK p \in Unenrollers : StartUnenroll(p) \/ UnenrollSucceeds(p) \/ UnenrollFails(p)
    BY <1>2
  <2> p \in Procs
    BY DEF Procs
  <2>1. CASE StartUnenroll(p)
    BY <2>1, MoveKeepsInv DEF StartUnenroll, UnenrollSteps, Making
  <2>2. CASE NotEnrolled(p)
    BY <2>2, MoveKeepsInv DEF NotEnrolled, Making
  <2>3. CASE Load(p)
    BY <2>3, LoadKeepsInv
  <2>4. CASE Revoke(p)
    BY <2>4, RevokeKeepsInv
  <2>5. CASE DeleteKey(p)
    BY <2>5, DeleteKeyKeepsInv
  <2>6. CASE DeleteState(p)
    BY <2>6, DeleteStateKeepsInv
  <2>7. CASE UnenrollFails(p)
    BY <2>7, UnenrollFailsKeepsInv
  <2> QED
    BY <2>1, <2>2, <2>3, <2>4, <2>5, <2>6, <2>7 DEF UnenrollSucceeds
<1>3. CASE \E p \in Procs : Crash(p)
  BY <1>3, CrashKeepsInv
<1>4. CASE \E e \in Attempts : ServerForgets(e)
  BY <1>4, ServerForgetsKeepsInv
<1>5. CASE UNCHANGED vars
  BY <1>5 DEF vars, Inv, TypeOK, MadeAreUnsaved, MadeAreDistinct, MadeHaveKeys,
     UnenrolledAreSaved, RevokedIsGone, SavedAreStarted, StateIsSaved, KeysOutliveRegistrations
<1> QED
  BY <1>1, <1>2, <1>3, <1>4, <1>5 DEF Next

-----------------------------------------------------------------------------
(* The strengthening of the theorems below is an invariant.                *)
THEOREM InvIsInvariant == Spec => []Inv
BY InitInv, NextKeepsInv, PTL DEF Spec

(* Enrollments are attempts and steps those of the commands, always.       *)
THEOREM TypeCorrect == Spec => []TypeOK
<1>1. Inv => TypeOK
  BY DEF Inv
<1> QED
  BY <1>1, InvIsInvariant, PTL

(* However many processes enroll, unenroll, crash and retry, a client that *)
(* was enrolled to the end and is still accepted has its key.              *)
THEOREM KeysAlwaysOutliveRegistrations == Spec => []KeysOutliveRegistrations
<1>1. Inv => KeysOutliveRegistrations
  BY DEF Inv
<1> QED
  BY <1>1, InvIsInvariant, PTL

-----------------------------------------------------------------------------
(* What holds with one process enrolling and one unenrolling, at most.     *)
(* Nothing in the code keeps others away: with two that enroll the later   *)
(* replaces the state of the earlier, with two that unenroll the later     *)
(* deletes the state of an enrollment made since.                          *)
OneOfEach ==
  /\ \A p, q \in Enrollers : p = q
  /\ \A p, q \in Unenrollers : p = q

(* The steps of a command are taken by those that run it.                  *)
StepsAreOwn ==
  \A p \in Procs :
    /\ pc[p] \in EnrollSteps \cup SessionSteps => p \in Enrollers
    /\ pc[p] \in UnenrollSteps => p \in Unenrollers

(* There is no state while one enrolls: nobody else could have made it.    *)
MadeWithoutState ==
  \A p \in Procs : pc[p] \in {"start"} \cup Making => stateFile = None

(* It stays what was loaded while one unenrolls: nobody else could have    *)
(* deleted it, and none is made while there is one.                        *)
UnenrolledIsOnFile ==
  \A p \in Procs :
    pc[p] \in {"revoke", "delete key", "delete state"} => stateFile # None /\ mine[p] = stateFile

(* When it is deleted nothing of it is left.                               *)
NothingIsLeft ==
  \A p \in Procs : pc[p] = "delete state" => mine[p] \notin keys \cup registered

FileInv ==
  /\ StepsAreOwn /\ MadeWithoutState /\ UnenrolledIsOnFile /\ NothingIsLeft
  /\ KeysAreAccountedFor /\ RegisteredIsOnFile

LEMMA InitFileInv == Init => FileInv
BY DEF Init, FileInv, StepsAreOwn, MadeWithoutState, UnenrolledIsOnFile, NothingIsLeft,
   KeysAreAccountedFor, RegisteredIsOnFile, EnrollSteps, SessionSteps, UnenrollSteps, Making


(* A process that goes on to a step of its own, with nothing changed but   *)
(* that, as long as its step asks for nothing new.                         *)
LEMMA MoveKeepsFileInv ==
  ASSUME Inv, FileInv, NEW p \in Procs, NEW step, OnlyGoto(p, step),
         \/ step = "idle" /\ pc[p] \notin {"authorize", "finish", "save", "cleanup"}
         \/ step \in {"check", "ensure"} /\ p \in Enrollers /\ pc[p] \notin Making
         \/ step = "load" /\ p \in Unenrollers /\ pc[p] \notin Making
         \/ step = "start" /\ p \in Enrollers /\ pc[p] \notin Making /\ stateFile = None
         \/ step = "finish" /\ pc[p] = "authorize"
  PROVE  FileInv'
<1> USE DEF OnlyGoto, Goto, identity, history
<1> pc \in [Procs -> {"idle"} \cup EnrollSteps \cup SessionSteps \cup UnenrollSteps]
  BY DEF Inv, TypeOK
<1>1. StepsAreOwn'
  BY DEF FileInv, StepsAreOwn, EnrollSteps, SessionSteps, UnenrollSteps
<1>2. MadeWithoutState' /\ UnenrolledIsOnFile' /\ NothingIsLeft'
  BY DEF FileInv, MadeWithoutState, UnenrolledIsOnFile, NothingIsLeft, Making
<1>3. KeysAreAccountedFor' /\ RegisteredIsOnFile'
  BY DEF FileInv, KeysAreAccountedFor, RegisteredIsOnFile, Making, Procs
<1> QED
  BY <1>1, <1>2, <1>3 DEF FileInv

(* While there is no state and a process enrolls, no other does, and none  *)
(* unenrolls past the loading of the state.                                *)
LEMMA MakesAlone ==
  ASSUME Inv, FileInv, OneOfEach, NEW p \in Procs, pc[p] \in Making
  PROVE  /\ stateFile = None /\ p \in Enrollers
         /\ \A q \in Procs \ {p} : pc[q] \notin EnrollSteps \cup SessionSteps
         /\ \A q \in Procs : pc[q] \notin {"revoke", "delete key", "delete state"}
BY DEF FileInv, OneOfEach, StepsAreOwn, MadeWithoutState, UnenrolledIsOnFile, Making, EnrollSteps

(* One that has a state in its hands and no key takes none from another.   *)
LEMMA TakeUpKeepsFileInv ==
  ASSUME Inv, FileInv, NEW p \in Procs,
         \/ Ensure(p) /\ p \in Enrollers
         \/ EnrollStart(p)
         \/ Load(p)
  PROVE  FileInv'
<1> USE DEF Goto, identity, history, At
<1>0. /\ pc \in [Procs -> {"idle"} \cup EnrollSteps \cup SessionSteps \cup UnenrollSteps]
      /\ mine \in [Procs -> Attempts \cup {None}]
      /\ UNCHANGED <<identity, history>>
      /\ pc[p] \in {"ensure", "start", "load"}
  BY DEF Inv, TypeOK, Ensure, EnrollStart, Load
<1>1. StepsAreOwn'
  BY <1>0 DEF FileInv, StepsAreOwn, EnrollSteps, SessionSteps, UnenrollSteps,
     Ensure, EnrollStart, Load
<1>2. MadeWithoutState'
  BY <1>0 DEF FileInv, MadeWithoutState, Making, Ensure, EnrollStart, Load
<1>3. UnenrolledIsOnFile' /\ NothingIsLeft'
  BY <1>0 DEF FileInv, UnenrolledIsOnFile, NothingIsLeft, Ensure, EnrollStart, Load
<1>4. KeysAreAccountedFor'
  BY <1>0 DEF FileInv, KeysAreAccountedFor, Ensure, EnrollStart, Load, Procs
<1>5. RegisteredIsOnFile'
  BY <1>0 DEF FileInv, RegisteredIsOnFile
<1> QED
  BY <1>1, <1>2, <1>3, <1>4, <1>5 DEF FileInv

(* What becomes of an enrollment that has been started: nobody else is     *)
(* concerned.                                                              *)
LEMMA MakingKeepsFileInv ==
  ASSUME Inv, FileInv, OneOfEach, NEW p \in Enrollers,
         CreateKey(p) \/ EnrollFinish(p) \/ EnrollFails(p) \/ Save(p) \/ Cleanup(p)
  PROVE  FileInv'
<1> USE DEF Goto, identity, history, At, None
<1>0. /\ pc \in [Procs -> {"idle"} \cup EnrollSteps \cup SessionSteps \cup UnenrollSteps]
      /\ mine \in [Procs -> Attempts \cup {None}]
      /\ mine' = mine /\ p \in Procs /\ pc[p] \in Making
      /\ \E step \in {"idle", "authorize", "save", "cleanup"} : pc' = [pc EXCEPT ![p] = step]
  BY DEF Inv, TypeOK, CreateKey, EnrollFinish, EnrollFails, Save, Cleanup, Making, Procs
<1>1. /\ stateFile = None
      /\ \A q \in Procs \ {p} : pc[q] \notin EnrollSteps \cup SessionSteps
      /\ \A q \in Procs : pc[q] \notin {"revoke", "delete key", "delete state"}
  BY <1>0, MakesAlone
<1>2. mine[p] \in Attempts /\ mine[p] # None /\ mine[p] \notin saved
  BY <1>0, MadeAreSome DEF Inv, MadeAreUnsaved
<1>3. stateFile \notin Attempts
  <2>1. 0 \notin Attempts
    BY AttemptsAssumption DEF Attempts
  <2>2. stateFile = 0
    BY <1>1
  <2> QED
    BY <2>1, <2>2
<1>4. StepsAreOwn'
  BY <1>0 DEF FileInv, StepsAreOwn, EnrollSteps, SessionSteps, UnenrollSteps
<1>5. MadeWithoutState'
  BY <1>0, <1>1 DEF MadeWithoutState, Making, EnrollSteps,
     CreateKey, EnrollFinish, EnrollFails, Save, Cleanup
<1>6. UnenrolledIsOnFile' /\ NothingIsLeft'
  BY <1>0, <1>1 DEF UnenrolledIsOnFile, NothingIsLeft
<1>7. KeysAreAccountedFor'
  <2>1. ASSUME NEW e \in keys
        PROVE  \/ e \in abandoned
               \/ mine[p] = e /\ pc[p] \in {"authorize", "finish", "save", "cleanup"}
    <3>1. \/ e \in abandoned
          \/ \E q \in Enrollers :
               pc[q] \in {"authorize", "finish", "save", "cleanup"} /\ mine[q] = e
      BY <1>1, <1>3 DEF FileInv, KeysAreAccountedFor, Inv, TypeOK
    <3> QED
      BY <3>1 DEF OneOfEach
  <2> QED
    BY <1>0, <2>1 DEF KeysAreAccountedFor, CreateKey, EnrollFinish, EnrollFails, Save, Cleanup
<1>8. RegisteredIsOnFile'
  <2>1. saved \cap registered = {}
    BY <1>1, <1>3 DEF FileInv, RegisteredIsOnFile, Inv, TypeOK
  <2> QED
    BY <1>2, <2>1 DEF RegisteredIsOnFile, CreateKey, EnrollFinish, EnrollFails, Save, Cleanup
<1> QED
  BY <1>4, <1>5, <1>6, <1>7, <1>8 DEF FileInv

(* What is deleted, one after the other, is what was loaded.               *)
LEMMA UnenrollKeepsFileInv ==
  ASSUME Inv, FileInv, OneOfEach, NEW p \in Unenrollers,
         Revoke(p) \/ DeleteKey(p) \/ DeleteState(p) \/ UnenrollFails(p)
  PROVE  FileInv'
<1> USE DEF Goto, identity, history, At
<1>0. /\ pc \in [Procs -> {"idle"} \cup EnrollSteps \cup SessionSteps \cup UnenrollSteps]
      /\ mine' = mine /\ p \in Procs /\ abandoned' = abandoned /\ saved' = saved
      /\ registered' \subseteq registered /\ keys' \subseteq keys
      /\ pc[p] \in {"load", "revoke", "delete key", "delete state"}
      /\ \E step \in {"idle", "delete key", "delete state"} : pc' = [pc EXCEPT ![p] = step]
  BY DEF Inv, TypeOK, Revoke, DeleteKey, DeleteState, UnenrollFails, Procs
<1>1. stateFile' = stateFile \/ (DeleteState(p) /\ stateFile' = None)
  BY DEF Revoke, DeleteKey, DeleteState, UnenrollFails
<1>2. \A q \in Procs \ {p} : pc[q] \notin UnenrollSteps
  BY <1>0 DEF FileInv, StepsAreOwn, OneOfEach
<1>3. StepsAreOwn'
  BY <1>0 DEF FileInv, StepsAreOwn, EnrollSteps, SessionSteps, UnenrollSteps
<1>4. MadeWithoutState'
  BY <1>0, <1>1 DEF FileInv, MadeWithoutState, Making
<1>5. UnenrolledIsOnFile'
  BY <1>0, <1>1, <1>2 DEF FileInv, UnenrolledIsOnFile, UnenrollSteps,
     Revoke, DeleteKey, DeleteState, UnenrollFails
<1>6. NothingIsLeft'
  BY <1>0, <1>2 DEF FileInv, NothingIsLeft, Inv, RevokedIsGone, UnenrollSteps,
     Revoke, DeleteKey, DeleteState, UnenrollFails
<1>7. KeysAreAccountedFor' /\ RegisteredIsOnFile'
  <2>1. CASE stateFile' = stateFile
    BY <1>0, <2>1 DEF FileInv, KeysAreAccountedFor, RegisteredIsOnFile, Procs
  <2>2. CASE DeleteState(p)
    <3>1. stateFile \notin keys \cup registered
      BY <1>0, <2>2 DEF FileInv, UnenrolledIsOnFile, NothingIsLeft, DeleteState
    <3> QED
      BY <1>0, <3>1 DEF FileInv, KeysAreAccountedFor, RegisteredIsOnFile, Procs
  <2> QED
    BY <1>1, <2>1, <2>2
<1> QED
  BY <1>3, <1>4, <1>5, <1>6, <1>7 DEF FileInv

(* The key of an enrollment whose process dies is given up.                *)
LEMMA CrashKeepsFileInv ==
  ASSUME Inv, FileInv, NEW p \in Procs, Crash(p)
  PROVE  FileInv'
<1> USE DEF Goto, identity, history, At, Crash
<1> pc \in [Procs -> {"idle"} \cup EnrollSteps \cup SessionSteps \cup UnenrollSteps]
  BY DEF Inv, TypeOK
<1>1. StepsAreOwn'
  BY DEF FileInv, StepsAreOwn, EnrollSteps, SessionSteps, UnenrollSteps
<1>2. MadeWithoutState' /\ UnenrolledIsOnFile' /\ NothingIsLeft'
  BY DEF FileInv, MadeWithoutState, UnenrolledIsOnFile, NothingIsLeft, Making
<1>3. KeysAreAccountedFor'
  BY DEF FileInv, KeysAreAccountedFor, Procs
<1>4. RegisteredIsOnFile'
  BY DEF FileInv, RegisteredIsOnFile
<1> QED
  BY <1>1, <1>2, <1>3, <1>4 DEF FileInv

LEMMA NextKeepsFileInv == OneOfEach /\ Inv /\ FileInv /\ [Next]_vars => FileInv'
<1> SUFFICES ASSUME OneOfEach, Inv, FileInv, [Next]_vars
             PROVE  FileInv'
  OBVIOUS
<1>1. CASE \E p \in Enrollers : StartEnroll(p) \/ StartSession(p) \/ EnrollStep(p)
  <2> PICK p \in Enrollers : StartEnroll(p) \/ StartSession(p) \/ EnrollStep(p)
    BY <1>1
  <2> p \in Procs
    BY DEF Procs
  <2>1. CASE StartEnroll(p) \/ StartSession(p) \/ Refresh(p) \/ AlreadyEnrolled(p)
               \/ Check(p) \/ Authorize(p)
    BY <2>1, MoveKeepsFileInv DEF StartEnroll, StartSession, Refresh, AlreadyEnrolled, Check,
       Authorize, At, Making
  <2>2. CASE EnrollStartFails(p)
    BY <2>2, MoveKeepsFileInv DEF EnrollStartFails, Making
  <2>3. CASE Ensure(p) \/ EnrollStart(p)
    BY <2>3, TakeUpKeepsFileInv
  <2>4. CASE CreateKey(p) \/ EnrollFinish(p) \/ EnrollFails(p) \/ Save(p) \/ Cleanup(p)
    BY <2>4, MakingKeepsFileInv
  <2> QED
    BY <2>1, <2>2, <2>3, <2>4 DEF EnrollStep
<1>2. CASE \E p \in Unenrollers : StartUnenroll(p) \/ UnenrollSucceeds(p) \/ UnenrollFails(p)
  <2> PICK p \in Unenrollers : StartUnenroll(p) \/ UnenrollSucceeds(p) \/ UnenrollFails(p)
    BY <1>2
  <2> p \in Procs
    BY DEF Procs
  <2>1. CASE StartUnenroll(p) \/ NotEnrolled(p)
    BY <2>1, MoveKeepsFileInv DEF StartUnenroll, NotEnrolled, At, Making
  <2>2. CASE Load(p)
    BY <2>2, TakeUpKeepsFileInv
  <2>3. CASE Revoke(p) \/ DeleteKey(p) \/ DeleteState(p) \/ UnenrollFails(p)
    BY <2>3, UnenrollKeepsFileInv
  <2> QED
    BY <2>1, <2>2, <2>3 DEF UnenrollSucceeds
<1>3. CASE \E p \in Procs : Crash(p)
  BY <1>3, CrashKeepsFileInv
<1>4. CASE \E e \in Attempts : ServerForgets(e)
  BY <1>4 DEF ServerForgets, history, FileInv, StepsAreOwn, MadeWithoutState,
     UnenrolledIsOnFile, NothingIsLeft, KeysAreAccountedFor, RegisteredIsOnFile
<1>5. CASE UNCHANGED vars
  BY <1>5 DEF vars, FileInv, StepsAreOwn, MadeWithoutState, UnenrolledIsOnFile, NothingIsLeft,
     KeysAreAccountedFor, RegisteredIsOnFile
<1> QED
  BY <1>1, <1>2, <1>3, <1>4, <1>5 DEF Next

(* With one process enrolling and one unenrolling, whatever fails, dies or *)
(* is tried again: no key is left behind unnoticed.                        *)
THEOREM KeysAreAlwaysAccountedFor ==
  ASSUME OneOfEach
  PROVE  Spec => []KeysAreAccountedFor
<1>1. FileInv => KeysAreAccountedFor
  BY DEF FileInv
<1>2. Inv /\ FileInv /\ [Next]_vars => FileInv'
  BY NextKeepsFileInv
<1> QED
  BY <1>1, <1>2, InitFileInv, InvIsInvariant, PTL DEF Spec

(* And the state file is not forgotten before the server has forgotten the *)
(* client it names.                                                        *)
THEOREM RegisteredIsAlwaysOnFile ==
  ASSUME OneOfEach
  PROVE  Spec => []RegisteredIsOnFile
<1>1. FileInv => RegisteredIsOnFile
  BY DEF FileInv
<1>2. Inv /\ FileInv /\ [Next]_vars => FileInv'
  BY NextKeepsFileInv
<1> QED
  BY <1>1, <1>2, InitFileInv, InvIsInvariant, PTL DEF Spec

-----------------------------------------------------------------------------
(* Enrolling, the same with the step-up authorization in full.             *)

(* A step of the step-up authorization is Authorize, a failed enrollment   *)
(* or nothing to Enrollment.                                               *)
LEMMA StepUpImplements ==
  ASSUME NEW p \in Enrollers, StepUp(p)
  PROVE  Authorize(p) \/ EnrollFails(p) \/ UNCHANGED vars
<1>1. CASE \E elsewhere \in SUBSET PortNumbers : OpenBrowser(p, elsewhere)
  BY <1>1 DEF OpenBrowser
<1>2. CASE AuthorizationFails(p) \/ RefuseCallback(p) \/ TimesOut(p)
  BY <1>2 DEF AuthorizationFails, RefuseCallback, TimesOut
<1>3. CASE NotFound(p) \/ TakeCode(p)
  BY <1>3 DEF NotFound, TakeCode
<1>4. CASE Exchange(p)
  BY <1>4 DEF Exchange
<1> QED
  BY <1>1, <1>2, <1>3, <1>4 DEF StepUp

(* Every other step is one of Enrollment's own.                            *)
LEMMA OtherStepImplements ==
  ASSUME NEW p \in Enrollers, OtherEnrollStep(p)
  PROVE  EnrollStep(p)
BY DEF OtherEnrollStep, EnrollStep

LEMMA StepImplements == [EnrollingNext]_allVars => [Next]_vars
<1> SUFFICES ASSUME [EnrollingNext]_allVars
             PROVE  Next \/ UNCHANGED vars
  OBVIOUS
<1>1. CASE \E p \in Enrollers : StepUp(p) \/ OtherEnrollStep(p)
  <2> PICK p \in Enrollers : StepUp(p) \/ OtherEnrollStep(p)
    BY <1>1
  <2> QED
    BY StepUpImplements, OtherStepImplements DEF Next, EnrollStep
<1>2. CASE \E p \in Enrollers : (StartEnroll(p) \/ StartSession(p)) /\ UNCHANGED stepUp
  BY <1>2 DEF Next
<1>3. CASE \E p \in Unenrollers :
             (StartUnenroll(p) \/ UnenrollSucceeds(p) \/ UnenrollFails(p)) /\ UNCHANGED stepUp
  BY <1>3 DEF Next
<1>4. CASE \E p \in Procs : ProcessCrash(p)
  BY <1>4 DEF Next, ProcessCrash
<1>5. CASE \E e \in Attempts : ServerForgets(e) /\ UNCHANGED stepUp
  BY <1>5 DEF Next
<1>6. CASE \E t \in tabs, answer \in Answers : TabAnswers(t, answer)
  BY <1>6 DEF TabAnswers
<1>7. CASE \E n \in PortNumbers, what \in Strange : StrangerConnects(n, what)
  BY <1>7 DEF StrangerConnects
<1>8. CASE UNCHANGED allVars
  BY <1>8 DEF allVars
<1> QED
  BY <1>1, <1>2, <1>3, <1>4, <1>5, <1>6, <1>7, <1>8 DEF EnrollingNext

(* The detailed specification implements the one with a single Authorize.  *)
THEOREM EnrollingImplementsEnrollment == EnrollingSpec => ImplementsEnrollment
<1>1. EnrollingInit => Init
  BY DEF EnrollingInit
<1> QED
  BY <1>1, StepImplements, PTL DEF EnrollingSpec, Spec, ImplementsEnrollment

(* Hence its invariants: with the authorization in full, too, a client that*)
(* was enrolled to the end and is still accepted has its key.              *)
THEOREM EnrollingKeepsKeys == EnrollingSpec => []KeysOutliveRegistrations
BY EnrollingImplementsEnrollment, KeysAlwaysOutliveRegistrations, PTL DEF ImplementsEnrollment

-----------------------------------------------------------------------------
(* A process has a code only while it enrolls, and that of its attempt; it *)
(* has one from its authorization on.                                      *)
CodeInv ==
  /\ code \in [Procs -> Attempts \cup {None}]
  /\ \A p \in Procs :
       /\ code[p] # None => code[p] = mine[p] /\ pc[p] \in {"authorize", "finish", "save", "cleanup"}
       /\ pc[p] \in {"finish", "save"} => code[p] # None

LEMMA InitCodeInv == EnrollingInit => CodeInv
BY DEF EnrollingInit, Init, CodeInv

(* A step of Enrollment that leaves the codes alone, and takes no process  *)
(* with a code anywhere else.                                              *)
LEMMA GotoKeepsCodeInv ==
  ASSUME CodeInv, TypeOK, NEW p \in Procs, UNCHANGED code,
         NEW step, pc' = [pc EXCEPT ![p] = step],
         mine' = mine \/ (code[p] = None /\ \E e : mine' = [mine EXCEPT ![p] = e]),
         step \in {"finish", "save"} => code[p] # None,
         code[p] # None => step \in {"authorize", "finish", "save", "cleanup"}
  PROVE  CodeInv'
BY DEF CodeInv, TypeOK

(* A process that ends, or fails, gives its code up.                       *)
LEMMA EndKeepsCodeInv ==
  ASSUME CodeInv, TypeOK, NEW p \in Procs, NEW step \in {"idle", "cleanup"},
         pc' = [pc EXCEPT ![p] = step], mine' = mine,
         code' = [code EXCEPT ![p] = None]
  PROVE  CodeInv'
BY DEF CodeInv, TypeOK

(* A code is taken for the attempt it was given to.                        *)
LEMMA TakeCodeKeepsCodeInv ==
  ASSUME CodeInv, Inv, NEW p \in Procs, TakeCode(p)
  PROVE  CodeInv'
<1>1. pc[p] = "authorize" /\ mine[p] \in Attempts
  BY MadeAreSome DEF TakeCode, Listening, At, Making
<1>2. /\ code' = [code EXCEPT ![p] = mine[p]]
      /\ UNCHANGED <<pc, mine>>
  BY DEF TakeCode, vars
<1> QED
  BY <1>1, <1>2 DEF CodeInv, Inv, TypeOK

LEMMA StepUpKeepsCodeInv ==
  ASSUME CodeInv, Inv, NEW p \in Enrollers, StepUp(p)
  PROVE  CodeInv'
<1> p \in Procs /\ TypeOK
  BY DEF Procs, Inv
<1>1. CASE \E elsewhere \in SUBSET PortNumbers : OpenBrowser(p, elsewhere)
  BY <1>1 DEF OpenBrowser, CodeInv, vars
<1>2. CASE AuthorizationFails(p)
  <2>1. pc' = [pc EXCEPT ![p] = "cleanup"] /\ mine' = mine /\ code' = [code EXCEPT ![p] = None]
    BY <1>2 DEF AuthorizationFails, EnrollFails, Goto
  <2> QED
    BY <2>1, EndKeepsCodeInv
<1>3. CASE NotFound(p)
  BY <1>3 DEF NotFound, CodeInv, vars
<1>4. CASE RefuseCallback(p) \/ TimesOut(p)
  <2>1. pc' = [pc EXCEPT ![p] = "cleanup"] /\ mine' = mine /\ code' = code
    BY <1>4 DEF RefuseCallback, TimesOut, EnrollFails, Goto
  <2> QED
    BY <2>1, GotoKeepsCodeInv
<1>5. CASE TakeCode(p)
  BY <1>5, TakeCodeKeepsCodeInv
<1>6. CASE Exchange(p)
  <2>1. code[p] # None /\ pc' = [pc EXCEPT ![p] = "finish"] /\ mine' = mine /\ code' = code
    BY <1>6 DEF Exchange, Authorize, OnlyGoto, Goto, stepUp
  <2> QED
    BY <2>1, GotoKeepsCodeInv
<1> QED
  BY <1>1, <1>2, <1>3, <1>4, <1>5, <1>6 DEF StepUp

LEMMA OtherStepKeepsCodeInv ==
  ASSUME CodeInv, Inv, NEW p \in Enrollers, OtherEnrollStep(p)
  PROVE  CodeInv'
<1> p \in Procs /\ TypeOK
  BY DEF Procs, Inv
<1> USE DEF At, Goto, OnlyGoto
<1>1. CASE Ensure(p) /\ UNCHANGED stepUp
  <2>1. code[p] = None /\ UNCHANGED code
    BY <1>1 DEF Ensure, CodeInv, stepUp
  <2>2. CASE stateFile # None
    BY <1>1, <2>1, <2>2, GotoKeepsCodeInv DEF Ensure
  <2>3. CASE stateFile = None
    BY <1>1, <2>1, <2>3, GotoKeepsCodeInv DEF Ensure
  <2> QED
    BY <2>2, <2>3
<1>2. CASE (Refresh(p) \/ AlreadyEnrolled(p) \/ Check(p) \/ EnrollStartFails(p)) /\ UNCHANGED stepUp
  <2>1. code[p] = None /\ UNCHANGED code
    BY <1>2 DEF Refresh, AlreadyEnrolled, Check, EnrollStartFails, CodeInv, stepUp
  <2>2. mine' = mine /\ \E step \in {"idle", "start"} : pc' = [pc EXCEPT ![p] = step]
    BY <1>2 DEF Refresh, AlreadyEnrolled, Check, EnrollStartFails
  <2> QED
    BY <2>1, <2>2, GotoKeepsCodeInv
<1>3. CASE EnrollStart(p) /\ UNCHANGED stepUp
  <2>1. code[p] = None /\ UNCHANGED code
    BY <1>3 DEF EnrollStart, CodeInv, stepUp
  <2> QED
    BY <1>3, <2>1, GotoKeepsCodeInv DEF EnrollStart
<1>4. CASE CreateKey(p) /\ UNCHANGED stepUp
  <2>1. code[p] = None /\ UNCHANGED code
    BY <1>4 DEF CreateKey, CodeInv, stepUp
  <2> QED
    BY <1>4, <2>1, GotoKeepsCodeInv DEF CreateKey
<1>5. CASE EnrollFinish(p) /\ UNCHANGED stepUp
  <2>1. code[p] # None /\ UNCHANGED code
    BY <1>5 DEF EnrollFinish, CodeInv, stepUp
  <2> QED
    BY <1>5, <2>1, GotoKeepsCodeInv DEF EnrollFinish
<1>6. CASE (Save(p) \/ Cleanup(p)) /\ EndOf(p)
  BY <1>6, EndKeepsCodeInv DEF Save, Cleanup, EndOf
<1>7. CASE EnrollFails(p) /\ UNCHANGED stepUp
  BY <1>7, GotoKeepsCodeInv DEF EnrollFails, stepUp
<1> QED
  BY <1>1, <1>2, <1>3, <1>4, <1>5, <1>6, <1>7 DEF OtherEnrollStep

LEMMA UnenrollKeepsCodeInv ==
  ASSUME CodeInv, Inv, NEW p \in Unenrollers, UNCHANGED stepUp,
         StartUnenroll(p) \/ UnenrollSucceeds(p) \/ UnenrollFails(p)
  PROVE  CodeInv'
<1> p \in Procs /\ TypeOK
  BY DEF Procs, Inv
<1> USE DEF At, Goto, OnlyGoto
<1>1. code[p] = None /\ UNCHANGED code
  BY DEF StartUnenroll, UnenrollSucceeds, NotEnrolled, Load, Revoke, DeleteKey, DeleteState,
     UnenrollFails, CodeInv, stepUp
<1>2. CASE Load(p)
  BY <1>1, <1>2, GotoKeepsCodeInv DEF Load
<1>3. CASE ~ Load(p)
  <2>1. mine' = mine /\ \E step \in {"idle", "load", "delete key", "delete state"} :
                          pc' = [pc EXCEPT ![p] = step]
    BY <1>3 DEF StartUnenroll, UnenrollSucceeds, NotEnrolled, Revoke, DeleteKey, DeleteState,
       UnenrollFails
  <2> QED
    BY <1>1, <2>1, GotoKeepsCodeInv
<1> QED
  BY <1>2, <1>3

LEMMA NextKeepsCodeInv == CodeInv /\ Inv /\ [EnrollingNext]_allVars => CodeInv'
<1> SUFFICES ASSUME CodeInv, Inv, [EnrollingNext]_allVars
             PROVE  CodeInv'
  OBVIOUS
<1>1. CASE \E p \in Enrollers : StepUp(p) \/ OtherEnrollStep(p)
  BY <1>1, StepUpKeepsCodeInv, OtherStepKeepsCodeInv
<1>2. CASE \E p \in Enrollers : (StartEnroll(p) \/ StartSession(p)) /\ UNCHANGED stepUp
  <2> PICK p \in Enrollers : (StartEnroll(p) \/ StartSession(p)) /\ UNCHANGED stepUp
    BY <1>2
  <2>1. p \in Procs /\ TypeOK /\ code[p] = None /\ UNCHANGED code
    BY DEF Procs, Inv, StartEnroll, StartSession, At, CodeInv, stepUp
  <2>2. mine' = mine /\ \E step \in {"check", "ensure"} : pc' = [pc EXCEPT ![p] = step]
    BY DEF StartEnroll, StartSession, OnlyGoto, Goto
  <2> QED
    BY <2>1, <2>2, GotoKeepsCodeInv
<1>3. CASE \E p \in Unenrollers :
             (StartUnenroll(p) \/ UnenrollSucceeds(p) \/ UnenrollFails(p)) /\ UNCHANGED stepUp
  BY <1>3, UnenrollKeepsCodeInv
<1>4. CASE \E p \in Procs : ProcessCrash(p)
  <2> PICK p \in Procs : ProcessCrash(p)
    BY <1>4
  <2>1. pc' = [pc EXCEPT ![p] = "idle"] /\ mine' = mine /\ code' = [code EXCEPT ![p] = None]
    BY DEF ProcessCrash, Crash, Goto
  <2> QED
    BY <2>1, EndKeepsCodeInv DEF Inv
<1>5. CASE \E e \in Attempts : ServerForgets(e) /\ UNCHANGED stepUp
  BY <1>5 DEF ServerForgets, stepUp, CodeInv
<1>6. CASE \E t \in tabs, answer \in Answers : TabAnswers(t, answer)
  BY <1>6 DEF TabAnswers, vars, CodeInv
<1>7. CASE \E n \in PortNumbers, what \in Strange : StrangerConnects(n, what)
  BY <1>7 DEF StrangerConnects, vars, CodeInv
<1>8. CASE UNCHANGED allVars
  BY <1>8 DEF allVars, vars, stepUp, CodeInv
<1> QED
  BY <1>1, <1>2, <1>3, <1>4, <1>5, <1>6, <1>7, <1>8 DEF EnrollingNext

(* However many processes enroll one after another on the same ports, the  *)
(* late answer of one attempt's page never authorizes another's key.       *)
THEOREM CodesAreAlwaysOwn == EnrollingSpec => []CodeIsOwn
<1>1. EnrollingSpec => []Inv
  BY EnrollingImplementsEnrollment, InvIsInvariant, PTL DEF ImplementsEnrollment
<1>2. CodeInv => CodeIsOwn
  BY DEF CodeInv, CodeIsOwn, Procs
<1> QED
  BY <1>1, <1>2, InitCodeInv, NextKeepsCodeInv, PTL DEF EnrollingSpec

(* With one process enrolling and one unenrolling no key is left behind    *)
(* unnoticed, and a client that is still accepted is the one in the file,  *)
(* whatever becomes of an authorization.                                   *)
THEOREM EnrollingKeepsAccounts ==
  ASSUME OneOfEach
  PROVE  EnrollingSpec => [](KeysAreAccountedFor /\ RegisteredIsOnFile)
BY EnrollingImplementsEnrollment, KeysAreAlwaysAccountedFor, RegisteredIsAlwaysOnFile, PTL
   DEF ImplementsEnrollment

-----------------------------------------------------------------------------
(* A process listens only while it waits for its callback, ...             *)
PortsAreHeld ==
  /\ port \in [Procs -> PortNumbers \cup {NoPort}]
  /\ \A p \in Procs : port[p] # NoPort => At(p, "authorize") /\ code[p] = None

(* ... no two on one port, ...                                             *)
PortsAreDistinct == \A p, q \in Procs : port[p] = port[q] /\ port[p] # NoPort => p = q

(* ... and connections wait only where somebody listens.                   *)
WaitingIsTyped ==
  /\ waiting \in [PortNumbers -> Seq(Connections)]
  /\ \A n \in PortNumbers : waiting[n] # <<>> => n # NoPort /\ \E p \in Procs : port[p] = n

TabsAreTyped ==
  /\ tabs \subseteq [attempt : Attempts, port : PortNumbers]
  /\ strangers \in 0 .. MaxStrangers

PortInv == PortsAreHeld /\ PortsAreDistinct /\ WaitingIsTyped /\ TabsAreTyped

LEMMA InitPortInv == EnrollingInit => PortInv
<1>1. <<>> \in Seq(Connections)
  OBVIOUS
<1> QED
  BY <1>1, StrangersAssumption DEF EnrollingInit, Init, PortInv, PortsAreHeld, PortsAreDistinct,
     WaitingIsTyped, TabsAreTyped

(* A process that does not listen goes wherever it goes.                   *)
LEMMA GotoKeepsPortInv ==
  ASSUME PortInv, CodeInv, TypeOK, NEW p \in Procs, NEW step, pc' = [pc EXCEPT ![p] = step],
         port[p] = NoPort, UNCHANGED <<port, tabs, waiting, strangers>>,
         code' = code \/ code' = [code EXCEPT ![p] = None]
  PROVE  PortInv'
<1>1. PortsAreHeld'
  BY DEF PortInv, PortsAreHeld, At, TypeOK, CodeInv
<1>2. PortsAreDistinct' /\ WaitingIsTyped' /\ TabsAreTyped'
  BY DEF PortInv, PortsAreDistinct, WaitingIsTyped, TabsAreTyped
<1> QED
  BY <1>1, <1>2 DEF PortInv

(* One that stops listening leaves nobody waiting.                         *)
LEMMA StopKeepsPortInv ==
  ASSUME PortInv, CodeInv, TypeOK, NEW p \in Procs, StopListening(p), port[p] # NoPort,
         pc' = pc \/ \E step : pc' = [pc EXCEPT ![p] = step],
         code' = code \/ \E c : code' = [code EXCEPT ![p] = c],
         UNCHANGED <<tabs, strangers>>
  PROVE  PortInv'
<1> USE DEF StopListening
<1>1. port' = [port EXCEPT ![p] = NoPort] /\ port \in [Procs -> PortNumbers \cup {NoPort}]
  BY DEF PortInv, PortsAreHeld
<1>2. PortsAreHeld'
  BY <1>1 DEF PortInv, PortsAreHeld, At, TypeOK, CodeInv
<1>3. PortsAreDistinct'
  BY <1>1 DEF PortInv, PortsAreDistinct
<1>4. WaitingIsTyped'
  <2>1. waiting' \in [PortNumbers -> Seq(Connections)]
    BY DEF PortInv, WaitingIsTyped
  <2>2. ASSUME NEW n \in PortNumbers, waiting'[n] # <<>>
        PROVE  n # NoPort /\ \E q \in Procs : port'[q] = n
    <3>1. n # port[p] /\ waiting[n] # <<>>
      BY <2>2
    <3> PICK q \in Procs : port[q] = n
      BY <3>1 DEF PortInv, WaitingIsTyped
    <3>2. port'[q] = n
      BY <1>1, <3>1
    <3> QED
      BY <3>1, <3>2 DEF PortInv, WaitingIsTyped
  <2> QED
    BY <2>1, <2>2 DEF WaitingIsTyped
<1>5. TabsAreTyped'
  BY DEF PortInv, TabsAreTyped
<1> QED
  BY <1>2, <1>3, <1>4, <1>5 DEF PortInv

LEMMA OpenBrowserKeepsPortInv ==
  ASSUME PortInv, Inv, NEW p \in Procs, NEW elsewhere, OpenBrowser(p, elsewhere)
  PROVE  PortInv'
<1> PICK i \in DOMAIN Ports :
      /\ Ports[i] \notin Listeners
      /\ port' = [port EXCEPT ![p] = Ports[i]]
      /\ tabs' = tabs \cup {[attempt |-> mine[p], port |-> Ports[i]]}
  BY DEF OpenBrowser
<1>1. /\ At(p, "authorize") /\ port[p] = NoPort /\ code[p] = None
      /\ UNCHANGED <<pc, mine, waiting, code, strangers>>
  BY DEF OpenBrowser, vars
<1>2. Ports[i] \in PortNumbers /\ mine[p] \in Attempts
  BY <1>1, MadeAreSome DEF PortNumbers, At, Making
<1>3. \A q \in Procs : port[q] = Ports[i] => Ports[i] = NoPort
  BY DEF Listeners
<1>4. port \in [Procs -> PortNumbers \cup {NoPort}]
  BY DEF PortInv, PortsAreHeld
<1>5. PortsAreHeld'
  BY <1>1, <1>2, <1>4 DEF PortInv, PortsAreHeld, At
<1>6. PortsAreDistinct'
  BY <1>3, <1>4 DEF PortInv, PortsAreDistinct
<1>7. WaitingIsTyped'
  <2>1. ASSUME NEW n \in PortNumbers, waiting[n] # <<>>
        PROVE  \E q \in Procs : port'[q] = n
    <3> PICK q \in Procs : port[q] = n
      BY <2>1 DEF PortInv, WaitingIsTyped
    <3>1. q # p
      BY <1>1, <2>1 DEF PortInv, WaitingIsTyped
    <3> QED
      BY <1>4, <3>1
  <2> QED
    BY <1>1, <2>1 DEF PortInv, WaitingIsTyped
<1>8. TabsAreTyped'
  BY <1>1, <1>2 DEF PortInv, TabsAreTyped
<1> QED
  BY <1>5, <1>6, <1>7, <1>8 DEF PortInv


(* A connection comes only to where somebody listens, ...                  *)
LEMMA ConnectionKeepsPortInv ==
  ASSUME PortInv, NEW n \in Listeners, NEW c \in Connections,
         waiting' = [waiting EXCEPT ![n] = Append(@, c)],
         UNCHANGED <<pc, port, code>>, TabsAreTyped'
  PROVE  PortInv'
<1>1. port \in [Procs -> PortNumbers \cup {NoPort}] /\ waiting \in [PortNumbers -> Seq(Connections)]
  BY DEF PortInv, PortsAreHeld, WaitingIsTyped
<1> PICK p \in Procs : port[p] = n /\ n # NoPort
  BY DEF Listeners
<1>2. n \in PortNumbers
  BY <1>1
<1>3. waiting' \in [PortNumbers -> Seq(Connections)]
  BY <1>1, <1>2
<1>4. \A m \in PortNumbers \ {n} : waiting'[m] = waiting[m]
  BY <1>1
<1>5. WaitingIsTyped'
  BY <1>3, <1>4 DEF PortInv, WaitingIsTyped
<1>6. PortsAreHeld' /\ PortsAreDistinct'
  BY DEF PortInv, PortsAreHeld, PortsAreDistinct, At
<1> QED
  BY <1>5, <1>6 DEF PortInv

(* ... and is taken by whoever listens there.                              *)
LEMMA NotFoundKeepsPortInv ==
  ASSUME PortInv, NEW p \in Procs, NotFound(p)
  PROVE  PortInv'
<1>1. port \in [Procs -> PortNumbers \cup {NoPort}] /\ waiting \in [PortNumbers -> Seq(Connections)]
  BY DEF PortInv, PortsAreHeld, WaitingIsTyped
<1>2. /\ port[p] \in PortNumbers /\ waiting[port[p]] # <<>>
      /\ waiting' = [waiting EXCEPT ![port[p]] = Tail(@)]
      /\ UNCHANGED <<pc, port, tabs, code, strangers>>
  BY <1>1 DEF NotFound, Listening, vars
<1>3. Tail(waiting[port[p]]) \in Seq(Connections)
  BY <1>1, <1>2
<1>4. waiting' \in [PortNumbers -> Seq(Connections)]
  BY <1>1, <1>2, <1>3
<1>5. \A n \in PortNumbers : waiting'[n] # <<>> => waiting[n] # <<>>
  BY <1>1, <1>2
<1>6. WaitingIsTyped'
  BY <1>2, <1>4, <1>5 DEF PortInv, WaitingIsTyped
<1>7. PortsAreHeld' /\ PortsAreDistinct' /\ TabsAreTyped'
  BY <1>2 DEF PortInv, PortsAreHeld, PortsAreDistinct, TabsAreTyped, At
<1> QED
  BY <1>6, <1>7 DEF PortInv

LEMMA TabAnswersKeepsPortInv ==
  ASSUME PortInv, NEW t \in tabs, NEW answer \in Answers, TabAnswers(t, answer)
  PROVE  PortInv'
<1>1. UNCHANGED <<pc, port, code>> /\ TabsAreTyped'
  BY DEF TabAnswers, vars, PortInv, TabsAreTyped
<1>2. CASE t.port \in Listeners
  <2>1. [says |-> answer, attempt |-> t.attempt] \in Connections
    BY DEF PortInv, TabsAreTyped, Connections
  <2> QED
    BY <1>1, <1>2, <2>1, ConnectionKeepsPortInv DEF TabAnswers
<1>3. CASE t.port \notin Listeners
  <2>1. waiting' = waiting
    BY <1>3 DEF TabAnswers
  <2> QED
    BY <1>1, <2>1 DEF PortInv, PortsAreHeld, PortsAreDistinct, WaitingIsTyped, At
<1> QED
  BY <1>2, <1>3

LEMMA StrangerConnectsKeepsPortInv ==
  ASSUME PortInv, NEW n \in PortNumbers, NEW what \in Strange, StrangerConnects(n, what)
  PROVE  PortInv'
<1>1. UNCHANGED <<pc, port, code>> /\ TabsAreTyped'
  BY StrangersAssumption DEF StrangerConnects, vars, PortInv, TabsAreTyped
<1>2. [says |-> what, attempt |-> None] \in Connections
  BY DEF Connections
<1> QED
  BY <1>1, <1>2, ConnectionKeepsPortInv DEF StrangerConnects

LEMMA StepUpKeepsPortInv ==
  ASSUME PortInv, CodeInv, Inv, NEW p \in Enrollers, StepUp(p)
  PROVE  PortInv'
<1> p \in Procs /\ TypeOK
  BY DEF Procs, Inv
<1>1. CASE \E elsewhere \in SUBSET PortNumbers : OpenBrowser(p, elsewhere)
  BY <1>1, OpenBrowserKeepsPortInv
<1>2. CASE AuthorizationFails(p)
  <2>1. /\ pc' = [pc EXCEPT ![p] = "cleanup"] /\ code' = [code EXCEPT ![p] = None]
        /\ port[p] = NoPort /\ UNCHANGED <<port, tabs, waiting, strangers>>
    BY <1>2 DEF AuthorizationFails, EnrollFails, Goto
  <2> QED
    BY <2>1, GotoKeepsPortInv
<1>3. CASE NotFound(p)
  BY <1>3, NotFoundKeepsPortInv
<1>4. CASE RefuseCallback(p) \/ TimesOut(p)
  <2>1. /\ pc' = [pc EXCEPT ![p] = "cleanup"] /\ code' = code
        /\ port[p] # NoPort /\ StopListening(p) /\ UNCHANGED <<tabs, strangers>>
    BY <1>4 DEF RefuseCallback, TimesOut, EnrollFails, Goto, Listening
  <2> QED
    BY <2>1, StopKeepsPortInv
<1>5. CASE TakeCode(p)
  <2>1. /\ pc' = pc /\ code' = [code EXCEPT ![p] = Caller(p).attempt]
        /\ port[p] # NoPort /\ StopListening(p) /\ UNCHANGED <<tabs, strangers>>
    BY <1>5 DEF TakeCode, Listening, vars
  <2> QED
    BY <2>1, StopKeepsPortInv
<1>6. CASE Exchange(p)
  <2>1. /\ pc' = [pc EXCEPT ![p] = "finish"] /\ code[p] # None
        /\ UNCHANGED <<port, tabs, waiting, code, strangers>>
    BY <1>6 DEF Exchange, Authorize, OnlyGoto, Goto, stepUp
  <2>2. port[p] = NoPort
    BY <2>1 DEF PortInv, PortsAreHeld
  <2> QED
    BY <2>1, <2>2, GotoKeepsPortInv
<1> QED
  BY <1>1, <1>2, <1>3, <1>4, <1>5, <1>6 DEF StepUp

(* Any other step of a process is taken while it does not listen.          *)
LEMMA OtherStepKeepsPortInv ==
  ASSUME PortInv, CodeInv, Inv, NEW p \in Procs, ~ At(p, "authorize"),
         \E step : pc' = [pc EXCEPT ![p] = step],
         code' = code \/ code' = [code EXCEPT ![p] = None],
         UNCHANGED <<port, tabs, waiting, strangers>>
  PROVE  PortInv'
<1>1. port[p] = NoPort
  BY DEF PortInv, PortsAreHeld
<1> PICK step : pc' = [pc EXCEPT ![p] = step]
  OBVIOUS
<1> QED
  BY <1>1, GotoKeepsPortInv DEF Inv

LEMMA OtherEnrollStepKeepsPortInv ==
  ASSUME PortInv, CodeInv, Inv, NEW p \in Enrollers, OtherEnrollStep(p)
  PROVE  PortInv'
<1> p \in Procs
  BY DEF Procs
<1> USE DEF At, Goto, OnlyGoto
<1>1. CASE /\ UNCHANGED stepUp
           /\ \/ Ensure(p) \/ Refresh(p) \/ AlreadyEnrolled(p) \/ Check(p)
              \/ EnrollStart(p) \/ EnrollStartFails(p) \/ CreateKey(p) \/ EnrollFinish(p)
  <2>1. ~ At(p, "authorize")
    BY <1>1 DEF Ensure, Refresh, AlreadyEnrolled, Check, EnrollStart, EnrollStartFails, CreateKey,
       EnrollFinish
  <2>2. \E step : pc' = [pc EXCEPT ![p] = step]
    BY <1>1 DEF Ensure, Refresh, AlreadyEnrolled, Check, EnrollStart, EnrollStartFails, CreateKey,
       EnrollFinish
  <2> QED
    BY <1>1, <2>1, <2>2, OtherStepKeepsPortInv DEF stepUp
<1>2. CASE (Save(p) \/ Cleanup(p)) /\ EndOf(p)
  <2>1. ~ At(p, "authorize") /\ \E step : pc' = [pc EXCEPT ![p] = step]
    BY <1>2 DEF Save, Cleanup
  <2> QED
    BY <1>2, <2>1, OtherStepKeepsPortInv DEF EndOf
<1>3. CASE ~ At(p, "authorize") /\ EnrollFails(p) /\ UNCHANGED stepUp
  <2>1. \E step : pc' = [pc EXCEPT ![p] = step]
    BY <1>3 DEF EnrollFails
  <2> QED
    BY <1>3, <2>1, OtherStepKeepsPortInv DEF stepUp
<1> QED
  BY <1>1, <1>2, <1>3 DEF OtherEnrollStep

LEMMA NextKeepsPortInv == PortInv /\ CodeInv /\ Inv /\ [EnrollingNext]_allVars => PortInv'
<1> SUFFICES ASSUME PortInv, CodeInv, Inv, [EnrollingNext]_allVars
             PROVE  PortInv'
  OBVIOUS
<1>1. CASE \E p \in Enrollers : StepUp(p) \/ OtherEnrollStep(p)
  BY <1>1, StepUpKeepsPortInv, OtherEnrollStepKeepsPortInv
<1>2. CASE \E p \in Enrollers : (StartEnroll(p) \/ StartSession(p)) /\ UNCHANGED stepUp
  <2> PICK p \in Enrollers : (StartEnroll(p) \/ StartSession(p)) /\ UNCHANGED stepUp
    BY <1>2
  <2>1. p \in Procs /\ ~ At(p, "authorize") /\ \E step : pc' = [pc EXCEPT ![p] = step]
    BY DEF Procs, StartEnroll, StartSession, At, OnlyGoto, Goto
  <2> QED
    BY <2>1, OtherStepKeepsPortInv DEF stepUp
<1>3. CASE \E p \in Unenrollers :
             (StartUnenroll(p) \/ UnenrollSucceeds(p) \/ UnenrollFails(p)) /\ UNCHANGED stepUp
  <2> PICK p \in Unenrollers :
             (StartUnenroll(p) \/ UnenrollSucceeds(p) \/ UnenrollFails(p)) /\ UNCHANGED stepUp
    BY <1>3
  <2>1. p \in Procs /\ ~ At(p, "authorize")
    BY DEF Procs, StartUnenroll, UnenrollSucceeds, NotEnrolled, Load, Revoke, DeleteKey,
       DeleteState, UnenrollFails, At
  <2>2. \E step : pc' = [pc EXCEPT ![p] = step]
    BY DEF StartUnenroll, UnenrollSucceeds, NotEnrolled, Load, Revoke, DeleteKey,
       DeleteState, UnenrollFails, OnlyGoto, Goto
  <2> QED
    BY <2>1, <2>2, OtherStepKeepsPortInv DEF stepUp
<1>4. CASE \E p \in Procs : ProcessCrash(p)
  <2> PICK p \in Procs : ProcessCrash(p)
    BY <1>4
  <2>1. /\ pc' = [pc EXCEPT ![p] = "idle"] /\ code' = [code EXCEPT ![p] = None]
        /\ UNCHANGED <<tabs, strangers>> /\ TypeOK
    BY DEF ProcessCrash, Crash, Goto, Inv
  <2>2. CASE port[p] = NoPort
    <3>1. UNCHANGED <<port, waiting>>
      BY <2>2 DEF ProcessCrash
    <3> QED
      BY <2>1, <2>2, <3>1, GotoKeepsPortInv
  <2>3. CASE port[p] # NoPort
    <3>1. StopListening(p)
      BY <2>3 DEF ProcessCrash
    <3> QED
      BY <2>1, <2>3, <3>1, StopKeepsPortInv
  <2> QED
    BY <2>2, <2>3
<1>5. CASE \E t \in tabs, answer \in Answers : TabAnswers(t, answer)
  BY <1>5, TabAnswersKeepsPortInv
<1>6. CASE \E n \in PortNumbers, what \in Strange : StrangerConnects(n, what)
  BY <1>6, StrangerConnectsKeepsPortInv
<1>7. CASE (\E e \in Attempts : ServerForgets(e) /\ UNCHANGED stepUp) \/ UNCHANGED allVars
  <2>1. UNCHANGED <<pc, port, tabs, waiting, code, strangers>>
    BY <1>7 DEF ServerForgets, allVars, vars, stepUp
  <2> QED
    BY <2>1 DEF PortInv, PortsAreHeld, PortsAreDistinct, WaitingIsTyped, TabsAreTyped, At
<1> QED
  BY <1>1, <1>2, <1>3, <1>4, <1>5, <1>6, <1>7 DEF EnrollingNext

(* A port is held by one process at a time, while it waits for its         *)
(* callback, and what waits there is a page's answer or a stranger.        *)
THEOREM EnrollingTyped == EnrollingSpec => []EnrollingTypeOK
<1>1. EnrollingSpec => []Inv
  BY EnrollingImplementsEnrollment, InvIsInvariant, PTL DEF ImplementsEnrollment
<1>2. Inv /\ CodeInv /\ PortInv => EnrollingTypeOK
  BY DEF Inv, CodeInv, PortInv, PortsAreHeld, PortsAreDistinct, WaitingIsTyped, TabsAreTyped,
     EnrollingTypeOK
<1> QED
  BY <1>1, <1>2, InitCodeInv, NextKeepsCodeInv, InitPortInv, NextKeepsPortInv, PTL
     DEF EnrollingSpec

=============================================================================
