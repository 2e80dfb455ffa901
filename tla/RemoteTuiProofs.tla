-------------------------- MODULE RemoteTuiProofs --------------------------
(***************************************************************************)
(* Proofs about RemoteTui, for any hosts, any list the server may page out *)
(* and any limits: no way to end leaves the TUI running without the lock,  *)
(* no server keeps rcodex asking, and the relay is only asked for a host   *)
(* that was chosen rightly.                                                *)
(***************************************************************************)
EXTENDS RemoteTui, FiniteSetTheorems, WellFoundedInduction, TLAPS

(* From the lock on to the end of what is served.                          *)
Held == {"verify", "socket", "challenge", "shim", "launch", "serving"}

(* The lock is had from Lock to the return, and the TUI runs only while it *)
(* is served, unless rcodex died.                                          *)
LockInv ==
  /\ stage \in Held => lock = "shared"
  /\ child = "running" => stage = "serving" \/ outcome = "crashed"

(* A return kills the TUI, and leaves the stages that have the lock.       *)
LEMMA ReturnKeepsLockInv ==
  ASSUME NEW how, Return(how)
  PROVE  LockInv'
BY DEF Return, LockInv, Held

(* Up to the launch no TUI runs, so a next stage that has the lock is all  *)
(* that needs it.                                                          *)
LEMMA GotoKeepsLockInv ==
  ASSUME LockInv, NEW s, Goto(s), UNCHANGED child,
         stage # "serving",
         s \in Held => lock' = "shared"
  PROVE  LockInv'
BY DEF Goto, LockInv, Held

(* What goes on outside rcodex and around it takes no lock from it.        *)
LEMMA OutsideKeepsLockInv ==
  ASSUME LockInv, Outside
  PROVE  LockInv'
BY DEF LockInv, Held, Outside, SessionExpires, ReplacerLocks, ReplacerUnlocks, SilenceEnds,
   TuiExits, Connects, run, tui

LEMMA ProgressKeepsLockInv ==
  ASSUME LockInv, Progress
  PROVE  LockInv'
<1> USE DEF At
<1>1. CASE Passes
  <2>1. stage \in {"session", "auth", "inspect", "socket"} /\ Goto(After[stage])
    BY <1>1 DEF Passes, After
  <2>2. UNCHANGED <<child, lock>>
    BY <1>1 DEF Passes, tui
  <2>3. stage = "socket" \/ After[stage] \notin Held
    BY <2>1 DEF After, Held
  <2>4. stage = "socket" => lock = "shared"
    BY DEF LockInv, Held
  <2> QED
    BY <2>1, <2>2, <2>3, <2>4, GotoKeepsLockInv
<1>2. CASE Lists
  BY <1>2 DEF Lists, LockInv, run, tui
<1>3. CASE ListEnds
  <2>1. CASE listing = "listed"
    BY <1>3, <2>1, GotoKeepsLockInv DEF ListEnds, Held
  <2>2. CASE listing # "listed"
    BY <1>3, <2>2, ReturnKeepsLockInv DEF ListEnds
  <2> QED
    BY <2>1, <2>2
<1>4. CASE Select
  BY <1>4, GotoKeepsLockInv DEF Select, Held, tui
<1>5. CASE SelectFails \/ Updates \/ LockFails
  BY <1>5, ReturnKeepsLockInv DEF SelectFails, Updates, LockFails
<1>6. CASE UpdatesNot
  BY <1>6, GotoKeepsLockInv DEF UpdatesNot, Held, tui
<1>7. CASE Lock
  BY <1>7, GotoKeepsLockInv DEF Lock, tui
<1>8. CASE Verify
  <2>1. CASE chosen.sameVersion
    BY <1>8, <2>1, GotoKeepsLockInv DEF Verify, LockInv, Held
  <2>2. CASE ~ chosen.sameVersion
    BY <1>8, <2>2, ReturnKeepsLockInv DEF Verify
  <2> QED
    BY <2>1, <2>2
<1>9. CASE Prove
  BY <1>9, GotoKeepsLockInv DEF Prove, LockInv, Held, tui
<1>10. CASE Bind
  BY <1>10, GotoKeepsLockInv DEF Bind, LockInv, Held
<1>11. CASE Launch
  BY <1>11 DEF Launch, Goto, LockInv, Held
<1>12. CASE Unlock
  BY <1>12 DEF Unlock, Goto, LockInv, Held, tui
<1>13. CASE Fails
  BY <1>13, ReturnKeepsLockInv DEF Fails
<1>14. CASE AcceptTimesOut \/ BridgeEnds \/ TuiEnded
  BY <1>14, ReturnKeepsLockInv DEF AcceptTimesOut, BridgeEnds, TuiEnded
<1>15. CASE Handshake
  <2>1. CASE UNCHANGED <<run, child>>
    BY <1>15, <2>1 DEF Handshake, LockInv, run
  <2>2. CASE Return("failed")
    BY <2>2, ReturnKeepsLockInv
  <2> QED
    BY <1>15, <2>1, <2>2 DEF Handshake
<1> QED
  BY <1>1, <1>2, <1>3, <1>4, <1>5, <1>6, <1>7, <1>8, <1>9, <1>10, <1>11, <1>12, <1>13, <1>14, <1>15
     DEF Progress

LEMMA NextKeepsLockInv == LockInv /\ [Next]_vars => LockInv'
<1> SUFFICES ASSUME LockInv, [Next]_vars
             PROVE  LockInv'
  OBVIOUS
<1>1. CASE Progress
  BY <1>1, ProgressKeepsLockInv
<1>2. CASE Outside
  BY <1>2, OutsideKeepsLockInv
<1>3. CASE Fails \/ BridgeFails \/ Interrupt
  BY <1>3, ReturnKeepsLockInv DEF Fails, BridgeFails, Interrupt
<1>4. CASE LocalEnds
  BY <1>4 DEF LocalEnds, LockInv, run
<1>5. CASE Crash
  BY <1>5 DEF Crash, LockInv, Held
<1>6. CASE UNCHANGED vars
  BY <1>6 DEF vars, run, tui, LockInv
<1> QED
  BY <1>1, <1>2, <1>3, <1>4, <1>5, <1>6 DEF Next

(* However a launch ends, and whatever else goes on, the TUI never outlives*)
(* the lock, unless rcodex itself was killed.                              *)
THEOREM TuiIsAlwaysWithinSession == Spec => []TuiWithinSession
<1>1. Init => LockInv
  BY DEF Init, LockInv, Held
<1>2. LockInv => TuiWithinSession
  BY DEF LockInv, Held, TuiWithinSession
<1> QED
  BY <1>1, <1>2, NextKeepsLockInv, PTL DEF Spec

-----------------------------------------------------------------------------
(* Each answer but the last has brought a new cursor.                      *)
ListInv ==
  /\ IsFiniteSet(seenCursors) /\ Cardinality(seenCursors) <= MaxPages
  /\ answers \in Seq(Pages)
  /\ Len(answers) <= Cardinality(seenCursors) + 1
  /\ listing = "asking" => Len(answers) = Cardinality(seenCursors)

LEMMA AskKeepsListInv ==
  ASSUME ListInv, NEW page \in Pages, Ask(page)
  PROVE  ListInv'
<1> USE LimitsAssumption
<1>0. Cardinality(seenCursors) \in Nat
  BY FS_CardinalityType DEF ListInv
<1>1. answers' \in Seq(Pages) /\ Len(answers') = Len(answers) + 1
  BY DEF Ask, ListInv
<1>2. Len(answers) = Cardinality(seenCursors)
  BY DEF Ask, ListInv
<1>3. CASE AcceptPage(page) /\ page.cursor = NoCursor
  <2>1. seenCursors' = seenCursors /\ listing' = "listed"
    BY <1>3 DEF AcceptPage
  <2> QED
    BY <2>1, <1>0, <1>1, <1>2 DEF ListInv
<1>4. CASE AcceptPage(page) /\ page.cursor # NoCursor
  <2>1. /\ page.cursor \notin seenCursors /\ Cardinality(seenCursors) # MaxPages
        /\ seenCursors' = seenCursors \cup {page.cursor}
    BY <1>4 DEF AcceptPage, BadCursor
  <2>2. IsFiniteSet(seenCursors') /\ Cardinality(seenCursors') = Cardinality(seenCursors) + 1
    BY <2>1, FS_AddElement DEF ListInv
  <2> QED
    BY <2>1, <2>2, <1>0, <1>1, <1>2 DEF ListInv
<1>5. CASE RefusePage(page)
  <2>1. seenCursors' = seenCursors /\ listing' = "refused"
    BY <1>5 DEF RefusePage
  <2> QED
    BY <2>1, <1>0, <1>1, <1>2 DEF ListInv
<1> QED
  BY <1>3, <1>4, <1>5 DEF Ask

LEMMA ListNextKeepsListInv == ListInv /\ [ListNext]_listVars => ListInv'
<1> SUFFICES ASSUME ListInv, [ListNext]_listVars
             PROVE  ListInv'
  OBVIOUS
<1>1. CASE \E page \in Pages : Ask(page)
  BY <1>1, AskKeepsListInv
<1>2. CASE AskFails
  BY <1>2 DEF AskFails, ListInv
<1>3. CASE UNCHANGED listVars
  BY <1>3 DEF listVars, ListInv
<1> QED
  BY <1>1, <1>2, <1>3 DEF ListNext

(* Every step of rcodex and of what is around it is one of the list or     *)
(* leaves it alone.                                                        *)
LEMMA StepIsOfTheList == [Next]_vars => [ListNext]_listVars
BY DEF Next, Progress, Outside, Passes, Fails, Lists, ListEnds, Select, SelectFails, Updates,
   UpdatesNot, Lock, LockFails, Verify, Prove, Bind, Launch, Unlock, AcceptTimesOut, Handshake,
   BridgeEnds, TuiEnded, BridgeFails, LocalEnds, Interrupt, Crash, SessionExpires, ReplacerLocks,
   ReplacerUnlocks, SilenceEnds, TuiExits, Connects, vars

LEMMA InitListInv == Init => ListInv
<1>1. IsFiniteSet({}) /\ Cardinality({}) = 0
  BY FS_EmptySet
<1> QED
  BY <1>1, LimitsAssumption DEF Init, ListInit, ListInv

(* Whatever cursors a server gives, rcodex asks it at most                 *)
(* MAX_ENVIRONMENT_PAGES times and once more.                              *)
THEOREM ListingIsAlwaysBounded == Spec => []ListingIsBounded
<1>1. ListInv => ListingIsBounded
  <2> SUFFICES ASSUME ListInv
               PROVE  ListingIsBounded
    OBVIOUS
  <2>1. Cardinality(seenCursors) \in Nat /\ Len(answers) \in Nat
    BY FS_CardinalityType DEF ListInv
  <2> QED
    BY <2>1, LimitsAssumption DEF ListInv, ListingIsBounded
<1> QED
  BY <1>1, InitListInv, StepIsOfTheList, ListNextKeepsListInv, PTL DEF Spec

-----------------------------------------------------------------------------
(* From the selection on the host is one that was chosen rightly, and from *)
(* the verification on it has the version that is installed here.          *)
Selected == {"inspect", "update", "lock", "verify"}
Verified == {"socket", "challenge"} \cup Connected

ChosenRightly ==
  \E i \in DOMAIN environments :
    /\ environments[i] = chosen
    /\ IF requested = Unspecified
         THEN \A j \in DOMAIN environments \ {i} : ~ environments[j].online
         ELSE chosen.host = requested

HostInv ==
  /\ stage \in Selected \cup Verified => chosen.online /\ ChosenRightly
  /\ stage \in Verified => chosen.sameVersion

(* What select_environment gives is online, and the one asked for or the   *)
(* only one.                                                               *)
LEMMA SelectChoosesRightly ==
  ASSUME Select
  PROVE  chosen'.online /\ ChosenRightly'
<1> PICK e \in Selectable : chosen' = e
  BY DEF Select
<1>1. UNCHANGED <<environments, requested>>
  BY DEF Select, Goto, listVars
<1>2. CASE requested # Unspecified
  <2> PICK i \in FirstOf(Named) \cap Online : e = environments[i]
    BY <1>2 DEF Selectable
  <2> QED
    BY <1>1, <1>2 DEF FirstOf, Named, Online, ChosenRightly
<1>3. CASE requested = Unspecified
  <2> PICK i \in {i \in Online : Online = {i}} : e = environments[i]
    BY <1>3 DEF Selectable
  <2> QED
    BY <1>1, <1>3 DEF Online, ChosenRightly
<1> QED
  BY <1>2, <1>3

(* A step that leaves the choice alone may go on to a stage that asks for  *)
(* nothing new, or end.                                                    *)
LEMMA MoveKeepsHostInv ==
  ASSUME HostInv, UNCHANGED <<environments, requested, chosen>>,
         stage' \in Selected \cup Verified => stage \in Selected \cup Verified,
         stage' \in Verified => stage \in Verified \/ chosen.sameVersion
  PROVE  HostInv'
BY DEF HostInv, ChosenRightly

LEMMA ReturnKeepsHostInv ==
  ASSUME NEW how, Return(how)
  PROVE  HostInv'
BY DEF Return, HostInv, Selected, Verified, Connected

LEMMA ProgressKeepsHostInv ==
  ASSUME HostInv, Progress
  PROVE  HostInv'
<1> USE DEF At, Goto, listVars, tui, Selected, Verified, Connected
<1>1. CASE Passes
  <2>1. /\ stage \in {"session", "auth", "inspect", "socket"} /\ stage' = After[stage]
        /\ UNCHANGED <<environments, requested, chosen>>
    BY <1>1 DEF Passes, After
  <2>2. stage' = [session |-> "auth", auth |-> "listing", inspect |-> "update",
                  socket |-> "challenge"][stage]
    BY <2>1 DEF After
  <2> QED
    BY <2>1, <2>2, MoveKeepsHostInv
<1>2. CASE Lists
  BY <1>2 DEF Lists, run, HostInv
<1>3. CASE ListEnds
  <2>1. CASE listing = "listed"
    BY <1>3, <2>1 DEF ListEnds, HostInv
  <2>2. CASE listing # "listed"
    BY <1>3, <2>2, ReturnKeepsHostInv DEF ListEnds
  <2> QED
    BY <2>1, <2>2
<1>4. CASE Select
  <2>1. stage' = "inspect"
    BY <1>4 DEF Select
  <2> QED
    BY <1>4, <2>1, SelectChoosesRightly DEF HostInv
<1>5. CASE SelectFails \/ Updates \/ LockFails \/ AcceptTimesOut \/ BridgeEnds \/ TuiEnded
  BY <1>5, ReturnKeepsHostInv DEF SelectFails, Updates, LockFails, AcceptTimesOut, BridgeEnds,
     TuiEnded
<1>6. CASE UpdatesNot \/ Lock
  BY <1>6, MoveKeepsHostInv DEF UpdatesNot, Lock
<1>7. CASE Verify
  <2>1. CASE chosen.sameVersion
    BY <1>7, <2>1, MoveKeepsHostInv DEF Verify
  <2>2. CASE ~ chosen.sameVersion
    BY <1>7, <2>2, ReturnKeepsHostInv DEF Verify
  <2> QED
    BY <2>1, <2>2
<1>8. CASE Prove \/ Bind \/ Launch
  BY <1>8, MoveKeepsHostInv DEF Prove, Bind, Launch
<1>9. CASE Unlock
  BY <1>9 DEF Unlock, HostInv
<1>10. CASE Fails
  BY <1>10, ReturnKeepsHostInv DEF Fails
<1>11. CASE Handshake
  <2>1. CASE UNCHANGED <<run, child>>
    BY <1>11, <2>1, MoveKeepsHostInv DEF Handshake, run
  <2>2. CASE Return("failed")
    BY <2>2, ReturnKeepsHostInv
  <2> QED
    BY <1>11, <2>1, <2>2 DEF Handshake
<1> QED
  BY <1>1, <1>2, <1>3, <1>4, <1>5, <1>6, <1>7, <1>8, <1>9, <1>10, <1>11 DEF Progress

LEMMA NextKeepsHostInv == HostInv /\ [Next]_vars => HostInv'
<1> SUFFICES ASSUME HostInv, [Next]_vars
             PROVE  HostInv'
  OBVIOUS
<1>1. CASE Progress
  BY <1>1, ProgressKeepsHostInv
<1>2. CASE Outside
  BY <1>2, MoveKeepsHostInv DEF Outside, SessionExpires, ReplacerLocks, ReplacerUnlocks,
     SilenceEnds, TuiExits, Connects, run, listVars
<1>3. CASE Fails \/ BridgeFails \/ Interrupt
  BY <1>3, ReturnKeepsHostInv DEF Fails, BridgeFails, Interrupt
<1>4. CASE LocalEnds
  BY <1>4, MoveKeepsHostInv DEF LocalEnds, run, listVars
<1>5. CASE Crash
  BY <1>5 DEF Crash, HostInv, Selected, Verified, Connected
<1>6. CASE UNCHANGED vars
  BY <1>6, MoveKeepsHostInv DEF vars, run, listVars
<1> QED
  BY <1>1, <1>2, <1>3, <1>4, <1>5, <1>6 DEF Next

(* Whatever hosts the server lists, in whatever pages, repeated or not, the*)
(* relay is only asked for one that is online, has the version installed   *)
(* here, and is the one asked for or the only one online.                  *)
THEOREM AlwaysConnectsToTheRightHost == Spec => []ConnectsToTheRightHost
<1>1. Init => HostInv
  BY DEF Init, HostInv, Selected, Verified, Connected
<1>2. HostInv => ConnectsToTheRightHost
  BY DEF HostInv, Verified, ChosenRightly, ConnectsToTheRightHost
<1> QED
  BY <1>1, <1>2, NextKeepsHostInv, PTL DEF Spec


-----------------------------------------------------------------------------
(* A page is made of entries, and its cursor is one of those there are.    *)
LEMMA PagesAreTyped ==
  ASSUME NEW page \in Pages
  PROVE  page.items \in Seq(Entries) /\ page.cursor \in Cursors
<1> PICK k \in 0 .. MaxPage : page.items \in [1 .. k -> Entries]
  BY DEF Pages, SeqsUpTo
<1> QED
  BY LimitsAssumption DEF Pages

(* The list stays typed, as the cursors are counted up to a limit.         *)
LEMMA AskKeepsListTypeOK ==
  ASSUME ListTypeOK, ListInv, NEW page \in Pages, Ask(page)
  PROVE  ListTypeOK'
<1> USE LimitsAssumption
<1>1. page.items \in Seq(Entries) /\ page.cursor \in Cursors
  BY PagesAreTyped
<1>2. \A i \in DOMAIN answers' : answers'[i].items \in Seq(Entries) /\ answers'[i].cursor \in Cursors
  BY <1>1 DEF Ask, ListInv, ListTypeOK
<1>3. CASE AcceptPage(page)
  <2>1. environments' \in Seq(Entries)
    BY <1>1, <1>3 DEF AcceptPage, ListTypeOK
  <2>2. Len(environments') = Len(environments) + Len(page.items)
    BY <1>1, <1>3 DEF AcceptPage, ListTypeOK
  <2>3. Len(environments') <= MaxHosts
    BY <1>1, <1>3, <2>2 DEF AcceptPage, TooMany, ListTypeOK
  <2>4. Cardinality(seenCursors) \in Nat
    BY FS_CardinalityType DEF ListInv
  <2>5. CASE page.cursor = NoCursor
    <3>1. seenCursors' = seenCursors /\ listing' = "listed"
      BY <1>3, <2>5 DEF AcceptPage
    <3> QED
      BY <1>2, <2>1, <2>3, <3>1 DEF ListTypeOK
  <2>6. CASE page.cursor # NoCursor
    <3>1. /\ page.cursor \notin seenCursors /\ Cardinality(seenCursors) # MaxPages
          /\ page.cursor # Malformed /\ page.cursor \in NewCursors
          /\ seenCursors' = seenCursors \cup {page.cursor} /\ listing' = "asking"
      BY <1>1, <1>3, <2>6 DEF AcceptPage, BadCursor, Cursors
    <3>2. Cardinality(seenCursors') = Cardinality(seenCursors) + 1
      BY <3>1, FS_AddElement DEF ListInv
    <3>3. Cardinality(seenCursors') <= MaxPages
      BY <2>4, <3>1, <3>2 DEF ListInv
    <3>4. seenCursors' \subseteq NewCursors
      BY <3>1 DEF ListTypeOK
    <3> QED
      BY <1>2, <2>1, <2>3, <3>1, <3>3, <3>4 DEF ListTypeOK
  <2> QED
    BY <2>5, <2>6
<1>4. CASE RefusePage(page)
  BY <1>2, <1>4 DEF RefusePage, ListTypeOK
<1> QED
  BY <1>3, <1>4 DEF Ask

LEMMA ListNextKeepsListTypeOK == ListTypeOK /\ ListInv /\ [ListNext]_listVars => ListTypeOK'
<1> SUFFICES ASSUME ListTypeOK, ListInv, [ListNext]_listVars
             PROVE  ListTypeOK'
  OBVIOUS
<1>1. CASE \E page \in Pages : Ask(page)
  BY <1>1, AskKeepsListTypeOK
<1>2. CASE AskFails
  BY <1>2 DEF AskFails, ListTypeOK
<1>3. CASE UNCHANGED listVars
  BY <1>3 DEF listVars, ListTypeOK
<1> QED
  BY <1>1, <1>2, <1>3 DEF ListNext

(* The rest of TypeOK, with told by itself.                                *)
TuiTyped ==
  /\ stage \in Stages
  /\ outcome \in {"none", "done", "failed", "restarted", "interrupted", "crashed"}
  /\ requested \in Requests /\ chosen \in Entries \cup {NoEntry}
  /\ session \in {"live", "expired"} /\ lock \in {"free", "shared", "exclusive"}
  /\ child \in {"none", "running", "exited", "failed", "killed"}
  /\ bridge \in {"none", "accepting", "handshaking", "bridged", "closing"}
  /\ caller \in {"nobody", "tui", "stranger", "silent stranger"}
  /\ bridge # "none" => stage \in {"launch", "serving"}
  /\ bridge \in {"bridged", "closing"} => caller = "tui"

ToldTyped == told \in BOOLEAN

LEMMA NextKeepsToldTyped == ToldTyped /\ [Next]_vars => ToldTyped'
<1> SUFFICES ASSUME ToldTyped, [Next]_vars
             PROVE  told' = told \/ told' = TRUE
  BY DEF ToldTyped
<1> QED
  BY DEF Next, Progress, Outside, Passes, Fails, Lists, ListEnds, Select, SelectFails, Updates,
     UpdatesNot, Lock, LockFails, Verify, Prove, Bind, Launch, Unlock, AcceptTimesOut, Handshake,
     BridgeEnds, TuiEnded, BridgeFails, LocalEnds, Interrupt, Crash, SessionExpires, ReplacerLocks,
     ReplacerUnlocks, SilenceEnds, TuiExits, Connects, vars, tui

LEMMA IdlingKeepsTuiTyped ==
  ASSUME TuiTyped,
         UNCHANGED <<stage, outcome, requested, chosen, session, lock, child, bridge, caller>>
  PROVE  TuiTyped'
<1>1. /\ stage' = stage /\ outcome' = outcome /\ requested' = requested /\ chosen' = chosen
      /\ session' = session /\ lock' = lock
  OBVIOUS
<1>2. child' = child /\ bridge' = bridge /\ caller' = caller
  OBVIOUS
<1> QED
  BY <1>1, <1>2, Zenon DEF TuiTyped

LEMMA ReturnKeepsTuiTyped ==
  ASSUME TuiTyped, NEW how \in {"done", "failed", "restarted", "interrupted"}, Return(how),
         UNCHANGED <<lock, caller>>
  PROVE  TuiTyped'
BY DEF TuiTyped, Return, Stages

(* Up to the launch there is no bridge to be kept in its stages.           *)
LEMMA GotoKeepsTuiTyped ==
  ASSUME TuiTyped, NEW s \in Stages, Goto(s), stage \notin {"launch", "serving"},
         chosen' \in Entries \cup {NoEntry}, lock' \in {"free", "shared", "exclusive"},
         UNCHANGED <<session, tui>>
  PROVE  TuiTyped'
BY DEF TuiTyped, Goto, tui

LEMMA ProgressKeepsTuiTyped ==
  ASSUME ListTypeOK, TuiTyped, Progress
  PROVE  TuiTyped'
<1> USE DEF At
<1>1. CASE Passes
  <2>1. /\ stage \in {"session", "auth", "inspect", "socket"} /\ Goto(After[stage])
        /\ UNCHANGED <<chosen, session, lock, tui>>
    BY <1>1 DEF Passes, After
  <2>2. After[stage] \in Stages
    BY <2>1 DEF After, Stages
  <2> QED
    BY <2>1, <2>2, GotoKeepsTuiTyped DEF TuiTyped
<1>2. CASE Lists
  BY <1>2, IdlingKeepsTuiTyped DEF Lists, run, tui
<1>3. CASE ListEnds
  <2>1. CASE listing = "listed"
    BY <1>3, <2>1, GotoKeepsTuiTyped DEF ListEnds, TuiTyped, Stages, tui
  <2>2. CASE listing # "listed"
    BY <1>3, <2>2, ReturnKeepsTuiTyped DEF ListEnds, TuiTyped
  <2> QED
    BY <2>1, <2>2
<1>4. CASE Select
  <2>1. chosen' \in Entries
    <3> PICK e \in Selectable : chosen' = e
      BY <1>4 DEF Select
    <3>1. \E i \in DOMAIN environments : e = environments[i]
      BY DEF Selectable, FirstOf, Named, Online
    <3> QED
      BY <3>1 DEF ListTypeOK
  <2> QED
    BY <1>4, <2>1, GotoKeepsTuiTyped DEF Select, TuiTyped, Stages
<1>5. CASE SelectFails \/ Updates \/ LockFails \/ AcceptTimesOut \/ Fails
  BY <1>5, ReturnKeepsTuiTyped DEF SelectFails, Updates, LockFails, AcceptTimesOut, Fails, TuiTyped
<1>6. CASE UpdatesNot \/ Prove
  BY <1>6, GotoKeepsTuiTyped DEF UpdatesNot, Prove, TuiTyped, Stages
<1>7. CASE Lock
  BY <1>7, GotoKeepsTuiTyped DEF Lock, TuiTyped, Stages
<1>8. CASE Verify
  <2>1. CASE chosen.sameVersion
    BY <1>8, <2>1, GotoKeepsTuiTyped DEF Verify, TuiTyped, Stages, tui
  <2>2. CASE ~ chosen.sameVersion
    BY <1>8, <2>2, ReturnKeepsTuiTyped DEF Verify, TuiTyped
  <2> QED
    BY <2>1, <2>2
<1>9. CASE Bind \/ Launch
  BY <1>9 DEF Bind, Launch, Goto, TuiTyped, Stages
<1>10. CASE Unlock
  BY <1>10 DEF Unlock, Goto, TuiTyped, Stages, tui
<1>11. CASE BridgeEnds
  BY <1>11, ReturnKeepsTuiTyped DEF BridgeEnds
<1>12. CASE TuiEnded
  BY <1>12, ReturnKeepsTuiTyped DEF TuiEnded, TuiTyped
<1>13. CASE Handshake
  <2>1. CASE caller = "tui" /\ bridge' = "bridged" /\ UNCHANGED <<run, child>>
    BY <1>13, <2>1 DEF Handshake, TuiTyped, run
  <2>2. CASE Return("failed")
    BY <1>13, <2>2, ReturnKeepsTuiTyped DEF Handshake, TuiTyped
  <2> QED
    BY <1>13, <2>1, <2>2 DEF Handshake
<1> QED
  BY <1>1, <1>2, <1>3, <1>4, <1>5, <1>6, <1>7, <1>8, <1>9, <1>10, <1>11, <1>12, <1>13 DEF Progress

LEMMA NextKeepsTuiTyped == ListTypeOK /\ TuiTyped /\ [Next]_vars => TuiTyped'
<1> SUFFICES ASSUME ListTypeOK, TuiTyped, [Next]_vars
             PROVE  TuiTyped'
  OBVIOUS
<1>1. CASE Progress
  BY <1>1, ProgressKeepsTuiTyped
<1>2. CASE Outside
  BY <1>2 DEF Outside, SessionExpires, ReplacerLocks, ReplacerUnlocks, SilenceEnds, TuiExits,
     Connects, run, tui, TuiTyped
<1>3. CASE Fails \/ BridgeFails \/ Interrupt
  BY <1>3, ReturnKeepsTuiTyped DEF Fails, BridgeFails, Interrupt, TuiTyped
<1>4. CASE LocalEnds
  BY <1>4 DEF LocalEnds, run, TuiTyped
<1>5. CASE Crash
  BY <1>5 DEF Crash, TuiTyped, Stages
<1>6. CASE UNCHANGED vars
  <2>1. UNCHANGED <<stage, outcome, requested, chosen, session, lock, child, bridge, caller>>
    BY <1>6 DEF vars, run, tui
  <2> QED
    BY <2>1, IdlingKeepsTuiTyped
<1> QED
  BY <1>1, <1>2, <1>3, <1>4, <1>5, <1>6 DEF Next

(* All the variables keep their types; the shim is there from Bind to the  *)
(* return, and only the TUI that was launched is bridged to the relay.     *)
THEOREM RemoteTuiTyped == Spec => []TypeOK
<1>1. Init => ListTypeOK /\ TuiTyped /\ ToldTyped
  <2>1. Cardinality({}) = 0
    BY FS_EmptySet
  <2>2. Init => ListTypeOK
    BY <2>1, LimitsAssumption DEF Init, ListInit, ListTypeOK
  <2>3. Init => TuiTyped /\ ToldTyped
    BY DEF Init, TuiTyped, ToldTyped, Stages
  <2> QED
    BY <2>2, <2>3
<1>2. ListTypeOK /\ TuiTyped /\ ToldTyped => TypeOK
  BY DEF TuiTyped, ToldTyped, TypeOK
<1> QED
  BY <1>1, <1>2, InitListInv, StepIsOfTheList, ListNextKeepsListInv, ListNextKeepsListTypeOK,
     NextKeepsTuiTyped, NextKeepsToldTyped, PTL DEF Spec

-----------------------------------------------------------------------------
(* How Count counts, by least counterexamples in place of an induction.    *)
Less == OpToRel(<, Nat)

(* A set of natural numbers that is not empty has a least element.         *)
LEMMA LeastExists ==
  ASSUME NEW T, T \subseteq Nat, T # {}
  PROVE  \E x \in T : \A y \in T : x <= y
<1>1. IsWellFoundedOn(Less, Nat)
  BY ONLY NatLessThanWellFounded DEF Less
<1>2. PICK x \in T : \A y \in T : ~ (<<y, x>> \in Less)
  BY <1>1, WFMin
<1>3. \A m, n \in Nat : <<m, n>> \in Less <=> m < n
  BY DEF Less, OpToRel
<1>4. ASSUME NEW y \in T
      PROVE  x <= y
  <2>1. x \in Nat /\ y \in Nat /\ ~ (y < x)
    BY <1>2, <1>3
  <2> QED
    BY <2>1
<1> QED
  BY <1>4

(* What the recursion in Count asks of a function.                         *)
Counts(f, a, n) ==
  f = [i \in 0 .. n |-> IF i = 0 THEN 0 ELSE f[i - 1] + Len(a[i].items)]

(* The entries of the first i answers, counted as far as the first n.      *)
CountUpTo(a, n, i) == (CHOOSE f : Counts(f, a, n))[i]

CountIn(a, n) == CountUpTo(a, n, n)

LEMMA CountIsCountIn ==
  ASSUME NEW n
  PROVE  Count(n) = CountIn(answers, n) /\ Count(n)' = CountIn(answers', n)
BY DEF Count, CountIn, CountUpTo, Counts

(* There is a function like that: the one for the first n - 1 answers, and *)
(* one value more.                                                         *)
LEMMA SomethingCounts ==
  ASSUME NEW a, NEW n \in Nat
  PROVE  \E f : Counts(f, a, n)
<1> DEFINE None == {m \in Nat : ~ \E f : Counts(f, a, m)}
<1>1. ASSUME None # {}
      PROVE  FALSE
  <2>1. PICK m \in None : \A k \in None : m <= k
    <3>1. None \subseteq Nat
      OBVIOUS
    <3> HIDE DEF None
    <3> QED
      BY <1>1, <3>1, LeastExists
  <2>2. m # 0
    <3>1. Counts([i \in 0 .. 0 |-> 0], a, 0)
      BY DEF Counts
    <3> QED
      BY <3>1
  <2>3. m - 1 \in Nat /\ m - 1 \notin None
    <3>1. m \in Nat
      OBVIOUS
    <3>2. m - 1 \in Nat /\ ~ (m <= m - 1)
      BY <2>2, <3>1
    <3> HIDE DEF None
    <3> QED
      BY <2>1, <3>2
  <2>4. PICK f : Counts(f, a, m - 1)
    BY <2>3
  <2> DEFINE g == [i \in 0 .. m |-> IF i = m THEN f[m - 1] + Len(a[m].items) ELSE f[i]]
  <2>5. ASSUME NEW i \in 0 .. m
        PROVE  g[i] = IF i = 0 THEN 0 ELSE g[i - 1] + Len(a[i].items)
    <3>1. CASE i = m
      BY <2>2, <2>3, <3>1
    <3>2. CASE i # m
      <4>1. i \in 0 .. m - 1 /\ i - 1 # m /\ (i # 0 => i - 1 \in 0 .. m)
        BY <2>3, <3>2
      <4>2. f[i] = IF i = 0 THEN 0 ELSE f[i - 1] + Len(a[i].items)
        BY <2>4, <4>1 DEF Counts
      <4> QED
        BY <4>1, <4>2, <3>2
    <3> QED
      BY <3>1, <3>2
  <2>6. Counts(g, a, m)
    BY <2>5 DEF Counts
  <2> QED
    BY <2>1, <2>6
<1> QED
  BY <1>1

(* The recursion goes on as it says.                                       *)
LEMMA CountingSteps ==
  ASSUME NEW a, NEW n \in Nat, NEW i \in 0 .. n
  PROVE  CountUpTo(a, n, i) =
           IF i = 0 THEN 0 ELSE CountUpTo(a, n, i - 1) + Len(a[i].items)
<1> DEFINE f == CHOOSE h : Counts(h, a, n)
<1>1. Counts(f, a, n)
  BY SomethingCounts
<1>2. f[i] = IF i = 0 THEN 0 ELSE f[i - 1] + Len(a[i].items)
  <2> HIDE DEF f
  <2> QED
    BY <1>1 DEF Counts
<1> QED
  BY <1>2 DEF CountUpTo

(* As far as two go through the same answers, they agree.                  *)
SameUpTo(a, m, b, n, k) ==
  /\ m \in Nat /\ n \in Nat /\ k \in 0 .. m /\ k \in 0 .. n
  /\ \A i \in 1 .. k : a[i] = b[i]

LEMMA CountingsAgree ==
  ASSUME NEW a, NEW m, NEW b, NEW n, NEW k, SameUpTo(a, m, b, n, k)
  PROVE  CountUpTo(a, m, k) = CountUpTo(b, n, k)
<1>1. /\ m \in Nat /\ n \in Nat /\ k \in Nat /\ k <= m /\ k <= n
      /\ \A i \in 1 .. k : a[i] = b[i]
  BY DEF SameUpTo
<1> DEFINE Apart == {i \in 0 .. k : CountUpTo(a, m, i) # CountUpTo(b, n, i)}
<1>2. ASSUME Apart # {}
      PROVE  FALSE
  <2>1. PICK i \in Apart : \A j \in Apart : i <= j
    <3>1. Apart \subseteq 0 .. k
      BY Zenon
    <3> HIDE DEF Apart
    <3>2. Apart \subseteq Nat
      BY <3>1
    <3> QED
      BY <1>2, <3>2, LeastExists
  <2>2. i \in 0 .. k /\ CountUpTo(a, m, i) # CountUpTo(b, n, i)
    BY Zenon
  <2>3. i \in 0 .. m /\ i \in 0 .. n
    BY <1>1, <2>2
  <2>4. /\ CountUpTo(a, m, i) =
             IF i = 0 THEN 0 ELSE CountUpTo(a, m, i - 1) + Len(a[i].items)
        /\ CountUpTo(b, n, i) =
             IF i = 0 THEN 0 ELSE CountUpTo(b, n, i - 1) + Len(b[i].items)
    BY <1>1, <2>3, CountingSteps
  <2>5. i # 0
    BY <2>2, <2>4
  <2>6. i - 1 \in 0 .. k /\ ~ (i <= i - 1) /\ i \in 1 .. k
    BY <1>1, <2>2, <2>5
  <2>7. i - 1 \notin Apart
    <3> HIDE DEF Apart
    <3> QED
      BY <2>1, <2>6
  <2>8. CountUpTo(a, m, i - 1) = CountUpTo(b, n, i - 1)
    BY <2>6, <2>7, Zenon
  <2> QED
    BY <1>1, <2>2, <2>4, <2>5, <2>6, <2>8
<1>3. k \in 0 .. k
  BY <1>1
<1> QED
  BY <1>2, <1>3, Zenon

(* So the count is of the answers, and adds up.                            *)
LEMMA CountInAgrees ==
  ASSUME NEW a, NEW b, NEW n \in Nat, \A i \in 1 .. n : a[i] = b[i]
  PROVE  CountIn(a, n) = CountIn(b, n)
<1>1. SameUpTo(a, n, b, n, n)
  BY DEF SameUpTo
<1>2. CountUpTo(a, n, n) = CountUpTo(b, n, n)
  BY ONLY <1>1, CountingsAgree
<1> QED
  BY <1>2, Zenon DEF CountIn

LEMMA CountInSteps ==
  ASSUME NEW a
  PROVE  /\ CountIn(a, 0) = 0
         /\ \A n \in Nat \ {0} : CountIn(a, n) = CountIn(a, n - 1) + Len(a[n].items)
<1>1. CountIn(a, 0) = 0
  <2>1. 0 \in 0 .. 0
    OBVIOUS
  <2> QED
    BY <2>1, CountingSteps DEF CountIn
<1>2. ASSUME NEW n \in Nat \ {0}
      PROVE  CountIn(a, n) = CountIn(a, n - 1) + Len(a[n].items)
  <2>1. n - 1 \in Nat /\ n \in 0 .. n
    OBVIOUS
  <2>2. CountUpTo(a, n, n - 1) = CountUpTo(a, n - 1, n - 1)
    <3>1. SameUpTo(a, n, a, n - 1, n - 1)
      BY <2>1 DEF SameUpTo
    <3> QED
      BY <3>1, CountingsAgree
  <2>3. CountUpTo(a, n, n) = CountUpTo(a, n, n - 1) + Len(a[n].items)
    BY <2>1, CountingSteps
  <2> QED
    BY <2>2, <2>3 DEF CountIn
<1> QED
  BY <1>1, <1>2

(* What was accepted is the answers' entries, each where the ones before   *)
(* it end.                                                                 *)
Listed ==
  /\ Len(environments) = Count(Len(answers))
  /\ \A i \in 0 .. Len(answers) : Count(i) \in 0 .. Len(environments)
  /\ \A i \in DOMAIN answers : \A k \in DOMAIN answers[i].items :
       environments[Count(i - 1) + k] = answers[i].items[k]

(* While there is more to ask for every answer had a cursor, and those are *)
(* the cursors seen; a refusal was for a list that does not fit.           *)
FitInv ==
  /\ listing \in {"asking", "listed"} => Listed
  /\ listing = "asking" =>
       /\ \A i \in DOMAIN answers : HasCursor(i)
       /\ \A c \in seenCursors : \E i \in DOMAIN answers : answers[i].cursor = c
  /\ listing = "refused" => ~ MeansWellAndFits

(* The counts after one more answer.                                       *)
LEMMA AskCounts ==
  ASSUME NEW page \in Pages, answers \in Seq(Pages), answers' = Append(answers, page),
         NEW n \in Nat, n = Len(answers)
  PROVE  /\ \A i \in 0 .. n : Count(i)' = Count(i)
         /\ \A i \in 1 .. n : Count(i) = Count(i - 1) + Len(answers[i].items)
         /\ Count(n + 1)' = Count(n) + Len(page.items)
<1>1. /\ answers'[n + 1] = page
      /\ \A i \in 1 .. n : answers'[i] = answers[i]
  OBVIOUS
<1>2. ASSUME NEW i \in 0 .. n
      PROVE  Count(i)' = Count(i)
  <2>1. i \in Nat /\ \A j \in 1 .. i : answers'[j] = answers[j]
    BY <1>1
  <2>2. CountIn(answers', i) = CountIn(answers, i)
    BY <2>1, CountInAgrees
  <2> QED
    BY <2>2, CountIsCountIn
<1>3. Count(n + 1)' = Count(n) + Len(page.items)
  <2>1. n + 1 \in Nat \ {0} /\ (n + 1) - 1 = n /\ n \in 0 .. n
    OBVIOUS
  <2>2. CountIn(answers', n + 1) = CountIn(answers', n) + Len(page.items)
    BY <1>1, <2>1, CountInSteps
  <2>3. CountIn(answers', n) = Count(n)
    BY <1>2, <2>1, CountIsCountIn
  <2> QED
    BY <2>2, <2>3, CountIsCountIn
<1>4. ASSUME NEW i \in 1 .. n
      PROVE  Count(i) = Count(i - 1) + Len(answers[i].items)
  <2>1. i \in Nat \ {0}
    OBVIOUS
  <2> QED
    BY <2>1, CountInSteps, CountIsCountIn
<1> QED
  BY <1>2, <1>3, <1>4

(* What is accepted is listed behind the rest.                             *)
LEMMA AcceptKeepsListed ==
  ASSUME NEW page \in Pages, answers \in Seq(Pages), answers' = Append(answers, page),
         environments \in Seq(Entries), environments' = environments \o page.items,
         Listed
  PROVE  Listed'
<1> DEFINE m == Len(environments)
           k == Len(page.items)
<1>0. PICK n \in Nat : n = Len(answers)
  OBVIOUS
<1>1. /\ page.items \in Seq(Entries) /\ m \in Nat /\ k \in Nat
      /\ Len(environments') = m + k /\ DOMAIN page.items = 1 .. k
      /\ \A i \in 1 .. m : environments'[i] = environments[i]
      /\ \A i \in 1 .. k : environments'[m + i] = page.items[i]
  BY PagesAreTyped
<1>2. /\ Len(answers') = n + 1 /\ DOMAIN answers' = 1 .. n + 1 /\ DOMAIN answers = 1 .. n
      /\ answers'[n + 1] = page
      /\ \A i \in 1 .. n : answers'[i] = answers[i]
  BY <1>0
<1>3. /\ \A i \in 0 .. n : Count(i)' = Count(i)
      /\ \A i \in 1 .. n : Count(i) = Count(i - 1) + Len(answers[i].items)
      /\ Count(n + 1)' = Count(n) + k
  BY <1>0, AskCounts
<1>4. Count(n) = m /\ \A i \in 0 .. n : Count(i) \in 0 .. m
  BY <1>0 DEF Listed
<1>5. ASSUME NEW i \in 1 .. n, NEW j \in DOMAIN answers[i].items
      PROVE  environments'[Count(i - 1) + j] = answers[i].items[j]
  <2>1. answers[i] \in Pages
    BY <1>2
  <2>2. answers[i].items \in Seq(Entries) /\ j \in 1 .. Len(answers[i].items)
    BY <2>1, PagesAreTyped
  <2>3. i - 1 \in 0 .. n /\ i \in 0 .. n
    OBVIOUS
  <2>4. Count(i - 1) + j \in 1 .. m
    <3>1. /\ Count(i - 1) \in 0 .. m /\ Count(i) \in 0 .. m
          /\ Count(i) = Count(i - 1) + Len(answers[i].items)
      BY <1>3, <1>4, <2>3
    <3>2. Len(answers[i].items) \in Nat
      BY <2>2
    <3>3. m \in Nat /\ j \in 1 .. Len(answers[i].items)
      BY <1>1, <2>2
    <3> QED
      BY ONLY <3>1, <3>2, <3>3
  <2>5. environments[Count(i - 1) + j] = answers[i].items[j]
    BY <1>2 DEF Listed
  <2> QED
    BY <1>1, <2>4, <2>5
<1> DEFINE tiles(i) == \A j \in DOMAIN answers'[i].items :
                         environments'[Count(i - 1)' + j] = answers'[i].items[j]
<1>6. ASSUME NEW i \in 1 .. n + 1
      PROVE  tiles(i)
  <2>0. i - 1 \in 0 .. n
    OBVIOUS
  <2>1. Count(i - 1)' = Count(i - 1)
    BY <1>3, <2>0
  <2>2. CASE i = n + 1
    <3>1. i - 1 = n /\ answers'[i] = page
      BY <1>2, <2>2
    <3>2. Count(i - 1)' = m
      BY <1>4, <2>1, <3>1
    <3>3. DOMAIN answers'[i].items = 1 .. k
      BY <1>1, <3>1
    <3> HIDE DEF m, k
    <3>4. \A j \in 1 .. k : environments'[m + j] = page.items[j]
      BY <1>1
    <3> QED
      BY <3>1, <3>2, <3>3, <3>4
  <2>3. CASE i # n + 1
    <3>1. i \in 1 .. n
      BY <2>3
    <3> QED
      BY <1>2, <1>5, <2>1, <3>1
  <2> QED
    BY <2>2, <2>3
<1>7. ASSUME NEW i \in 0 .. n + 1
      PROVE  Count(i)' \in 0 .. m + k
  <2>1. CASE i = n + 1
    BY <1>1, <1>3, <1>4, <2>1
  <2>2. CASE i # n + 1
    <3>1. i \in 0 .. n
      BY <2>2
    <3> QED
      BY <1>1, <1>3, <1>4, <3>1
  <2> QED
    BY <2>1, <2>2
<1>8. Count(Len(answers))' = m + k
  <2>1. Count(n + 1)' = m + k
    BY <1>3, <1>4
  <2> QED
    BY <1>2, <2>1, CountIsCountIn
<1> HIDE DEF m, k
<1> QED
  BY <1>1, <1>2, <1>6, <1>7, <1>8 DEF Listed

(* A list refused for its number of hosts or its cursors does not fit.     *)
LEMMA RefusedDoesNotFit ==
  ASSUME NEW page \in Pages, ListInv, FitInv, environments \in Seq(Entries),
         listing = "asking", answers' = Append(answers, page),
         TooMany(page) \/ BadCursor(page), MeansWellAndFits'
  PROVE  FALSE
<1> DEFINE m == Len(environments)
           k == Len(page.items)
<1>0. PICK n \in Nat : n = Len(answers)
  BY DEF ListInv
<1>1. page.items \in Seq(Entries) /\ m \in Nat /\ k \in Nat
  BY PagesAreTyped
<1>2. /\ Len(answers') = n + 1 /\ DOMAIN answers' = 1 .. n + 1 /\ DOMAIN answers = 1 .. n
      /\ answers'[n + 1] = page
      /\ \A i \in 1 .. n : answers'[i] = answers[i]
  BY <1>0 DEF ListInv
<1>3. Count(n + 1)' = m + k
  BY <1>0, AskCounts DEF ListInv, FitInv, Listed
<1>4. Count(Len(answers))' <= MaxHosts /\ Count(Len(answers))' = m + k
  BY <1>2, <1>3, CountIsCountIn DEF MeansWellAndFits
<1>5. page.cursor # NoCursor =>
        /\ page.cursor # Malformed
        /\ \A j \in 1 .. n : answers[j].cursor # page.cursor
        /\ m + k < MaxHosts
  <2> SUFFICES ASSUME page.cursor # NoCursor
               PROVE  /\ page.cursor # Malformed
                      /\ \A j \in 1 .. n : answers[j].cursor # page.cursor
                      /\ m + k < MaxHosts
    OBVIOUS
  <2>1. n + 1 \in DOMAIN answers' /\ (n + 1) - 1 = n
    BY <1>2
  <2>2. HasCursor(n + 1)'
    BY <1>2 DEF HasCursor
  <2>3. /\ answers'[n + 1].cursor # Malformed
        /\ \A j \in 1 .. (n + 1) - 1 : answers'[j].cursor # answers'[n + 1].cursor
        /\ Count(n + 1)' < MaxHosts
    BY <2>1, <2>2 DEF MeansWellAndFits
  <2> QED
    BY <1>2, <1>3, <2>1, <2>3
<1>6. ~ TooMany(page)
  <2> HIDE DEF m, k
  <2> QED
    BY <1>1, <1>4, <1>5, LimitsAssumption DEF TooMany, m, k
<1>7. ASSUME BadCursor(page)
      PROVE  FALSE
  <2>1. page.cursor # NoCursor /\ page.cursor # Malformed /\ page.cursor \notin seenCursors
    BY <1>2, <1>5, <1>7 DEF BadCursor, FitInv
  <2>2. Cardinality(seenCursors) = MaxPages /\ n = MaxPages
    BY <1>0, <1>7, <2>1 DEF BadCursor, ListInv
  <2>3. \A i \in 1 .. n + 1 : HasCursor(i)'
    BY <1>2, <2>1 DEF FitInv, HasCursor
  <2>4. {i \in DOMAIN answers : HasCursor(i)}' = 1 .. n + 1
    BY <1>2, <2>3
  <2>5. Cardinality(1 .. n + 1) = n + 1
    BY FS_Interval
  <2>6. Cardinality({i \in DOMAIN answers : HasCursor(i)})' <= MaxPages
    BY DEF MeansWellAndFits
  <2>7. Cardinality({i \in DOMAIN answers : HasCursor(i)})' = n + 1
    BY <2>4, <2>5
  <2> QED
    BY ONLY <2>2, <2>6, <2>7, LimitsAssumption DEF LimitsAssumption
<1> QED
  BY <1>6, <1>7

LEMMA AskKeepsFitInv ==
  ASSUME NEW page \in Pages, ListInv, FitInv, environments \in Seq(Entries), Ask(page)
  PROVE  FitInv'
<1>1. listing = "asking" /\ answers' = Append(answers, page) /\ answers \in Seq(Pages) /\ Listed
  BY DEF Ask, ListInv, FitInv
<1>2. CASE RefusePage(page)
  <2>1. ~ MeansWellAndFits'
    BY <1>1, <1>2, RefusedDoesNotFit DEF RefusePage
  <2>2. listing' = "refused"
    BY <1>2 DEF RefusePage
  <2> QED
    BY <2>1, <2>2 DEF FitInv
<1>3. CASE AcceptPage(page)
  <2>1. Listed'
    BY <1>1, <1>3, AcceptKeepsListed DEF AcceptPage
  <2>2. /\ listing' = IF page.cursor = NoCursor THEN "listed" ELSE "asking"
        /\ seenCursors' = seenCursors \cup ({page.cursor} \ {NoCursor})
    BY <1>3 DEF AcceptPage
  <2>3. PICK n \in Nat : n = Len(answers)
    BY <1>1
  <2>4. /\ DOMAIN answers' = 1 .. n + 1 /\ DOMAIN answers = 1 .. n
        /\ answers'[n + 1] = page
        /\ \A i \in 1 .. n : answers'[i] = answers[i]
    BY <1>1, <2>3
  <2>5. ASSUME page.cursor # NoCursor
        PROVE  /\ \A i \in DOMAIN answers' : HasCursor(i)'
               /\ \A c \in seenCursors' : \E i \in DOMAIN answers' : answers'[i].cursor = c
    <3>1. \A i \in 1 .. n + 1 : i \in 1 .. n \/ i = n + 1
      BY <2>3
    <3>2. \A i \in DOMAIN answers' : HasCursor(i)'
      BY <1>1, <2>4, <2>5, <3>1 DEF FitInv, HasCursor
    <3>3. ASSUME NEW c \in seenCursors'
          PROVE  \E i \in DOMAIN answers' : answers'[i].cursor = c
      <4>1. CASE c = page.cursor
        <5>1. n + 1 \in DOMAIN answers' /\ answers'[n + 1].cursor = c
          BY <2>3, <2>4, <4>1
        <5> QED
          BY <5>1
      <4>2. CASE c # page.cursor
        <5>1. PICK i \in 1 .. n : answers[i].cursor = c
          BY <1>1, <2>2, <2>4, <4>2 DEF FitInv
        <5>2. i \in DOMAIN answers' /\ answers'[i].cursor = c
          BY <2>4, <5>1
        <5> QED
          BY <5>2
      <4> QED
        BY <4>1, <4>2
    <3> QED
      BY <3>2, <3>3
  <2> QED
    BY <2>1, <2>2, <2>5 DEF FitInv
<1> QED
  BY <1>2, <1>3 DEF Ask

LEMMA ListNextKeepsFitInv == ListInv /\ ListTypeOK /\ FitInv /\ [ListNext]_listVars => FitInv'
<1> SUFFICES ASSUME ListInv, ListTypeOK, FitInv, [ListNext]_listVars
             PROVE  FitInv'
  OBVIOUS
<1>1. CASE \E page \in Pages : Ask(page)
  BY <1>1, AskKeepsFitInv DEF ListTypeOK
<1>2. CASE AskFails
  BY <1>2 DEF AskFails, FitInv
<1>3. CASE UNCHANGED listVars
  <2>1. UNCHANGED <<listing, environments, seenCursors, answers>>
    BY <1>3 DEF listVars
  <2>2. Listed' = Listed /\ MeansWellAndFits' = MeansWellAndFits
    BY <2>1 DEF Listed, MeansWellAndFits, Count, HasCursor
  <2> QED
    BY <2>1, <2>2 DEF FitInv, HasCursor
<1> QED
  BY <1>1, <1>2, <1>3 DEF ListNext

LEMMA InitFitInv == ListInit => FitInv
<1> SUFFICES ASSUME ListInit
             PROVE  FitInv
  OBVIOUS
<1>1. Count(0) = 0
  BY CountInSteps, CountIsCountIn
<1>2. Len(answers) = 0 /\ DOMAIN answers = {} /\ Len(environments) = 0 /\ 0 .. 0 = {0}
  BY DEF ListInit
<1> QED
  BY <1>1, <1>2 DEF ListInit, FitInv, Listed

(* A list that fits is never refused for the limits that protect from one  *)
(* that does not, and what is returned is all of it, each page in its      *)
(* place once, whatever pages and cursors the server makes of it.          *)
THEOREM FittingListIsAlwaysReturned == Spec => []FittingListIsReturned
<1>1. ListInv /\ FitInv => FittingListIsReturned
  <2> SUFFICES ASSUME ListInv, FitInv
               PROVE  FittingListIsReturned
    OBVIOUS
  <2>1. Cardinality(seenCursors) \in Nat /\ Len(answers) \in Nat
    BY FS_CardinalityType DEF ListInv
  <2>2. ListingIsBounded
    BY <2>1, LimitsAssumption DEF ListInv, ListingIsBounded
  <2> QED
    BY <2>2 DEF FitInv, Listed, FittingListIsReturned
<1>2. Init => ListTypeOK /\ ListInv /\ FitInv
  <2>1. Cardinality({}) = 0
    BY FS_EmptySet
  <2>2. Init => ListTypeOK
    BY <2>1, LimitsAssumption DEF Init, ListInit, ListTypeOK
  <2> QED
    BY <2>2, InitListInv, InitFitInv DEF Init
<1> QED
  BY <1>1, <1>2, StepIsOfTheList, ListNextKeepsListInv, ListNextKeepsListTypeOK,
     ListNextKeepsFitInv, PTL DEF Spec

=============================================================================
