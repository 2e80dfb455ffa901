------------------------------ MODULE RemoteTui ------------------------------
(***************************************************************************)
(* run_remote_tui (src/main.rs): rcodex as the user starts it, from the    *)
(* session with the relay's server to the end of the Codex TUI it launches,*)
(* with LocalShim (src/shim.rs), through which the TUI reaches the relay,  *)
(* and RelayTransport::connect (src/transport.rs).  The hosts are listed   *)
(* by module HostList; the bridge, once up, is module RelayTransport, and  *)
(* the update, the lock's other holders included, module Update.           *)
(*                                                                         *)
(*   session -> auth -> listing -> select -> inspect -> update -> lock     *)
(*     -> verify -> socket -> challenge -> shim -> launch -> serving       *)
(*     -> unwinding -> over                                                *)
(* While serving, a select! waits for the bridge, for the TUI and for an   *)
(* interrupt; whichever ends first ends the others.                        *)
(*                                                                         *)
(* External: the TUI, other local programs that connect to the shim's port,*)
(* the relay, and another rcodex that replaces the executable.             *)
(***************************************************************************)
EXTENDS HostList

CONSTANTS
  Hosts,     \* environment ids
  Requests   \* what --device may be: hosts, or Unspecified

Unspecified == "unspecified"

(* The list says of a host whether it is online, and whether it has the    *)
(* Codex version that is installed here.                                   *)
ASSUME EntriesAssumption ==
  Entries \subseteq [host : Hosts, online : BOOLEAN, sameVersion : BOOLEAN]

NoEntry == [host |-> Unspecified, online |-> FALSE, sameVersion |-> FALSE]

VARIABLES
  stage,      \* how far rcodex has come
  outcome,    \* how it ended
  requested,  \* --device
  chosen,     \* the entry of the host it connects to
  session,    \* "live", or "expired" once its time is over
  lock,       \* the installation's: "free", "shared" by rcodex, "exclusive"
  child,      \* the TUI: "none", "running", "exited", "failed" or "killed"
  bridge,     \* "none", "accepting", "handshaking", "bridged" or "closing"
  caller,     \* who was the first to connect to the shim
  told        \* client_closed was sent, whether or not it got there

run == <<stage, outcome, requested, chosen, session>>
tui == <<child, bridge, caller, told>>
vars == <<listVars, run, lock, tui>>

Stages == {"session", "auth", "listing", "select", "inspect", "update", "lock", "verify",
           "socket", "challenge", "shim", "launch", "serving", "unwinding", "over"}

Connected == {"shim", "launch", "serving"}

(* The shim exists from Bind on, and only the TUI that was launched is     *)
(* bridged to the relay.                                                   *)
TypeOK ==
  /\ ListTypeOK
  /\ stage \in Stages
  /\ outcome \in {"none", "done", "failed", "restarted", "interrupted", "crashed"}
  /\ requested \in Requests /\ chosen \in Entries \cup {NoEntry}
  /\ session \in {"live", "expired"} /\ lock \in {"free", "shared", "exclusive"}
  /\ child \in {"none", "running", "exited", "failed", "killed"}
  /\ bridge \in {"none", "accepting", "handshaking", "bridged", "closing"}
  /\ caller \in {"nobody", "tui", "stranger", "silent stranger"}
  /\ told \in BOOLEAN
  /\ bridge # "none" => stage \in {"launch", "serving"}
  /\ bridge \in {"bridged", "closing"} => caller = "tui"

Init ==
  /\ ListInit
  /\ stage = "session" /\ outcome = "none" /\ requested \in Requests
  /\ chosen = NoEntry /\ session = "live" /\ lock = "free"
  /\ child = "none" /\ bridge = "none" /\ caller = "nobody" /\ told = FALSE

At(s) == stage = s

Goto(s) == stage' = s /\ UNCHANGED <<outcome, requested>>

(* The slip of a TUI without kill_on_drop.                                 *)
ReturnKillingNothing(how) ==
  /\ stage' = "unwinding" /\ outcome' = how
  /\ bridge' = "none"
  /\ UNCHANGED <<requested, chosen, session, child>>

(* However rcodex returns, its variables are dropped, the last first: the  *)
(* bridge or the shim, then the TUI, which is killed on drop ...           *)
Return(how) ==
  /\ stage' = "unwinding" /\ outcome' = how
  /\ bridge' = "none"
  /\ child' = IF child = "running" THEN "killed" ELSE child
  /\ UNCHANGED <<requested, chosen, session>>

(* ... and then the lock.                                                  *)
Unlock ==
  /\ At("unwinding")
  /\ Goto("over")
  /\ lock' = IF lock = "shared" THEN "free" ELSE lock
  /\ UNCHANGED <<listVars, chosen, session, tui>>

(* rcodex dies; the system releases the lock and leaves the TUI.           *)
Crash ==
  /\ ~ At("over")
  /\ stage' = "over" /\ outcome' = "crashed" /\ bridge' = "none"
  /\ lock' = IF lock = "shared" THEN "free" ELSE lock
  /\ UNCHANGED <<listVars, requested, chosen, session, child, caller, told>>

-----------------------------------------------------------------------------
(* Outside rcodex.                                                         *)

SessionExpires ==
  /\ session = "live" /\ session' = "expired"
  /\ UNCHANGED <<listVars, stage, outcome, requested, chosen, lock, tui>>

(* Another rcodex replaces the executable when nobody has the lock.        *)
ReplacerLocks ==
  /\ lock = "free" /\ lock' = "exclusive"
  /\ UNCHANGED <<listVars, run, tui>>

ReplacerUnlocks ==
  /\ lock = "exclusive" /\ lock' = "free"
  /\ UNCHANGED <<listVars, run, tui>>

TuiExits(how) ==
  /\ child = "running" /\ child' = how
  /\ UNCHANGED <<listVars, run, lock, bridge, caller, told>>

(* The shim takes one connection, the first there is.                      *)
Connects(who) ==
  /\ bridge = "accepting"
  /\ who = "tui" => child = "running"
  /\ bridge' = "handshaking" /\ caller' = who
  /\ UNCHANGED <<listVars, run, lock, child, told>>

(* One that said nothing at last says something, or hangs up.              *)
SilenceEnds ==
  /\ bridge = "handshaking" /\ caller = "silent stranger" /\ caller' = "stranger"
  /\ UNCHANGED <<listVars, run, lock, child, bridge, told>>

-----------------------------------------------------------------------------
(* Up to the launch.                                                       *)

(* ensure_session, RelayApi::auth, inspect_stock_codex, the relay's        *)
(* websocket and the shim's port: each is had, or rcodex fails.            *)
After ==
  [session |-> "auth", auth |-> "listing", inspect |-> "update", socket |-> "challenge"]

Passes ==
  /\ stage \in DOMAIN After
  /\ Goto(After[stage])
  /\ UNCHANGED <<listVars, chosen, session, lock, tui>>

Fails ==
  /\ stage \in DOMAIN After \cup {"lock", "challenge", "shim", "launch"}
  /\ Return("failed")
  /\ UNCHANGED <<listVars, lock, caller, told>>

Lists ==
  /\ At("listing") /\ ListNext
  /\ UNCHANGED <<run, lock, tui>>

ListEnds ==
  /\ At("listing") /\ listing # "asking"
  /\ IF listing = "listed"
       THEN Goto("select") /\ UNCHANGED <<chosen, session, child, bridge>>
       ELSE Return("failed")
  /\ UNCHANGED <<listVars, lock, caller, told>>

(* The places in the list of the host asked for, and of those online.      *)
Named == {i \in DOMAIN environments : environments[i].host = requested}
Online == {i \in DOMAIN environments : environments[i].online}

FirstOf(places) == {i \in places : \A j \in places : i <= j}

(* The slip of taking the first host that is online.                       *)
SelectableIfFirst == {environments[i] : i \in FirstOf(Online)}

(* select_environment: the first entry of the host asked for, if it is     *)
(* online; unasked, the only online one.                                   *)
Selectable ==
  IF requested # Unspecified
    THEN {environments[i] : i \in FirstOf(Named) \cap Online}
    ELSE {environments[i] : i \in {i \in Online : Online = {i}}}

Select ==
  /\ At("select")
  /\ \E e \in Selectable : chosen' = e
  /\ Goto("inspect")
  /\ UNCHANGED <<listVars, session, lock, tui>>

SelectFails ==
  /\ At("select") /\ Selectable = {}
  /\ Return("failed")
  /\ UNCHANGED <<listVars, lock, caller, told>>

(* automatic_update needs the lock for itself; whatever comes of it but an *)
(* installed update, a timeout after 45 seconds included, rcodex goes on.  *)
Updates ==
  /\ At("update") /\ lock = "free" /\ chosen.sameVersion
  /\ Return("restarted")
  /\ UNCHANGED <<listVars, lock, caller, told>>

UpdatesNot ==
  /\ At("update") /\ Goto("lock")
  /\ UNCHANGED <<listVars, chosen, session, lock, tui>>

(* The slip of binding the lock to nothing, which drops it at once.        *)
LockAndForget ==
  /\ At("lock") /\ lock = "free"
  /\ Goto("verify")
  /\ UNCHANGED <<listVars, chosen, session, lock, tui>>

(* Installation::lock(.., false).                                          *)
Lock ==
  /\ At("lock") /\ lock = "free" /\ lock' = "shared"
  /\ Goto("verify")
  /\ UNCHANGED <<listVars, chosen, session, tui>>

LockFails ==
  /\ At("lock") /\ lock = "exclusive"
  /\ Return("failed")
  /\ UNCHANGED <<listVars, lock, caller, told>>

(* verify_remote_codex_version, of the entry as it was listed.             *)
Verify ==
  /\ At("verify")
  /\ IF chosen.sameVersion
       THEN Goto("socket") /\ UNCHANGED <<chosen, session, child, bridge>>
       ELSE Return("failed")
  /\ UNCHANGED <<listVars, lock, caller, told>>

(* The challenge is answered if it is for this session and that is live.   *)
Prove ==
  /\ At("challenge") /\ session = "live"
  /\ Goto("shim")
  /\ UNCHANGED <<listVars, chosen, session, lock, tui>>

Bind ==
  /\ At("shim") /\ bridge' = "accepting"
  /\ Goto("launch")
  /\ UNCHANGED <<listVars, chosen, session, lock, child, caller, told>>

Launch ==
  /\ At("launch") /\ child' = "running"
  /\ Goto("serving")
  /\ UNCHANGED <<listVars, chosen, session, lock, bridge, caller, told>>

-----------------------------------------------------------------------------
(* Serving.                                                                *)

(* The slip of a shim that waits as long as it takes.                      *)
AcceptWaits == FALSE /\ UNCHANGED vars

(* "stock Codex did not connect to the rcodex shim", in 30 seconds.        *)
AcceptTimesOut ==
  /\ At("serving") /\ bridge = "accepting"
  /\ Return("failed")
  /\ UNCHANGED <<listVars, lock, caller, told>>

(* The slip of a handshake that does not look at the token.                *)
HandshakeUnchecked ==
  /\ At("serving") /\ bridge = "handshaking" /\ caller # "silent stranger"
  /\ bridge' = "bridged"
  /\ UNCHANGED <<listVars, run, lock, child, caller, told>>

(* The TUI has the token it was launched with, a stranger has not.         *)
Handshake ==
  /\ At("serving") /\ bridge = "handshaking"
  /\ \/ /\ caller = "tui" /\ child = "running"
        /\ bridge' = "bridged"
        /\ UNCHANGED <<run, child>>
     \/ /\ caller = "stranger" \/ (caller = "tui" /\ child # "running")
        /\ Return("failed")
  /\ UNCHANGED <<listVars, lock, caller, told>>

(* Bridged: the relay closes, or either side breaks (RelayTransport).      *)
BridgeFails ==
  /\ At("serving") /\ bridge \in {"bridged", "closing"}
  /\ Return("failed")
  /\ UNCHANGED <<listVars, lock, caller, told>>

(* The TUI closes its connection: client_closed is sent, which may fail    *)
(* unnoticed, and the bridge ends.                                         *)
LocalEnds ==
  /\ At("serving") /\ bridge = "bridged" /\ bridge' = "closing"
  /\ UNCHANGED <<listVars, run, lock, child, caller, told>>

BridgeEnds ==
  /\ At("serving") /\ bridge = "closing"
  /\ told' = TRUE
  /\ Return("done")
  /\ UNCHANGED <<listVars, lock, caller>>

(* child.wait(), which may be ahead of the bridge.                         *)
TuiEnded ==
  /\ At("serving") /\ child \in {"exited", "failed"}
  /\ Return(IF child = "exited" THEN "done" ELSE "failed")
  /\ UNCHANGED <<listVars, lock, caller, told>>

Interrupt ==
  /\ At("serving")
  /\ Return("interrupted")
  /\ UNCHANGED <<listVars, lock, caller, told>>

-----------------------------------------------------------------------------
(* What rcodex does of itself, sooner or later.                            *)
Progress ==
  \/ Passes \/ Lists \/ ListEnds \/ Select \/ SelectFails \/ Updates \/ UpdatesNot
  \/ Lock \/ LockFails \/ Verify \/ Prove \/ Bind \/ Launch \/ Unlock
  \/ At("challenge") /\ session = "expired" /\ Fails
  \/ AcceptTimesOut \/ Handshake \/ BridgeEnds \/ TuiEnded

Outside ==
  \/ SessionExpires \/ ReplacerLocks \/ ReplacerUnlocks \/ SilenceEnds
  \/ \E how \in {"exited", "failed"} : TuiExits(how)
  \/ \E who \in {"tui", "stranger", "silent stranger"} : Connects(who)

Next == Progress \/ Fails \/ BridgeFails \/ LocalEnds \/ Interrupt \/ Crash \/ Outside

Spec == Init /\ [][Next]_vars

(* Every wait of rcodex has a timeout but those for the TUI, for a         *)
(* handshake and for an interrupt, so it goes on as long as it can.        *)
FairSpec == Spec /\ WF_vars(Progress)

-----------------------------------------------------------------------------
(* The relay is only asked for a host that the list, all its pages taken   *)
(* together, shows online, with the Codex version that is installed here,  *)
(* and as the one asked for or the only one there is.                      *)
ConnectsToTheRightHost ==
  stage \in {"socket", "challenge"} \cup Connected =>
    /\ chosen.online /\ chosen.sameVersion
    /\ \E i \in DOMAIN environments :
         /\ environments[i] = chosen
         /\ IF requested = Unspecified
              THEN \A j \in DOMAIN environments \ {i} : ~ environments[j].online
              ELSE chosen.host = requested

(* The TUI runs only within its session: unless rcodex itself was killed,  *)
(* no way to end leaves it running, and the lock that keeps the executable *)
(* from being replaced outlives it.                                        *)
TuiWithinSession == child = "running" /\ outcome # "crashed" => lock = "shared"

(* Nobody is left waiting.  rcodex ends, or its TUI comes to be bridged,   *)
(* though the TUI never connects; the one exception is a stranger that has *)
(* connected first and says nothing, as the handshake has no timeout.  And *)
(* when the TUI is gone rcodex ends, whatever else it was waiting for.     *)
EveryLaunchSettles ==
  /\ At("session") ~> (At("over") \/ bridge = "bridged" \/ caller = "silent stranger")
  /\ (child \in {"exited", "failed"}) ~> At("over")

-----------------------------------------------------------------------------
(* What one might expect, and does not hold: no run checks these.          *)

(* rcodex succeeds only if its TUI did.  TLC refutes it with a TUI that    *)
(* closes its connection before it exits: the bridge is done first, and    *)
(* the TUI is killed with its status unknown.                              *)
SuccessIsTheTuis == outcome = "done" => child = "exited"

(* client_closed is sent when a bridged TUI has exited.  TLC refutes it    *)
(* with child.wait() ahead of the bridge, which is dropped before that.    *)
HostIsTold == At("over") /\ caller = "tui" /\ outcome = "done" => told
=============================================================================
