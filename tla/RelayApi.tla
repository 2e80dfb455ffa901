------------------------------ MODULE RelayApi ------------------------------
(***************************************************************************)
(* RelayApi::send_with_status_policy (src/api.rs) and the token refresh it *)
(* rests on (src/auth.rs): several rcodex processes make API calls with    *)
(* the tokens of one auth.json, which they share with the stock Codex.     *)
(*                                                                         *)
(* A call runs through                                                     *)
(*   load                        RelayApi::auth                            *)
(*   send                        one iteration of the retry loop           *)
(*   snapshot -> reread -> request -> compare -> save -> reload            *)
(*                               refresh_codex_auth, at its file and       *)
(*                               network accesses                          *)
(* and between two steps any other process may run.  The authorization     *)
(* server, the relay's API and the stock Codex are external.               *)
(*                                                                         *)
(* Abstractions.  The server numbers its answers, and a token has the      *)
(* number of the answer that brought it; auth.json is its two tokens and   *)
(* its last_refresh, which is new at every write and for which the number  *)
(* of the answer written stands.  The rest of the file is kept.  The       *)
(* server may answer any status to any call.                               *)
(***************************************************************************)
EXTENDS Naturals

CONSTANTS
  Procs,      \* the rcodex processes
  MaxIssued,  \* bound on the server's answers
  MaxCalls,   \* bound on the calls made
  MaxRetries  \* how often 429 and server errors are retried, 3 in the code

ASSUME BoundsAssumption == MaxIssued \in Nat \ {0} /\ MaxCalls \in Nat /\ MaxRetries \in Nat

Tokens == 1 .. MaxIssued
None == 0

VARIABLES
  file,    \* auth.json: refresh and access token, last_refresh
  live,    \* the refresh tokens the server would take
  issued,  \* how many answers with tokens it has given
  stale,   \* access tokens up to this one need a refresh
  calls,   \* calls started so far
  proc     \* the call of each process

vars == <<file, live, issued, stale, calls, proc>>

Files == [refresh : Tokens, access : Tokens, last : Tokens]

NoFile == [refresh |-> None, access |-> None, last |-> None]

(* RefreshResponse, with its number and the refresh token it answers.      *)
Replies == [refresh : Tokens \cup {None}, access : Tokens \cup {None}, at : Tokens \cup {None}, to : Tokens \cup {None}]

NoReply == [refresh |-> None, access |-> None, at |-> None, to |-> None]

(* held: the access token in hand; snap, base: what the two reads found;   *)
(* changed: whether the file was written while the request was on its way; *)
(* refused: the access token a 401 was the answer to.                      *)
IdleCall ==
  [pc |-> "idle", held |-> None, snap |-> NoFile, base |-> NoFile, reply |-> NoReply,
   changed |-> FALSE, refreshed |-> FALSE, retries |-> 0, refused |-> None]

(* The token numbers, files and steps are those there are.                 *)
TypeOK ==
  /\ file \in Files /\ live \subseteq Tokens
  /\ issued \in Tokens /\ stale \in 0 .. issued /\ calls \in 0 .. MaxCalls
  /\ \A p \in Procs :
       /\ proc[p].pc \in {"idle", "load", "send", "snapshot", "reread", "request",
                          "compare", "save", "reload"}
       /\ proc[p].held \in Tokens \cup {None} /\ proc[p].refused \in Tokens \cup {None}
       /\ proc[p].snap \in Files \cup {NoFile} /\ proc[p].base \in Files \cup {NoFile}
       /\ proc[p].reply \in Replies
       /\ proc[p].changed \in BOOLEAN /\ proc[p].refreshed \in BOOLEAN
       /\ proc[p].retries \in 0 .. MaxRetries

Init ==
  /\ file = [refresh |-> 1, access |-> 1, last |-> 1]
  /\ live = {1} /\ issued = 1 /\ stale = 0 /\ calls = 0
  /\ proc = [p \in Procs |-> IdleCall]

At(p, step) == proc[p].pc = step

(* The steps at which the answer to a refresh request is awaited.          *)
InFlight == {"request", "compare"}

(* proc once p's call is c, and whether the others have seen a write.      *)
Proceed(p, c, wrote) ==
  proc' = [q \in Procs |->
             IF q = p THEN c
             ELSE IF wrote /\ proc[q].pc \in InFlight THEN [proc[q] EXCEPT !.changed = TRUE]
             ELSE proc[q]]

Goto(p, step) == Proceed(p, [proc[p] EXCEPT !.pc = step], FALSE)

Or(token, default) == IF token = None THEN default ELSE token

(* merge_refresh_response: what the reply brings, over what the document   *)
(* has.                                                                    *)
Merge(document, reply) ==
  [refresh |-> Or(reply.refresh, document.refresh), access |-> Or(reply.access, document.access), last |-> reply.at]

-----------------------------------------------------------------------------
(* Outside the program.                                                    *)

(* What the server may answer to the live refresh token r: either token    *)
(* may be new, or missing.                                                 *)
Answers(r) ==
  [refresh : {None, issued + 1}, access : {None, issued + 1}, at : {issued + 1}, to : {r}]

(* It gives the answer: a new refresh token replaces the one presented.    *)
Answer(r, reply) ==
  /\ issued < MaxIssued /\ issued' = issued + 1
  /\ r \in live /\ reply \in Answers(r)
  /\ live' = IF reply.refresh = None THEN live ELSE (live \ {r}) \cup {reply.refresh}

AccessTokensAge ==
  /\ stale < issued /\ stale' = issued
  /\ UNCHANGED <<file, live, issued, calls, proc>>

(* The stock Codex refreshes its tokens, or its user logs in anew.         *)
CodexWrites ==
  /\ \/ \E reply \in Answers(file.refresh) :
          /\ Answer(file.refresh, reply)
          /\ file' = Merge(file, reply)
     \/ /\ issued < MaxIssued /\ issued' = issued + 1
        /\ live' = live \cup {issued + 1}
        /\ file' = [refresh |-> issued + 1, access |-> issued + 1, last |-> issued + 1]
  /\ proc' = [q \in Procs |-> [proc[q] EXCEPT !.changed = @ \/ proc[q].pc \in InFlight]]
  /\ UNCHANGED <<stale, calls>>

-----------------------------------------------------------------------------
Start(p) ==
  /\ At(p, "idle") /\ calls < MaxCalls
  /\ calls' = calls + 1
  /\ Goto(p, "load")
  /\ UNCHANGED <<file, live, issued, stale>>

(* RelayApi::auth: the file's token, unless it is about to expire.         *)
Load(p) ==
  /\ At(p, "load")
  /\ IF file.access <= stale
       THEN Goto(p, "snapshot")
       ELSE Proceed(p, [proc[p] EXCEPT !.pc = "send", !.held = file.access], FALSE)
  /\ UNCHANGED <<file, live, issued, stale, calls>>

(* The call returns, with a result or an error; its locals are gone.       *)
End(p) == Proceed(p, IdleCall, FALSE)

(* A success, an error that is not retried, or one too often.              *)
Answered(p) ==
  /\ At(p, "send")
  /\ End(p)
  /\ UNCHANGED <<file, live, issued, stale, calls>>

Unauthorized(p) ==
  /\ At(p, "send") /\ ~ proc[p].refreshed
  /\ Proceed(p, [proc[p] EXCEPT !.pc = "snapshot", !.refreshed = TRUE, !.refused = proc[p].held], FALSE)
  /\ UNCHANGED <<file, live, issued, stale, calls>>

(* The slip of a backoff that starts over where it should give up.         *)
RetryStartingOver(p) ==
  /\ At(p, "send")
  /\ Proceed(p, [proc[p] EXCEPT !.retries = IF @ < MaxRetries THEN @ + 1 ELSE 0], FALSE)
  /\ UNCHANGED <<file, live, issued, stale, calls>>

(* 429 or a server error, slept over and tried again.                      *)
Retry(p) ==
  /\ At(p, "send") /\ proc[p].retries < MaxRetries
  /\ Proceed(p, [proc[p] EXCEPT !.retries = @ + 1], FALSE)
  /\ UNCHANGED <<file, live, issued, stale, calls>>

-----------------------------------------------------------------------------
(* refresh_codex_auth.                                                     *)

Snapshot(p) ==
  /\ At(p, "snapshot")
  /\ Proceed(p, [proc[p] EXCEPT !.pc = "reread", !.snap = file, !.changed = FALSE], FALSE)
  /\ UNCHANGED <<file, live, issued, stale, calls>>

(* load_codex_auth reads the file again, and its token is the one used.    *)
Reread(p) ==
  /\ At(p, "reread")
  /\ Proceed(p, [proc[p] EXCEPT !.pc = "request", !.base = file], FALSE)
  /\ UNCHANGED <<file, live, issued, stale, calls>>

Request(p) ==
  /\ At(p, "request")
  /\ LET r == proc[p].base.refresh IN
       \E reply \in Answers(r) :
         /\ Answer(r, reply)
         /\ Proceed(p, [proc[p] EXCEPT !.pc = "compare", !.reply = reply], FALSE)
  /\ UNCHANGED <<file, stale, calls>>

(* Refused, or the answer is lost or not one that can be parsed.           *)
RequestFails(p) ==
  /\ At(p, "request")
  /\ \/ UNCHANGED <<live, issued>>
     \/ LET r == proc[p].base.refresh IN \E reply \in Answers(r) : Answer(r, reply)
  /\ End(p)
  /\ UNCHANGED <<file, stale, calls>>

(* The slip of taking the second read for the snapshot.                    *)
CompareWithBase(p) ==
  /\ At(p, "compare")
  /\ Goto(p, IF file = proc[p].base THEN "save" ELSE "reload")
  /\ UNCHANGED <<file, live, issued, stale, calls>>

(* The slip of comparing with what the second read found, not a third.     *)
CompareReads(p) ==
  /\ At(p, "compare")
  /\ Goto(p, IF proc[p].base = proc[p].snap THEN "save" ELSE "reload")
  /\ UNCHANGED <<file, live, issued, stale, calls>>

(* Whoever has changed the file since the first read is let be.            *)
Compare(p) ==
  /\ At(p, "compare")
  /\ Goto(p, IF file = proc[p].snap THEN "save" ELSE "reload")
  /\ UNCHANGED <<file, live, issued, stale, calls>>

Save(p) ==
  /\ At(p, "save")
  /\ file' = Merge(proc[p].snap, proc[p].reply)
  /\ Proceed(p, [proc[p] EXCEPT !.pc = "reload"], TRUE)
  /\ UNCHANGED <<live, issued, stale, calls>>

(* The file cannot be read or written, or the tokens that came or were     *)
(* read are not ones to use.                                               *)
FileFails(p) ==
  /\ proc[p].pc \in {"load", "snapshot", "reread", "compare", "save", "reload"}
  /\ End(p)
  /\ UNCHANGED <<file, live, issued, stale, calls>>

(* The slip of returning the tokens of before the request.                 *)
ReloadBefore(p) ==
  /\ At(p, "reload")
  /\ Proceed(p, [proc[p] EXCEPT !.pc = "send", !.held = proc[p].base.access,
                                !.snap = NoFile, !.base = NoFile, !.reply = NoReply, !.changed = FALSE], FALSE)
  /\ UNCHANGED <<file, live, issued, stale, calls>>

Reload(p) ==
  /\ At(p, "reload")
  /\ Proceed(p, [proc[p] EXCEPT !.pc = "send", !.held = file.access,
                                !.snap = NoFile, !.base = NoFile, !.reply = NoReply, !.changed = FALSE], FALSE)
  /\ UNCHANGED <<file, live, issued, stale, calls>>

Crash(p) ==
  /\ ~ At(p, "idle")
  /\ End(p)
  /\ UNCHANGED <<file, live, issued, stale, calls>>

Step(p) ==
  \/ Load(p) \/ Answered(p) \/ Unauthorized(p) \/ Retry(p)
  \/ Snapshot(p) \/ Reread(p) \/ Request(p) \/ RequestFails(p)
  \/ Compare(p) \/ Save(p) \/ FileFails(p) \/ Reload(p)

Next ==
  \/ \E p \in Procs : Start(p) \/ Step(p) \/ Crash(p)
  \/ AccessTokensAge
  \/ CodexWrites

Spec == Init /\ [][Next]_vars

(* A call is awaited to its end, and every request of it has a timeout.    *)
FairSpec == Spec /\ \A p \in Procs : WF_vars(Step(p))

-----------------------------------------------------------------------------
(* A process about to save writes the answer to the very refresh token the *)
(* document it merges into has: though the file is read twice before the   *)
(* request, tokens of two logins are never mixed in one file.              *)
AnswersItsSnapshot ==
  \A p \in Procs : At(p, "save") => proc[p].reply.to = proc[p].snap.refresh

(* "Token refresh now abandons its write if another process changed the    *)
(* Codex authentication file while the network request was in flight."     *)
AbandonsIfChangedInFlight ==
  [][\A p \in Procs :
       At(p, "compare") /\ proc[p].changed => proc'[p].pc # "save"]_vars

(* The one retry after a 401 presents the access token that was refused    *)
(* only for want of another: whoever else was refreshing meanwhile, the    *)
(* answer last written to auth.json has brought no access token, as        *)
(* merge_refresh_response allows.                                          *)
RefusedOnlyForWantOfAnother ==
  [][\A p \in Procs :
       At(p, "reload") /\ proc[p].refreshed /\ proc'[p].pc = "send" /\ proc'[p].held = proc[p].refused
         => file.access # file.last]_vars

(* Whatever the servers answer, a call comes to an end: 401s and 5xx's do  *)
(* not keep it in the loop.                                                *)
EveryCallEnds == \A p \in Procs : (~ At(p, "idle")) ~> At(p, "idle")

-----------------------------------------------------------------------------
(* What one might expect, and does not hold: no run checks it.             *)

(* "auth_snapshot_detects_any_concurrent_file_change": a refresh replaces  *)
(* only the file it has read, so nobody's login is written over.  The file *)
(* is compared first and replaced later, with no lock between, and TLC     *)
(* finds the write that falls there.                                       *)
NoWriteIsLost ==
  [][\A p \in Procs : At(p, "save") /\ proc'[p].pc = "reload" => file = proc[p].snap]_vars
=============================================================================
