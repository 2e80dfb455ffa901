---------------------------- MODULE RelayApiProofs ----------------------------
(***************************************************************************)
(* Proofs about RelayApi, for any number of processes, calls, tokens and   *)
(* retries.  Their crux is that auth.json is always written with a         *)
(* last_refresh that it never had before and that no process has seen:     *)
(* once it has changed, it never looks as it did, be the tokens the same.  *)
(***************************************************************************)
EXTENDS RelayApi, Integers, TLAPS

Calls ==
  [pc : {"idle", "load", "send", "snapshot", "reread", "request", "compare", "save", "reload"},
   held : Tokens \cup {None}, snap : Files \cup {NoFile}, base : Files \cup {NoFile},
   reply : Replies,
   changed : BOOLEAN, refreshed : BOOLEAN, retries : 0 .. MaxRetries, refused : Tokens \cup {None}]

Typed ==
  /\ file \in Files /\ live \subseteq Tokens
  /\ issued \in Tokens /\ stale \in 0 .. issued /\ calls \in 0 .. MaxCalls
  /\ proc \in [Procs -> Calls]

(* The numbers that a call has seen in the file, and those there.          *)
Seen(c) == {c.held, c.refused, c.snap.access, c.snap.last}
Shown(f) == {f.access, f.last}

(* The steps at which a reply is in hand and not in the file.              *)
HasReply(c) == c.pc \in {"compare", "save"}

(* Only answers that were given are seen, written or replied.              *)
Known ==
  /\ \A a \in Shown(file) : a <= issued
  /\ \A p \in Procs : proc[p].reply.at <= issued /\ \A a \in Seen(proc[p]) : a <= issued

(* A reply's number is new to the file and to every process, and belongs   *)
(* to no other reply.                                                      *)
Fresh ==
  \A p \in Procs : HasReply(proc[p]) =>
    /\ proc[p].reply.at # None /\ proc[p].reply.at \notin Shown(file)
    /\ \A q \in Procs :
         /\ proc[p].reply.at \notin Seen(proc[q])
         /\ q # p /\ HasReply(proc[q]) => proc[q].reply.at # proc[p].reply.at

(* What a call has read and been answered.                                 *)
Reads(c) ==
  /\ c.pc \in {"idle", "load"} => ~ c.refreshed
  /\ c.pc \in {"reread", "request", "compare", "save"} => c.snap \in Files
  /\ c.pc \in {"request", "compare"} => c.base \in Files
  /\ c.pc = "compare" => c.reply.to = c.base.refresh
  /\ c.pc = "save" => c.reply.to = c.snap.refresh
  /\ HasReply(c) => c.reply.access \in {None, c.reply.at}

(* What it knows of the file f: whether f is the one it read, and whether  *)
(* the answer last written to f is the one that brought the token refused. *)
Compares(c, f) ==
  /\ c.pc = "reread" => ~ c.changed
  /\ c.pc \in {"reread", "request", "compare"} =>
       /\ f = c.snap \/ f.last # c.snap.last
       /\ c.refreshed => f = c.snap \/ f.last # c.refused
  /\ c.pc \in InFlight =>
       /\ c.changed => f.last # c.snap.last
       /\ c.base = c.snap \/ f.last # c.snap.last
  /\ c.pc = "reload" /\ c.refreshed => f.last # c.refused

IInv ==
  /\ Typed /\ Known /\ Fresh
  /\ \A p \in Procs : Reads(proc[p]) /\ Compares(proc[p], file)

-----------------------------------------------------------------------------
(* What is seen and shown are numbers up to the last answer's.             *)
LEMMA SeenAreNumbers ==
  ASSUME IInv
  PROVE  /\ issued \in Nat /\ issued \in Tokens /\ file \in Files
         /\ \A a \in Shown(file) : a \in Nat /\ a <= issued
         /\ \A q \in Procs : /\ proc[q].reply.at \in Nat /\ proc[q].reply.at <= issued
                            /\ \A a \in Seen(proc[q]) : a \in Nat /\ a <= issued
<1>1. issued \in Nat /\ issued \in Tokens /\ file \in Files
  BY DEF IInv, Typed, Tokens
<1>2. \A a \in Shown(file) : a \in Nat
  BY <1>1 DEF Shown, Files, Tokens
<1>3. ASSUME NEW q \in Procs
      PROVE  proc[q].reply.at \in Nat /\ \A a \in Seen(proc[q]) : a \in Nat
  <2>1. proc[q] \in Calls
    BY DEF IInv, Typed
  <2>2. proc[q].reply.at \in Nat
    BY <2>1 DEF Calls, Replies, Tokens, None
  <2>3. proc[q].held \in Nat /\ proc[q].refused \in Nat
    BY <2>1 DEF Calls, Tokens, None
  <2>4. proc[q].snap.access \in Nat /\ proc[q].snap.last \in Nat
    <3>1. proc[q].snap \in Files \cup {NoFile}
      BY <2>1 DEF Calls
    <3> QED
      BY <3>1 DEF Files, NoFile, Tokens, None
  <2> QED
    BY <2>2, <2>3, <2>4 DEF Seen
<1> QED
  BY <1>1, <1>2, <1>3 DEF IInv, Known

LEMMA IdleSeesNothing ==
  /\ IdleCall \in Calls /\ Seen(IdleCall) = {None} /\ IdleCall.reply.at = None /\ ~ HasReply(IdleCall)
  /\ \A f : Reads(IdleCall) /\ Compares(IdleCall, f)
<1>1. NoReply \in Replies
  BY DEF NoReply, Replies, None
<1>2. IdleCall \in Calls
  BY <1>1, BoundsAssumption DEF IdleCall, Calls, None
<1>3. Seen(IdleCall) = {None} /\ IdleCall.reply.at = None
  BY DEF Seen, IdleCall, NoFile, NoReply
<1>4. ~ HasReply(IdleCall) /\ \A f : Reads(IdleCall) /\ Compares(IdleCall, f)
  BY DEF HasReply, Reads, Compares, IdleCall, InFlight
<1> QED
  BY <1>2, <1>3, <1>4

(* A write with a number the call has not seen tells it of the change.     *)
LEMMA WriteIsNoticed ==
  ASSUME NEW c \in Calls, NEW f, NEW g, Reads(c), Compares(c, f),
         g.last \notin Seen(c), NEW d \in {c, [c EXCEPT !.changed = TRUE]}, d = c \/ c.pc \in InFlight
  PROVE  Reads(d) /\ Compares(d, g) /\ d \in Calls /\ Seen(d) = Seen(c)
<1>1. d \in Calls /\ Seen(d) = Seen(c)
  BY DEF Calls, Seen
<1>2. Reads(d)
  BY DEF Reads, Calls, HasReply
<1>3. Compares(d, g)
  BY DEF Compares, Calls, Seen, InFlight
<1> QED
  BY <1>1, <1>2, <1>3

(* A step of one process that leaves the file alone, and learns of no      *)
(* access token but the file's.                                            *)
Quiet(p, c) ==
  /\ UNCHANGED <<file, issued>>
  /\ proc' = [q \in Procs |-> IF q = p THEN c ELSE proc[q]]
  /\ c \in Calls
  /\ Seen(c) \subseteq Seen(proc[p]) \cup Shown(file) \cup {None}
  /\ c.reply.at \in {proc[p].reply.at, None}
  /\ HasReply(c) => HasReply(proc[p]) /\ c.reply = proc[p].reply
  /\ Reads(c) /\ Compares(c, file)

LEMMA QuietKeeps ==
  ASSUME IInv, NEW p \in Procs, NEW c, Quiet(p, c)
  PROVE  /\ proc' \in [Procs -> Calls] /\ Known' /\ Fresh'
         /\ \A q \in Procs : Reads(proc[q])' /\ Compares(proc[q], file)'
<1>1. proc \in [Procs -> Calls] /\ file \in Files /\ issued \in Nat
  BY BoundsAssumption DEF IInv, Typed, Tokens
<1>2. /\ proc' \in [Procs -> Calls] /\ UNCHANGED <<file, issued>>
      /\ \A q \in Procs : proc'[q] = IF q = p THEN c ELSE proc[q]
  BY <1>1 DEF Quiet
<1>3. Known'
  <2>1. c.reply.at <= issued
    BY <1>1 DEF Quiet, IInv, Known, None
  <2>2. \A a \in Seen(c) : a <= issued
    BY <1>1 DEF Quiet, IInv, Known, None
  <2>3. \A q \in Procs : proc'[q].reply.at <= issued /\ \A a \in Seen(proc'[q]) : a <= issued
    BY <1>2, <2>1, <2>2 DEF IInv, Known
  <2>4. \A a \in Shown(file') : a <= issued'
    BY <1>2 DEF IInv, Known
  <2> QED
    BY <1>2, <2>3, <2>4 DEF Known, Seen, Shown
<1>4. Fresh'
  <2>1. ASSUME NEW q \in Procs, HasReply(proc'[q])
        PROVE  HasReply(proc[q]) /\ proc'[q].reply = proc[q].reply
    BY <1>2, <2>1 DEF Quiet
  <2>2. ASSUME NEW q \in Procs, HasReply(proc'[q]), NEW r \in Procs
        PROVE  proc[q].reply.at \notin Seen(proc'[r])
    BY <1>2, <2>1, <2>2 DEF Quiet, IInv, Fresh
  <2> QED
    BY <1>2, <2>1, <2>2 DEF IInv, Fresh, HasReply, Seen, Shown
<1>5. ASSUME NEW q \in Procs
      PROVE  Reads(proc'[q]) /\ Compares(proc'[q], file')
  BY <1>2 DEF Quiet, IInv
<1> QED
  BY <1>2, <1>3, <1>4, <1>5 DEF Reads, Compares

-----------------------------------------------------------------------------
(* The steps that neither write the file nor get a reply.                  *)
LEMMA EndIsQuiet ==
  ASSUME IInv, NEW p \in Procs, End(p), UNCHANGED <<file, issued>>
  PROVE  Quiet(p, IdleCall)
<1>1. proc' = [q \in Procs |-> IF q = p THEN IdleCall ELSE proc[q]]
  BY DEF End, Proceed
<1> QED
  BY <1>1, IdleSeesNothing DEF Quiet

LEMMA StepIsQuiet ==
  ASSUME IInv, NEW p \in Procs,
         Start(p) \/ Load(p) \/ Unauthorized(p) \/ Retry(p) \/ Snapshot(p) \/ Reread(p) \/ Compare(p) \/ Reload(p)
  PROVE  \E c \in Calls : Quiet(p, c)
<1> DEFINE k == proc[p]
<1>1. k \in Calls /\ file \in Files /\ Reads(k) /\ Compares(k, file)
  BY DEF IInv, Typed
<1>2. file.access \in Tokens
  BY <1>1 DEF Files
<1> DEFINE Moved(c) == proc' = [q \in Procs |-> IF q = p THEN c ELSE proc[q]]
<1> HIDE DEF k
<1>3. ASSUME NEW c, Moved(c), UNCHANGED <<file, issued>>, c \in Calls,
             Seen(c) \subseteq Seen(k) \cup Shown(file) \cup {None},
             c.reply.at \in {k.reply.at, None},
             HasReply(c) => HasReply(k) /\ c.reply = k.reply,
             Reads(c) /\ Compares(c, file)
      PROVE  \E d \in Calls : Quiet(p, d)
  BY <1>3 DEF Quiet, k
<1>4. CASE Start(p)
  <2> DEFINE c == [k EXCEPT !.pc = "load"]
  <2>1. Moved(c) /\ UNCHANGED <<file, issued>>
    BY <1>4 DEF Start, Goto, Proceed, k
  <2>2. c \in Calls /\ Seen(c) = Seen(k) /\ c.reply = k.reply /\ c.pc = "load" /\ ~ c.refreshed
    <3>1. k.pc = "idle"
      BY <1>4 DEF Start, At, k
    <3> QED
      BY <1>1, <3>1 DEF Calls, Seen, Reads
  <2> HIDE DEF c
  <2> QED
    BY <1>3, <2>1, <2>2 DEF HasReply, Reads, Compares, InFlight
<1>5. CASE Load(p)
  <2>1. CASE file.access <= stale
    <3> DEFINE c == [k EXCEPT !.pc = "snapshot"]
    <3>1. Moved(c) /\ UNCHANGED <<file, issued>>
      BY <1>5, <2>1 DEF Load, Goto, Proceed, k
    <3>2. c \in Calls /\ Seen(c) = Seen(k) /\ c.reply = k.reply /\ c.pc = "snapshot"
      BY <1>1 DEF Calls, Seen
    <3> HIDE DEF c
    <3> QED
      BY <1>3, <3>1, <3>2 DEF HasReply, Reads, Compares, InFlight
  <2>2. CASE ~ (file.access <= stale)
    <3> DEFINE c == [k EXCEPT !.pc = "send", !.held = file.access]
    <3>1. Moved(c) /\ UNCHANGED <<file, issued>> /\ k.pc = "load"
      BY <1>5, <2>2 DEF Load, At, Proceed, k
    <3>2. c \in Calls /\ Seen(c) \subseteq Seen(k) \cup Shown(file) /\ c.reply = k.reply /\ c.pc = "send"
          /\ c.refreshed = k.refreshed
      BY <1>1, <1>2 DEF Calls, Seen, Shown
    <3> HIDE DEF c
    <3> QED
      BY <1>1, <1>3, <3>1, <3>2 DEF HasReply, Reads, Compares, InFlight
  <2> QED
    BY <2>1, <2>2
<1>6. CASE Unauthorized(p)
  <2> DEFINE c == [k EXCEPT !.pc = "snapshot", !.refreshed = TRUE, !.refused = k.held]
  <2>1. Moved(c) /\ UNCHANGED <<file, issued>>
    BY <1>6 DEF Unauthorized, Proceed, k
  <2>2. c \in Calls /\ Seen(c) \subseteq Seen(k) /\ c.reply = k.reply /\ c.pc = "snapshot"
    BY <1>1 DEF Calls, Seen
  <2> HIDE DEF c
  <2> QED
    BY <1>3, <2>1, <2>2 DEF HasReply, Reads, Compares, InFlight
<1>7. CASE Retry(p)
  <2> DEFINE c == [k EXCEPT !.retries = k.retries + 1]
  <2>1. Moved(c) /\ UNCHANGED <<file, issued>> /\ k.pc = "send" /\ k.retries < MaxRetries
    BY <1>7 DEF Retry, At, Proceed, k
  <2>2. k.retries + 1 \in 0 .. MaxRetries
    BY <1>1, <2>1, BoundsAssumption DEF Calls
  <2>3. c \in Calls /\ Seen(c) = Seen(k) /\ c.reply = k.reply /\ c.pc = "send"
        /\ c.refreshed = k.refreshed /\ c.held = k.held /\ c.refused = k.refused
    BY <1>1, <2>1, <2>2 DEF Calls, Seen
  <2> HIDE DEF c
  <2> QED
    BY <1>1, <1>3, <2>1, <2>3 DEF HasReply, Reads, Compares, InFlight
<1>8. CASE Snapshot(p)
  <2> DEFINE c == [k EXCEPT !.pc = "reread", !.snap = file, !.changed = FALSE]
  <2>1. Moved(c) /\ UNCHANGED <<file, issued>>
    BY <1>8 DEF Snapshot, Proceed, k
  <2>2. c \in Calls /\ Seen(c) \subseteq Seen(k) \cup Shown(file) /\ c.reply = k.reply
        /\ c.pc = "reread" /\ c.snap = file /\ c.changed = FALSE
    BY <1>1 DEF Calls, Seen, Shown
  <2> HIDE DEF c
  <2> QED
    BY <1>1, <1>3, <2>1, <2>2 DEF HasReply, Reads, Compares, InFlight
<1>9. CASE Reread(p)
  <2> DEFINE c == [k EXCEPT !.pc = "request", !.base = file]
  <2>1. Moved(c) /\ UNCHANGED <<file, issued>> /\ k.pc = "reread"
    BY <1>9 DEF Reread, At, Proceed, k
  <2>2. c \in Calls /\ Seen(c) = Seen(k) /\ c.reply = k.reply /\ c.pc = "request" /\ c.base = file
        /\ c.snap = k.snap /\ c.changed = k.changed /\ c.refreshed = k.refreshed /\ c.refused = k.refused
    BY <1>1 DEF Calls, Seen
  <2> HIDE DEF c
  <2> QED
    BY <1>1, <1>3, <2>1, <2>2 DEF HasReply, Reads, Compares, InFlight
<1>10. CASE Compare(p)
  <2> DEFINE c == [k EXCEPT !.pc = IF file = k.snap THEN "save" ELSE "reload"]
  <2>1. Moved(c) /\ UNCHANGED <<file, issued>> /\ k.pc = "compare"
    BY <1>10 DEF Compare, At, Goto, Proceed, k
  <2>2. c \in Calls /\ Seen(c) = Seen(k) /\ c.reply = k.reply
        /\ c.pc = (IF file = k.snap THEN "save" ELSE "reload")
        /\ c.snap = k.snap /\ c.refreshed = k.refreshed /\ c.refused = k.refused
    BY <1>1 DEF Calls, Seen
  <2> HIDE DEF c
  <2>3. Reads(c)
    BY <1>1, <2>1, <2>2 DEF Reads, Compares, InFlight, HasReply
  <2>4. Compares(c, file)
    BY <1>1, <2>1, <2>2 DEF Compares, InFlight
  <2> QED
    BY <1>3, <2>1, <2>2, <2>3, <2>4 DEF HasReply
<1>11. CASE Reload(p)
  <2> DEFINE c == [k EXCEPT !.pc = "send", !.held = file.access,
                            !.snap = NoFile, !.base = NoFile, !.reply = NoReply, !.changed = FALSE]
  <2>1. Moved(c) /\ UNCHANGED <<file, issued>> /\ k.pc = "reload"
    BY <1>11 DEF Reload, At, Proceed, k
  <2>2. c \in Calls /\ Seen(c) \subseteq Seen(k) \cup Shown(file) \cup {None} /\ c.reply.at = None
        /\ c.pc = "send" /\ c.held = file.access /\ c.refreshed = k.refreshed /\ c.refused = k.refused
    BY <1>1, <1>2 DEF Calls, Seen, Shown, NoFile, NoReply, Replies
  <2> HIDE DEF c
  <2> QED
    BY <1>1, <1>3, <2>1, <2>2 DEF HasReply, Reads, Compares, InFlight
<1> QED
  BY <1>4, <1>5, <1>6, <1>7, <1>8, <1>9, <1>10, <1>11

-----------------------------------------------------------------------------
(* The steps that do.                                                      *)

(* The file is written with an access token nobody has seen.               *)
Writes(c) ==
  /\ file' \in Files /\ issued <= issued' /\ issued' \in Tokens
  /\ \A a \in Shown(file') : a <= issued'
  /\ \A q \in Procs : file'.last \notin Seen(proc[q])
  /\ \A q \in Procs :
       HasReply(proc'[q]) => proc'[q].reply = proc[q].reply /\ HasReply(proc[q]) /\ proc[q].reply.at \notin Shown(file')
  /\ proc' = [q \in Procs |-> c[q]]
  /\ \A q \in Procs : c[q].reply = proc[q].reply /\ Seen(c[q]) = Seen(proc[q]) /\ c[q] \in Calls
  /\ \A q \in Procs : Reads(c[q]) /\ Compares(c[q], file')

LEMMA WritesKeeps ==
  ASSUME IInv, NEW c, Writes(c)
  PROVE  /\ proc' \in [Procs -> Calls] /\ Known' /\ Fresh'
         /\ \A q \in Procs : Reads(proc[q])' /\ Compares(proc[q], file)'
<1>1. /\ proc' \in [Procs -> Calls]
      /\ \A q \in Procs : /\ proc'[q] = c[q]
                          /\ proc'[q].reply = proc[q].reply /\ Seen(proc'[q]) = Seen(proc[q])
  BY DEF Writes
<1>2. Known'
  <2>1. issued \in Nat /\ issued' \in Nat /\ issued <= issued'
    BY SeenAreNumbers DEF Tokens, Writes
  <2>2. ASSUME NEW q \in Procs
        PROVE  proc'[q].reply.at <= issued' /\ \A a \in Seen(proc'[q]) : a <= issued'
    <3>1. \A a \in Seen(proc[q]) : a <= issued'
      BY <2>1, SeenAreNumbers
    <3>2. proc[q].reply.at <= issued'
      BY <2>1, SeenAreNumbers
    <3> QED
      BY <1>1, <3>1, <3>2
  <2> QED
    BY <2>2 DEF Known, Writes, Seen, Shown
<1>3. Fresh'
  <2>1. ASSUME NEW q \in Procs, HasReply(proc'[q]), NEW r \in Procs
        PROVE  /\ proc'[q].reply.at # None /\ proc'[q].reply.at \notin Shown(file')
               /\ proc'[q].reply.at \notin Seen(proc'[r])
               /\ r # q /\ HasReply(proc'[r]) => proc'[r].reply.at # proc'[q].reply.at
    BY <1>1, <2>1 DEF Writes, IInv, Fresh
  <2> QED
    BY <2>1 DEF Fresh, HasReply, Seen, Shown
<1> QED
  BY <1>1, <1>2, <1>3 DEF Writes, Reads, Compares

LEMMA CodexWritesKeeps ==
  ASSUME IInv, CodexWrites
  PROVE  \E c : Writes(c)
<1> DEFINE c == [q \in Procs |-> [proc[q] EXCEPT !.changed = @ \/ proc[q].pc \in InFlight]]
<1>1. issued \in Nat /\ issued' = issued + 1 /\ issued' \in Tokens
  BY SeenAreNumbers, BoundsAssumption DEF CodexWrites, Answer, Tokens
<1>2. file' \in Files /\ file'.last = issued + 1 /\ Shown(file') \subseteq {issued + 1, file.access}
  <2>1. file' \in Files /\ file'.last = issued + 1 /\ file'.access \in {issued + 1, file.access}
    <3>1. CASE file' = [refresh |-> issued + 1, access |-> issued + 1, last |-> issued + 1]
      BY <1>1, <3>1 DEF Files
    <3>2. ASSUME NEW reply \in Answers(file.refresh), file' = Merge(file, reply)
          PROVE  file' \in Files /\ file'.last = issued + 1 /\ file'.access \in {issued + 1, file.access}
      <4>1. reply.refresh \in {None, issued + 1} /\ reply.access \in {None, issued + 1} /\ reply.at = issued + 1
        BY DEF Answers
      <4>2. issued + 1 # None /\ issued + 1 \in Tokens /\ file \in Files
        BY <1>1, SeenAreNumbers DEF None
      <4>3. Or(reply.refresh, file.refresh) \in Tokens /\ Or(reply.access, file.access) \in Tokens
            /\ Or(reply.access, file.access) \in {issued + 1, file.access}
        BY <4>1, <4>2 DEF Or, Files
      <4> QED
        BY <3>2, <4>1, <4>2, <4>3 DEF Merge, Files
    <3> QED
      BY <3>1, <3>2 DEF CodexWrites
  <2> QED
    BY <2>1 DEF Shown
<1>3. ASSUME NEW q \in Procs
      PROVE  /\ file'.last \notin Seen(proc[q])
             /\ HasReply(proc[q]) => proc[q].reply.at \notin Shown(file')
             /\ c[q] \in Calls /\ c[q].reply = proc[q].reply /\ c[q].pc = proc[q].pc /\ Seen(c[q]) = Seen(proc[q])
             /\ Reads(c[q]) /\ Compares(c[q], file')
  <2>1. proc[q] \in Calls /\ Reads(proc[q]) /\ Compares(proc[q], file)
    BY DEF IInv, Typed
  <2>2. file'.last \notin Seen(proc[q])
    <3>1. \A a \in Seen(proc[q]) : a # issued + 1
      BY <1>1, SeenAreNumbers
    <3> QED
      BY <1>2, <3>1
  <2>3. HasReply(proc[q]) => proc[q].reply.at \notin Shown(file')
    <3>1. proc[q].reply.at # issued + 1
      BY <1>1, SeenAreNumbers
    <3> QED
      BY <1>2, <3>1 DEF IInv, Fresh, Shown
  <2>5. c[q] = IF proc[q].pc \in InFlight THEN [proc[q] EXCEPT !.changed = TRUE] ELSE proc[q]
    <3>1. CASE proc[q].pc \in InFlight
      BY <3>1
    <3>2. CASE proc[q].pc \notin InFlight
      <4>1. proc[q].changed \in BOOLEAN
        BY <2>1 DEF Calls
      <4>2. (proc[q].changed \/ proc[q].pc \in InFlight) = proc[q].changed
        BY <3>2, <4>1
      <4>3. c[q] = [proc[q] EXCEPT !.changed = proc[q].changed]
        BY <4>2
      <4> QED
        BY <2>1, <3>2, <4>3 DEF Calls
    <3> QED
      BY <3>1, <3>2
  <2> DEFINE d == c[q]
  <2>6. d.reply = proc[q].reply /\ d.pc = proc[q].pc
    BY <2>1, <2>5 DEF Calls
  <2>7. d \in {proc[q], [proc[q] EXCEPT !.changed = TRUE]} /\ (d = proc[q] \/ proc[q].pc \in InFlight)
    BY <2>5
  <2> HIDE DEF d, c
  <2>8. Reads(d) /\ Compares(d, file') /\ d \in Calls /\ Seen(d) = Seen(proc[q])
    BY <2>1, <2>2, <2>7, WriteIsNoticed
  <2> QED
    BY <2>2, <2>3, <2>6, <2>8 DEF d
<1>4. proc' = [q \in Procs |-> c[q]]
  BY DEF CodexWrites
<1> HIDE DEF c
<1>5. ASSUME NEW q \in Procs, HasReply(proc'[q])
      PROVE  proc'[q].reply = proc[q].reply /\ HasReply(proc[q]) /\ proc[q].reply.at \notin Shown(file')
  BY <1>3, <1>4, <1>5 DEF HasReply
<1>6. issued <= issued' /\ \A a \in Shown(file') : a <= issued'
  <2>1. file.access \in Nat /\ file.access <= issued
    BY SeenAreNumbers DEF Shown
  <2> QED
    BY <1>1, <1>2, <2>1
<1>7. Writes(c)
  BY <1>1, <1>2, <1>3, <1>4, <1>5, <1>6 DEF Writes
<1> QED
  BY <1>7

LEMMA SaveKeeps ==
  ASSUME IInv, NEW p \in Procs, Save(p)
  PROVE  \E c : Writes(c)
<1> DEFINE k == [proc[p] EXCEPT !.pc = "reload"]
           c == [q \in Procs |->
                   IF q = p THEN k
                   ELSE IF proc[q].pc \in InFlight THEN [proc[q] EXCEPT !.changed = TRUE] ELSE proc[q]]
<1>1. proc[p] \in Calls /\ proc[p].pc = "save" /\ Reads(proc[p])
  BY DEF Save, At, IInv, Typed
<1>2. proc[p].reply.at # None /\ proc[p].reply.access \in {None, proc[p].reply.at} /\ proc[p].snap \in Files
  BY <1>1 DEF IInv, Fresh, HasReply, Reads
<1>3. file' = Merge(proc[p].snap, proc[p].reply) /\ UNCHANGED issued /\ issued \in Tokens
  BY DEF Save, IInv, Typed
<1>4. /\ file' \in Files /\ file'.last = proc[p].reply.at
      /\ Shown(file') \subseteq {proc[p].reply.at, proc[p].snap.access}
  <2>1. proc[p].reply \in Replies
    BY <1>1 DEF Calls
  <2>2. proc[p].reply.refresh \in Tokens \cup {None} /\ proc[p].reply.at \in Tokens
    BY <1>2, <2>1 DEF Replies
  <2>3. Or(proc[p].reply.refresh, proc[p].snap.refresh) \in Tokens
    BY <1>2, <2>2 DEF Or, Files
  <2>4. /\ Or(proc[p].reply.access, proc[p].snap.access) \in Tokens
        /\ Or(proc[p].reply.access, proc[p].snap.access) \in {proc[p].reply.at, proc[p].snap.access}
    BY <1>2, <2>2 DEF Or, Files
  <2> QED
    BY <1>3, <2>2, <2>3, <2>4 DEF Merge, Files, Shown
<1>5. /\ k \in Calls /\ k.pc = "reload" /\ k.reply = proc[p].reply /\ Seen(k) = Seen(proc[p])
      /\ k.refused = proc[p].refused
  BY <1>1 DEF Calls, Seen
<1>6. file'.last \notin Seen(proc[p])
  BY <1>1, <1>4 DEF IInv, Fresh, HasReply
<1> HIDE DEF k
<1>7. Reads(k) /\ Compares(k, file') /\ ~ HasReply(k)
  BY <1>5, <1>6 DEF Reads, Compares, InFlight, HasReply, Seen
<1>8. ASSUME NEW q \in Procs
      PROVE  /\ file'.last \notin Seen(proc[q])
             /\ HasReply(c[q]) => HasReply(proc[q]) /\ proc[q].reply.at \notin Shown(file')
             /\ c[q] \in Calls /\ c[q].reply = proc[q].reply /\ Seen(c[q]) = Seen(proc[q])
             /\ Reads(c[q]) /\ Compares(c[q], file')
  <2>1. CASE q = p
    BY <1>5, <1>6, <1>7, <2>1
  <2>2. CASE q # p
    <3>1. proc[q] \in Calls /\ Reads(proc[q]) /\ Compares(proc[q], file)
      BY DEF IInv, Typed
    <3>2. /\ file'.last \notin Seen(proc[q])
          /\ HasReply(proc[q]) => proc[q].reply.at \notin Shown(file')
      BY <1>1, <1>4, <2>2 DEF IInv, Fresh, HasReply, Seen
    <3> DEFINE d == c[q]
    <3>3. d = IF proc[q].pc \in InFlight THEN [proc[q] EXCEPT !.changed = TRUE] ELSE proc[q]
      BY <2>2
    <3>4. d.reply = proc[q].reply /\ d.pc = proc[q].pc
      BY <3>1, <3>3 DEF Calls
    <3>5. d \in {proc[q], [proc[q] EXCEPT !.changed = TRUE]} /\ (d = proc[q] \/ proc[q].pc \in InFlight)
      BY <3>3
    <3> HIDE DEF d, c
    <3>6. Reads(d) /\ Compares(d, file') /\ d \in Calls /\ Seen(d) = Seen(proc[q])
      BY <3>1, <3>2, <3>5, WriteIsNoticed
    <3> QED
      BY <3>2, <3>4, <3>6 DEF d, HasReply
  <2> QED
    BY <2>1, <2>2
<1>9. proc' = [q \in Procs |-> c[q]]
  BY DEF Save, Proceed, k
<1>10. issued <= issued' /\ \A a \in Shown(file') : a <= issued'
  BY <1>3, <1>4, SeenAreNumbers DEF Seen
<1> HIDE DEF c
<1>11. Writes(c)
  BY <1>3, <1>4, <1>8, <1>9, <1>10 DEF Writes
<1> QED
  BY <1>11

(* A reply is a new token's, and to the token of the second read.          *)
LEMMA RequestKeeps ==
  ASSUME IInv, NEW p \in Procs, Request(p)
  PROVE  /\ proc' \in [Procs -> Calls] /\ Known' /\ Fresh'
         /\ \A q \in Procs : Reads(proc[q])' /\ Compares(proc[q], file)'
<1> DEFINE r == proc[p].base.refresh
           n == issued + 1
<1>1. /\ proc[p] \in Calls /\ proc[p].pc = "request" /\ Reads(proc[p]) /\ Compares(proc[p], file)
      /\ issued \in Nat /\ issued' = n /\ UNCHANGED file /\ n \in Tokens /\ issued \in Tokens
  BY SeenAreNumbers, BoundsAssumption DEF Request, Answer, At, IInv, Typed, Tokens
<1>2. r \in Tokens
  BY <1>1 DEF Reads, Files
<1>3. PICK reply \in Answers(r) : Proceed(p, [proc[p] EXCEPT !.pc = "compare", !.reply = reply], FALSE)
  BY DEF Request
<1>4. /\ reply.at = n /\ reply.to = r /\ reply.access \in {None, reply.at}
      /\ reply \in Replies
  BY <1>1, <1>2 DEF Answers, Replies
<1> DEFINE k == [proc[p] EXCEPT !.pc = "compare", !.reply = reply]
<1>5. /\ k \in Calls /\ k.pc = "compare" /\ k.reply = reply /\ Seen(k) = Seen(proc[p])
      /\ k.snap = proc[p].snap /\ k.base = proc[p].base /\ k.changed = proc[p].changed
      /\ k.refreshed = proc[p].refreshed /\ k.refused = proc[p].refused
  BY <1>1, <1>4 DEF Calls, Seen
<1>6. /\ proc' \in [Procs -> Calls]
      /\ \A q \in Procs : proc'[q] = IF q = p THEN k ELSE proc[q]
  BY <1>3, <1>5 DEF Proceed, IInv, Typed
<1> HIDE DEF k
<1>7. Reads(k) /\ Compares(k, file)
  <2>1. Reads(k)
    BY <1>1, <1>4, <1>5 DEF Reads, HasReply
  <2>2. Compares(k, file)
    BY <1>1, <1>5 DEF Compares, InFlight
  <2> QED
    BY <2>1, <2>2
<1>8. ASSUME NEW q \in Procs
      PROVE  /\ proc[q].reply.at < n /\ \A a \in Seen(proc[q]) : a < n
             /\ Seen(proc'[q]) = Seen(proc[q])
  <2>1. Seen(proc'[q]) = Seen(proc[q])
    BY <1>5, <1>6
  <2> QED
    BY <1>1, <2>1, SeenAreNumbers
<1>9. \A a \in Shown(file) : a \in Nat /\ a < n
  BY <1>1, SeenAreNumbers
<1>10. \A q \in Procs : proc[q].reply.at \in Nat /\ \A a \in Seen(proc[q]) : a \in Nat
  BY SeenAreNumbers
<1> HIDE DEF n
<1>11. Known'
  <2>1. ASSUME NEW q \in Procs
        PROVE  proc'[q].reply.at <= n /\ \A a \in Seen(proc'[q]) : a <= n
    <3>1. \A a \in Seen(proc'[q]) : a <= n
      BY <1>1, <1>8, <1>10 DEF Tokens
    <3>2. proc'[q].reply.at <= n
      BY <1>1, <1>4, <1>5, <1>6, <1>8, <1>10 DEF Tokens
    <3> QED
      BY <3>1, <3>2
  <2>2. \A a \in Shown(file) : a <= n
    BY <1>1, <1>9 DEF Tokens
  <2> QED
    BY <1>1, <2>1, <2>2 DEF Known, Seen, Shown
<1>12. Fresh'
  <2>1. ASSUME NEW q \in Procs, HasReply(proc'[q]), NEW s \in Procs
        PROVE  /\ proc'[q].reply.at # None /\ proc'[q].reply.at \notin Shown(file)
               /\ proc'[q].reply.at \notin Seen(proc'[s])
               /\ s # q /\ HasReply(proc'[s]) => proc'[s].reply.at # proc'[q].reply.at
    <3>1. CASE q = p
      <4>1. proc'[q].reply.at = n
        BY <1>4, <1>5, <1>6, <3>1
      <4>2. n \in Nat /\ n # None
        BY <1>1, <1>9 DEF None, Tokens
      <4>3. n \notin Seen(proc[s]) /\ proc[s].reply.at # n
        <5>1. \A a \in Seen(proc[s]) : a \in Nat /\ a < n
          BY <1>8, <1>10
        <5>2. n \notin Seen(proc[s])
          BY <4>2, <5>1
        <5>3. proc[s].reply.at \in Nat /\ proc[s].reply.at < n
          BY <1>8, <1>10
        <5> QED
          BY <4>2, <5>2, <5>3
      <4>4. n \notin Shown(file)
        BY <1>9, <4>2
      <4> QED
        BY <1>6, <1>8, <3>1, <4>1, <4>2, <4>3, <4>4
    <3>2. CASE q # p
      <4>1. proc'[q] = proc[q] /\ HasReply(proc[q])
        BY <1>6, <2>1, <3>2
      <4>2. CASE s = p
        <5>1. proc'[s].reply.at = n
          BY <1>4, <1>5, <1>6, <4>2
        <5>2. proc[q].reply.at # n
          BY <1>1, <1>8, <1>10 DEF Tokens
        <5> QED
          BY <1>8, <4>1, <5>1, <5>2 DEF IInv, Fresh
      <4>3. CASE s # p
        BY <1>6, <1>8, <4>1, <4>3 DEF IInv, Fresh
      <4> QED
        BY <4>2, <4>3
    <3> QED
      BY <3>1, <3>2
  <2> QED
    BY <1>1, <2>1 DEF Fresh, HasReply, Seen, Shown
<1>13. ASSUME NEW q \in Procs
       PROVE  Reads(proc'[q]) /\ Compares(proc'[q], file')
  BY <1>1, <1>6, <1>7 DEF IInv
<1> QED
  BY <1>6, <1>11, <1>12, <1>13 DEF Reads, Compares

(* Some tokens the server issues never reach a file.                       *)
LEMMA RequestFailsKeeps ==
  ASSUME IInv, NEW p \in Procs, RequestFails(p)
  PROVE  /\ proc' \in [Procs -> Calls] /\ Known' /\ Fresh'
         /\ \A q \in Procs : Reads(proc[q])' /\ Compares(proc[q], file)'
<1>1. /\ UNCHANGED file /\ issued' \in {issued, issued + 1} /\ issued \in Nat
      /\ proc' = [q \in Procs |-> IF q = p THEN IdleCall ELSE proc[q]]
  BY SeenAreNumbers DEF RequestFails, Answer, End, Proceed
<1>4. /\ proc' \in [Procs -> Calls]
      /\ \A q \in Procs : proc'[q] = IF q = p THEN IdleCall ELSE proc[q]
  BY <1>1, IdleSeesNothing DEF IInv, Typed
<1>5. Known'
  <2>1. ASSUME NEW q \in Procs
        PROVE  proc'[q].reply.at <= issued' /\ \A a \in Seen(proc'[q]) : a <= issued'
    <3>1. proc[q].reply.at <= issued' /\ \A a \in Seen(proc[q]) : a <= issued'
      BY <1>1, SeenAreNumbers
    <3> QED
      BY <1>1, <1>4, <3>1, IdleSeesNothing DEF None
  <2>2. \A a \in Shown(file) : a <= issued'
    BY <1>1, SeenAreNumbers
  <2> QED
    BY <1>1, <2>1, <2>2 DEF Known, Seen, Shown
<1>6. Fresh'
  <2>1. ASSUME NEW q \in Procs, HasReply(proc'[q]), NEW s \in Procs
        PROVE  /\ proc'[q].reply.at # None /\ proc'[q].reply.at \notin Shown(file)
               /\ proc'[q].reply.at \notin Seen(proc'[s])
               /\ s # q /\ HasReply(proc'[s]) => proc'[s].reply.at # proc'[q].reply.at
    BY <1>4, <2>1, IdleSeesNothing DEF IInv, Fresh
  <2> QED
    BY <1>1, <2>1 DEF Fresh, HasReply, Seen, Shown
<1>7. ASSUME NEW q \in Procs
      PROVE  Reads(proc'[q]) /\ Compares(proc'[q], file')
  BY <1>1, <1>4, IdleSeesNothing DEF IInv
<1> QED
  BY <1>4, <1>5, <1>6, <1>7 DEF Reads, Compares

-----------------------------------------------------------------------------
LEMMA InitEstablishesIInv ==
  ASSUME Init
  PROVE  IInv
<1>1. \A p \in Procs : proc[p] = IdleCall
  BY DEF Init
<1>2. Typed
  BY IdleSeesNothing, BoundsAssumption DEF Init, Typed, Files, Tokens
<1>3. Known
  BY <1>1, IdleSeesNothing DEF Init, Known, Shown, None
<1> QED
  BY <1>1, <1>2, <1>3, IdleSeesNothing DEF IInv, Fresh

LEMMA NextKeepsIInv ==
  ASSUME IInv, [Next]_vars
  PROVE  IInv'
<1> DEFINE Kept == /\ proc' \in [Procs -> Calls] /\ Known' /\ Fresh'
                   /\ \A q \in Procs : Reads(proc[q])' /\ Compares(proc[q], file)'
<1>1. ASSUME NEW p \in Procs, NEW c, Quiet(p, c)
      PROVE  Kept
  BY <1>1, QuietKeeps
<1>2. ASSUME NEW c, Writes(c)
      PROVE  Kept
  BY <1>2, WritesKeeps
<1> HIDE DEF Kept
<1>3. ASSUME NEW p \in Procs, Start(p) \/ Step(p) \/ Crash(p)
      PROVE  Kept
  <2>1. CASE Start(p) \/ Load(p) \/ Unauthorized(p) \/ Retry(p) \/ Snapshot(p) \/ Reread(p) \/ Compare(p) \/ Reload(p)
    BY <1>1, <2>1, StepIsQuiet
  <2>2. CASE Answered(p) \/ FileFails(p) \/ Crash(p)
    BY <1>1, <2>2, EndIsQuiet DEF Answered, FileFails, Crash
  <2>3. CASE Request(p)
    BY <2>3, RequestKeeps DEF Kept
  <2>4. CASE RequestFails(p)
    BY <2>4, RequestFailsKeeps DEF Kept
  <2>5. CASE Save(p)
    BY <1>2, <2>5, SaveKeeps
  <2> QED
    BY <1>3, <2>1, <2>2, <2>3, <2>4, <2>5 DEF Step
<1>4. ASSUME CodexWrites
      PROVE  Kept
  BY <1>2, <1>4, CodexWritesKeeps
<1>5. ASSUME AccessTokensAge \/ UNCHANGED vars
      PROVE  Kept
  BY <1>5 DEF AccessTokensAge, vars, Kept, IInv, Typed, Known, Fresh, HasReply, Seen, Reads, Compares
<1>6. Kept
  BY <1>3, <1>4, <1>5 DEF Next
<1>7. /\ file \in Files /\ live \subseteq Tokens /\ issued \in Nat /\ issued \in Tokens
      /\ stale \in 0 .. issued /\ calls \in 0 .. MaxCalls
  BY DEF IInv, Typed, Tokens
<1>8. file' \in Files
  <2>1. ASSUME NEW p \in Procs, Save(p)
        PROVE  file' \in Files
    BY <2>1, SaveKeeps DEF Writes
  <2>2. CASE CodexWrites
    BY <2>2, CodexWritesKeeps DEF Writes
  <2> QED
    BY <1>7, <2>1, <2>2
       DEF Next, vars, Start, Step, Crash, AccessTokensAge, Load, Answered, Unauthorized, Retry, Snapshot, Reread,
           Request, RequestFails, Compare, FileFails, Reload
<1>9. live' \subseteq Tokens /\ issued' \in Tokens /\ issued <= issued'
  <2>1. CASE UNCHANGED <<live, issued>>
    BY <1>7, <2>1
  <2>2. ASSUME issued < MaxIssued, issued' = issued + 1, live' \subseteq live \cup {issued + 1}
        PROVE  live' \subseteq Tokens /\ issued' \in Tokens /\ issued <= issued'
    <3>1. issued + 1 \in Tokens
      BY <1>7, <2>2, BoundsAssumption DEF Tokens
    <3> QED
      BY <1>7, <2>2, <3>1
  <2>3. ASSUME NEW r, NEW reply \in Answers(r), Answer(r, reply)
        PROVE  live' \subseteq Tokens /\ issued' \in Tokens /\ issued <= issued'
    <3>1. reply.refresh \in {None, issued + 1}
      BY DEF Answers
    <3>2. live' \subseteq live \cup {issued + 1}
      BY <2>3, <3>1 DEF Answer
    <3> QED
      BY <2>2, <2>3, <3>2 DEF Answer
  <2>4. CASE CodexWrites
    BY <2>2, <2>3, <2>4 DEF CodexWrites
  <2>5. ASSUME NEW p \in Procs, Request(p) \/ RequestFails(p)
        PROVE  live' \subseteq Tokens /\ issued' \in Tokens /\ issued <= issued'
    BY <2>1, <2>3, <2>5 DEF Request, RequestFails
  <2> QED
    BY <2>1, <2>4, <2>5
       DEF Next, vars, Start, Step, Crash, AccessTokensAge, Load, Answered, Unauthorized, Retry, Snapshot,
           Reread, Compare, Save, FileFails, Reload
<1>10. stale' \in 0 .. issued'
  <2>1. stale' \in {stale, issued}
    BY DEF Next, vars, Start, Step, Crash, AccessTokensAge, CodexWrites, Load, Answered, Unauthorized, Retry, Snapshot,
           Reread, Request, RequestFails, Compare, Save, FileFails, Reload
  <2> QED
    BY <1>7, <1>9, <2>1 DEF Tokens
<1>11. calls' \in 0 .. MaxCalls
  <2>1. calls' = calls \/ (calls < MaxCalls /\ calls' = calls + 1)
    BY DEF Next, vars, Start, Step, Crash, AccessTokensAge, CodexWrites, Load, Answered, Unauthorized, Retry, Snapshot,
           Reread, Request, RequestFails, Compare, Save, FileFails, Reload
  <2> QED
    BY <1>7, <2>1, BoundsAssumption
<1> QED
  BY <1>6, <1>8, <1>9, <1>10, <1>11 DEF Kept, IInv, Typed

(* The invariant all that follows rests on.                                *)
THEOREM RefreshIInv == Spec => []IInv
BY InitEstablishesIInv, NextKeepsIInv, PTL DEF Spec

(* Token numbers, files and steps stay those there are.                    *)
THEOREM RefreshTyped == Spec => []TypeOK
<1>1. IInv => TypeOK
  BY DEF IInv, Typed, TypeOK, Calls
<1> QED
  BY <1>1, RefreshIInv, PTL

(* What is saved answers the very refresh token of the document it is      *)
(* merged into (refresh_codex_auth, load_codex_auth and                    *)
(* merge_refresh_response), for any number of processes.                   *)
THEOREM AlwaysAnswersItsSnapshot == Spec => []AnswersItsSnapshot
<1>1. IInv => AnswersItsSnapshot
  BY DEF IInv, Reads, AnswersItsSnapshot, At
<1> QED
  BY <1>1, RefreshIInv, PTL

(* The retry after a 401 presents the token refused only if the answer     *)
(* last written to the file brought none (send_with_status_policy with     *)
(* merge_refresh_response), whoever else refreshes meanwhile.              *)
THEOREM AlwaysRefusedOnlyForWantOfAnother == Spec => RefusedOnlyForWantOfAnother
<1> DEFINE A == \A p \in Procs :
                  At(p, "reload") /\ proc[p].refreshed /\ proc'[p].pc = "send" /\ proc'[p].held = proc[p].refused
                    => file.access # file.last
<1>1. ASSUME IInv, [Next]_vars
      PROVE  [A]_vars
  <2>1. SUFFICES ASSUME Next, NEW p \in Procs, At(p, "reload"), proc[p].refreshed,
                        proc'[p].pc = "send", proc'[p].held = proc[p].refused
        PROVE  file.access # file.last
    BY <1>1
  <2>2. proc[p] \in Calls /\ proc[p].pc = "reload" /\ file.last # proc[p].refused
    BY <1>1, <2>1 DEF IInv, Typed, Compares, At
  <2>3. CASE Reload(p)
    BY <2>1, <2>2, <2>3 DEF Reload, Proceed, Calls
  <2>4. CASE proc'[p].pc \in {proc[p].pc, "idle"}
    BY <2>1, <2>2, <2>4
  <2>5. ASSUME NEW q \in Procs, q # p, Start(q) \/ Step(q) \/ Crash(q)
        PROVE  proc'[p].pc = proc[p].pc
    <3>1. PICK c, wrote : Proceed(q, c, wrote)
      BY <2>5 DEF Step, Crash, Start, Load, Answered, Unauthorized, Retry, Snapshot, Reread, Request, RequestFails,
                  Compare, Save, FileFails, Reload, End, Goto
    <3> QED
      BY <2>2, <2>5, <3>1 DEF Proceed, Calls
  <2>6. CASE FileFails(p) \/ Crash(p)
    BY <2>4, <2>6 DEF FileFails, Crash, End, Proceed, IdleCall
  <2>7. CASE CodexWrites
    BY <2>2, <2>4, <2>7 DEF CodexWrites, Calls
  <2>8. CASE AccessTokensAge
    BY <2>4, <2>8 DEF AccessTokensAge
  <2>9. CASE Start(p) \/ Step(p)
    BY <2>2, <2>3, <2>6, <2>9
       DEF Start, Step, At, Load, Answered, Unauthorized, Retry, Snapshot, Reread, Request, RequestFails, Compare, Save
  <2> QED
    BY <2>1, <2>4, <2>5, <2>6, <2>7, <2>8, <2>9 DEF Next
<1> QED
  BY <1>1, RefreshIInv, PTL DEF Spec, RefusedOnlyForWantOfAnother

(* A refresh during whose request the file was written is not saved: the   *)
(* comparison of contents misses no write (refresh_codex_auth).            *)
THEOREM AlwaysAbandonsIfChanged == Spec => AbandonsIfChangedInFlight
<1> DEFINE A == \A p \in Procs : At(p, "compare") /\ proc[p].changed => proc'[p].pc # "save"
<1>1. ASSUME IInv, [Next]_vars
      PROVE  [A]_vars
  <2>1. SUFFICES ASSUME Next, NEW p \in Procs, At(p, "compare"), proc[p].changed
        PROVE  proc'[p].pc # "save"
    BY <1>1
  <2>2. proc[p] \in Calls /\ proc[p].pc = "compare" /\ file # proc[p].snap
    BY <1>1, <2>1 DEF IInv, Typed, Compares, At, InFlight
  <2>3. CASE proc'[p].pc = proc[p].pc
    BY <2>2, <2>3
  <2>4. CASE Compare(p)
    BY <2>2, <2>4 DEF Compare, Goto, Proceed, Calls
  <2>5. CASE FileFails(p) \/ Crash(p)
    BY <2>5 DEF FileFails, Crash, End, Proceed, IdleCall
  <2>6. ASSUME NEW q \in Procs, q # p, Start(q) \/ Step(q) \/ Crash(q)
        PROVE  proc'[p].pc = proc[p].pc
    <3>1. \E c : \E wrote \in BOOLEAN : Proceed(q, c, wrote)
      BY <2>6 DEF Step, Crash, Start, Load, Answered, Unauthorized, Retry, Snapshot, Reread, Request, RequestFails,
                  Compare, Save, FileFails, Reload, End, Goto
    <3>2. PICK c, wrote : Proceed(q, c, wrote)
      BY <3>1
    <3> QED
      BY <2>2, <2>6, <3>2 DEF Proceed, Calls
  <2>7. CASE CodexWrites
    BY <2>2, <2>3, <2>7 DEF CodexWrites, Calls
  <2>8. CASE AccessTokensAge
    BY <2>3, <2>8 DEF AccessTokensAge
  <2>9. CASE Start(p) \/ Step(p)
    BY <2>2, <2>4, <2>5, <2>9
       DEF Start, Step, At, Load, Answered, Unauthorized, Retry, Snapshot, Reread, Request, RequestFails, Save, Reload
  <2> QED
    BY <2>1, <2>3, <2>5, <2>6, <2>7, <2>8, <2>9 DEF Next
<1> QED
  BY <1>1, RefreshIInv, PTL DEF Spec, AbandonsIfChangedInFlight

=============================================================================
