------------------------------ MODULE Enrolling ------------------------------
(***************************************************************************)
(* Enrollment with its step-up authorization in full (src/oauth.rs): what  *)
(* Enrollment takes for one step, Authorize, is here                       *)
(*   OpenBrowser  a port is bound, the browser shows the attempt's page    *)
(*   Refuse*, TakeCode, NotFound                                           *)
(*                the listener takes one connection after another until    *)
(*                one is the browser's answer, for ten minutes at most     *)
(*   Exchange     the code is exchanged for a token, which is validated    *)
(* Whatever fails, fails as Enrollment's EnrollFails.                      *)
(*                                                                         *)
(* External: the browser, whose page may be answered long after its attempt*)
(* is over, by whatever user; and strangers that connect to the port.      *)
(*                                                                         *)
(* Abstractions.  The random state that the page returns is the attempt it *)
(* was made for.  A token is good or not; a connection says one thing.     *)
(***************************************************************************)
EXTENDS Enrollment, Sequences

CONSTANTS
  Ports,        \* CALLBACK_PORTS, in the order they are tried
  MaxStrangers  \* bound on the connections that are not the browser's

ASSUME StrangersAssumption == MaxStrangers \in Nat

NoPort == 0
PortNumbers == {Ports[i] : i \in DOMAIN Ports}

Answers == {"code", "denied"}
Strange == {"elsewhere", "broken", "silent"}
Connections ==
  [says : Answers, attempt : Attempts] \cup [says : Strange, attempt : {None}]

VARIABLES
  port,       \* where each process listens for its callback
  tabs,       \* the pages open in the browser, each with its attempt and port
  waiting,    \* the connections at each port that nobody has taken yet
  code,       \* the attempt whose code each process has
  strangers   \* the strangers' connections so far

stepUp == <<port, tabs, waiting, code, strangers>>
allVars == <<vars, stepUp>>

(* A process listens only while it waits for its callback, no two on one   *)
(* port, and connections wait only where somebody listens.                 *)
EnrollingTypeOK ==
  /\ TypeOK
  /\ port \in [Procs -> PortNumbers \cup {NoPort}]
  /\ tabs \subseteq [attempt : Attempts, port : PortNumbers]
  /\ waiting \in [PortNumbers -> Seq(Connections)]
  /\ code \in [Procs -> Attempts \cup {None}]
  /\ strangers \in 0 .. MaxStrangers
  /\ \A p \in Procs : port[p] # NoPort => At(p, "authorize") /\ code[p] = None
  /\ \A p, q \in Procs : port[p] = port[q] /\ port[p] # NoPort => p = q
  /\ \A n \in PortNumbers : waiting[n] # <<>> => \E p \in Procs : port[p] = n

EnrollingInit ==
  /\ Init
  /\ port = [p \in Procs |-> NoPort] /\ tabs = {}
  /\ waiting = [n \in PortNumbers |-> <<>>]
  /\ code = [p \in Procs |-> None] /\ strangers = 0

Listening(p) == At(p, "authorize") /\ port[p] # NoPort

Listeners == {port[p] : p \in Procs} \ {NoPort}

(* Dropping the listener closes the connections nobody took.               *)
StopListening(p) ==
  /\ waiting' = [n \in PortNumbers |-> IF n = port[p] THEN <<>> ELSE waiting[n]]
  /\ port' = [port EXCEPT ![p] = NoPort]

-----------------------------------------------------------------------------
(* The browser and the strangers: external.                                *)

(* The page of an attempt is answered once, to the port it was made for,   *)
(* where perhaps another attempt listens by now, or nobody.                *)
TabAnswers(t, answer) ==
  /\ t \in tabs /\ tabs' = tabs \ {t}
  /\ waiting' = IF t.port \in Listeners
                  THEN [waiting EXCEPT ![t.port] =
                          Append(@, [says |-> answer, attempt |-> t.attempt])]
                  ELSE waiting
  /\ UNCHANGED <<vars, port, code, strangers>>

StrangerConnects(n, what) ==
  /\ n \in Listeners /\ strangers < MaxStrangers
  /\ strangers' = strangers + 1
  /\ waiting' = [waiting EXCEPT ![n] = Append(@, [says |-> what, attempt |-> None])]
  /\ UNCHANGED <<vars, port, tabs, code>>

-----------------------------------------------------------------------------
(* request_step_up_token.                                                  *)

(* Another program, or another attempt, may have taken a port.             *)
OpenBrowser(p, elsewhere) ==
  /\ At(p, "authorize") /\ port[p] = NoPort /\ code[p] = None
  /\ \E i \in DOMAIN Ports :
       /\ Ports[i] \notin Listeners \cup elsewhere
       /\ \A j \in 1 .. i - 1 : Ports[j] \in Listeners \cup elsewhere
       /\ port' = [port EXCEPT ![p] = Ports[i]]
       /\ tabs' = tabs \cup {[attempt |-> mine[p], port |-> Ports[i]]}
  /\ UNCHANGED <<vars, waiting, code, strangers>>

(* The connection the listener is reading, or will be.                     *)
Caller(p) == Head(waiting[port[p]])

(* Both ports are taken, there is no browser, or the exchange fails, or    *)
(* gives a token that is another account's, stale or of another scope.     *)
AuthorizationFails(p) ==
  /\ At(p, "authorize") /\ port[p] = NoPort
  /\ EnrollFails(p)
  /\ code' = [code EXCEPT ![p] = None]
  /\ UNCHANGED <<port, tabs, waiting, strangers>>

(* A request for another path is answered and the wait goes on.            *)
NotFound(p) ==
  /\ Listening(p) /\ waiting[port[p]] # <<>> /\ Caller(p).says = "elsewhere"
  /\ waiting' = [waiting EXCEPT ![port[p]] = Tail(@)]
  /\ UNCHANGED <<vars, port, tabs, code, strangers>>

(* Any other request ends the wait: what is no request, a refusal, and the *)
(* answer of a page that is not this attempt's.                            *)
RefuseCallback(p) ==
  /\ Listening(p) /\ waiting[port[p]] # <<>>
  /\ \/ Caller(p).says \in {"broken", "denied"}
     \/ Caller(p).says = "code" /\ Caller(p).attempt # mine[p]
  /\ EnrollFails(p)
  /\ StopListening(p)
  /\ UNCHANGED <<tabs, code, strangers>>

(* The slip of not comparing the state.                                    *)
TakeAnyCode(p) ==
  /\ Listening(p) /\ waiting[port[p]] # <<>> /\ Caller(p).says = "code"
  /\ code' = [code EXCEPT ![p] = Caller(p).attempt]
  /\ StopListening(p)
  /\ UNCHANGED <<vars, tabs, strangers>>

TakeCode(p) ==
  /\ Listening(p) /\ waiting[port[p]] # <<>> /\ Caller(p).says = "code"
  /\ Caller(p).attempt = mine[p]
  /\ code' = [code EXCEPT ![p] = Caller(p).attempt]
  /\ StopListening(p)
  /\ UNCHANGED <<vars, tabs, strangers>>

(* The slip of a timeout around accept alone, not around the reading.      *)
TimesOutIdle(p) ==
  /\ Listening(p) /\ waiting[port[p]] = <<>>
  /\ EnrollFails(p)
  /\ StopListening(p)
  /\ UNCHANGED <<tabs, code, strangers>>

(* The slip of a timeout that ends the command instead of failing the step.*)
TimesOutForGood(p) ==
  /\ Listening(p)
  /\ OnlyGoto(p, "idle")
  /\ StopListening(p)
  /\ UNCHANGED <<tabs, code, strangers>>

(* "timed out waiting for remote-control authorization": a connection that *)
(* says nothing holds the listener up until then.                          *)
TimesOut(p) ==
  /\ Listening(p)
  /\ EnrollFails(p)
  /\ StopListening(p)
  /\ UNCHANGED <<tabs, code, strangers>>

Exchange(p) ==
  /\ code[p] # None
  /\ Authorize(p)
  /\ UNCHANGED stepUp

-----------------------------------------------------------------------------
(* The rest of Enrollment.                                                 *)

EndOf(p) == code' = [code EXCEPT ![p] = None] /\ UNCHANGED <<port, tabs, waiting, strangers>>

OtherEnrollStep(p) ==
  \/ /\ \/ Ensure(p) \/ Refresh(p) \/ AlreadyEnrolled(p) \/ Check(p)
        \/ EnrollStart(p) \/ EnrollStartFails(p) \/ CreateKey(p) \/ EnrollFinish(p)
     /\ UNCHANGED stepUp
  \/ Save(p) /\ EndOf(p)
  \/ Cleanup(p) /\ EndOf(p)
  \/ ~ At(p, "authorize") /\ EnrollFails(p) /\ UNCHANGED stepUp

(* The system closes what a dead process had open.                         *)
ProcessCrash(p) ==
  /\ Crash(p)
  /\ code' = [code EXCEPT ![p] = None]
  /\ IF port[p] = NoPort THEN UNCHANGED <<port, waiting>> ELSE StopListening(p)
  /\ UNCHANGED <<tabs, strangers>>

StepUp(p) ==
  \/ \E elsewhere \in SUBSET PortNumbers : OpenBrowser(p, elsewhere)
  \/ AuthorizationFails(p) \/ NotFound(p) \/ RefuseCallback(p) \/ TakeCode(p) \/ TimesOut(p)
  \/ Exchange(p)

EnrollingNext ==
  \/ \E p \in Enrollers : StepUp(p) \/ OtherEnrollStep(p)
  \/ \E p \in Enrollers : (StartEnroll(p) \/ StartSession(p)) /\ UNCHANGED stepUp
  \/ \E p \in Unenrollers :
       (StartUnenroll(p) \/ UnenrollSucceeds(p) \/ UnenrollFails(p)) /\ UNCHANGED stepUp
  \/ \E p \in Procs : ProcessCrash(p)
  \/ \E e \in Attempts : ServerForgets(e) /\ UNCHANGED stepUp
  \/ \E t \in tabs, answer \in Answers : TabAnswers(t, answer)
  \/ \E n \in PortNumbers, what \in Strange : StrangerConnects(n, what)

EnrollingSpec == EnrollingInit /\ [][EnrollingNext]_allVars

(* RetryingSpec's fairness, and that the timers go off: the wait and the   *)
(* exchange end, and what does not wait goes on.                           *)
FairEnrollingSpec ==
  /\ EnrollingSpec
  /\ \A p \in Unenrollers :
       /\ SF_allVars(StartUnenroll(p) /\ UNCHANGED stepUp)
       /\ SF_allVars(Load(p) /\ UNCHANGED stepUp)
       /\ SF_allVars(Revoke(p) /\ UNCHANGED stepUp)
       /\ SF_allVars(DeleteKey(p) /\ UNCHANGED stepUp)
       /\ SF_allVars(DeleteState(p) /\ UNCHANGED stepUp)
  /\ \A p \in Enrollers :
       /\ WF_allVars(TimesOut(p))
       /\ WF_allVars(Exchange(p) \/ AuthorizationFails(p))

-----------------------------------------------------------------------------
(* A process that has been authorized has been so for its own attempt: the *)
(* page of an earlier attempt, answered late on a port that is used again, *)
(* never authorizes the key of a later one.                                *)
CodeIsOwn ==
  \A p \in Enrollers :
    code[p] # None \/ pc[p] \in {"finish", "save"} => code[p] = mine[p]

(* An authorization comes to an end, whoever connects to the port and says *)
(* what or nothing, and though the page is never answered.                 *)
AuthorizationEnds ==
  \A p \in Enrollers : At(p, "authorize") ~> ~ At(p, "authorize")

(* To the rest of the identity, with its proofs, all this is no more than  *)
(* one step that succeeds or fails.                                        *)
ImplementsEnrollment == Spec
=============================================================================
