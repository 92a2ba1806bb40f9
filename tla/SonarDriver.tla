------------------------------ MODULE SonarDriver ------------------------------
(***************************************************************************)
(* oculus::SonarDriver (src/SonarDriver.cpp): what the driver believes the *)
(* configuration of the sonar to be, lastConfig_.  User threads send       *)
(* configurations and wait for feedback, the thread Io handles messages    *)
(* and reconnections; all of them read and write lastConfig_ with no lock. *)
(*                                                                         *)
(* A configuration is its ping rate and its other parameters: only those   *)
(* come back in a ping (the rescaling of the gain in master mode 2 undoes  *)
(* the sonar's, so par is the configuration in the driver's units).  The   *)
(* code compares parameters with tolerances, through an unqualified abs    *)
(* that may be the integer one (utils.h:135-138): what passes for equal is *)
(* a constant, Near, in general not transitive, so that a value may drift. *)
(* A wait for the next message is what SingleShot promises.                *)
(***************************************************************************)
EXTENDS Naturals, Sequences

CONSTANTS Users, Io,       \* user threads, and the thread of the io_service
          ActiveRates,     \* ping rates but pingRateStandby
          Standby,         \* pingRateStandby
          Normal,          \* pingRateNormal
          Params,          \* values of the other parameters
          DefaultPar,      \* those of default_ping_config()
          Near,            \* pairs that config_changed does not tell apart
          Matching,        \* pairs, asked and reported, that a request accepts
          MaxCount,        \* maxCount of request_ping_config
          MaxInFlight,     \* bound: messages on the wire, each way
          MaxCalls,        \* bound: calls made by one user thread
          MaxDrops         \* bound: connections lost

ASSUME IoAssumption == Io \notin Users
ASSUME RateAssumption == Standby \notin ActiveRates /\ Normal \in ActiveRates
ASSUME ParamsAssumption == DefaultPar \in Params
ASSUME NearAssumption ==
  Near \subseteq Params \X Params /\ \A p \in Params : <<p, p>> \in Near
ASSUME MatchingAssumption == Matching \subseteq Params \X Params
ASSUME BoundsAssumption ==
  /\ MaxCount \in Nat \ {0} /\ MaxInFlight \in Nat /\ MaxCalls \in Nat /\ MaxDrops \in Nat

VARIABLES
  sonar,         \* the configuration the sonar has
  toSonar,       \* fire messages on the wire
  fromSonar,     \* messages on the wire to the driver
  connected,     \* connected()
  drops,         \* connections lost so far
  lastConfig,    \* lastConfig_
  lastPingRate,  \* lastPingRate_
  ioPc,          \* where handle_message is
  message,       \* the message it handles
  newConfig,     \* its local copy of the configuration
  pc,            \* where a thread is in the calls that send
  call,          \* which call it is
  request,       \* the configuration it sends
  count,         \* count of request_ping_config
  answer,        \* the feedback of its current wait, or Nothing
  calls,         \* calls made by a user thread
  heard,         \* history: the message behind its last answer
  measured,      \* history: parameters of the last ping stored
  told           \* history: parameters the configuration callbacks were last
                 \* told, at first the default

wireVars == <<sonar, toSonar, fromSonar, connected, drops>>
confVars == <<lastConfig, lastPingRate>>
ioVars   == <<ioPc, message, newConfig, measured, told>>
userVars == <<pc, call, request, count, answer, calls, heard>>
vars == <<wireVars, confVars, ioVars, userVars>>

Threads == Users \union {Io}
Rates == ActiveRates \union {Standby}
Configs == [rate : Rates, par : Params]
DefaultConfig == [rate |-> Normal, par |-> DefaultPar]

Ping(p) == [kind |-> "ping", par |-> p]
Dummy == [kind |-> "dummy", par |-> DefaultPar]
Other == [kind |-> "other", par |-> DefaultPar]       \* any other message id
Nothing == [kind |-> "none", par |-> DefaultPar]
Messages == {Ping(p) : p \in Params} \union {Dummy, Other}

Answers == [kind : {"ping", "dummy", "other"}, par : Params] \union {Nothing}

TypeOK ==
  /\ sonar \in Configs
  /\ toSonar \in Seq(Configs) /\ fromSonar \in Seq(Messages)
  /\ connected \in BOOLEAN /\ drops \in 0 .. MaxDrops
  /\ lastConfig \in Configs /\ lastPingRate \in Rates
  /\ ioPc \in {"idle", "parsed", "stored"}
  /\ message \in Messages \union {Nothing}
  /\ newConfig \in Configs /\ measured \in Params /\ told \in Params
  /\ pc \in [Threads -> {"out", "send", "save", "keep", "ask", "wait"}]
  /\ call \in [Threads -> {"none", "send", "standby", "resume", "request", "current"}]
  /\ request \in [Threads -> Configs]
  /\ count \in [Threads -> 0 .. MaxCount - 1]
  /\ answer \in [Threads -> Answers] /\ heard \in [Threads -> Answers]
  /\ calls \in [Threads -> 0 .. MaxCalls]

Init ==
  /\ sonar \in Configs
  /\ toSonar = << >> /\ fromSonar = << >>
  /\ connected = FALSE /\ drops = 0
  /\ lastConfig = DefaultConfig
  /\ lastPingRate = Normal
  /\ ioPc = "idle" /\ message = Nothing /\ newConfig = DefaultConfig
  /\ pc = [t \in Threads |-> "out"]
  /\ call = [t \in Threads |-> "none"]
  /\ request = [t \in Threads |-> DefaultConfig]
  /\ count = [t \in Threads |-> 0]
  /\ answer = [t \in Threads |-> Nothing]
  /\ calls = [t \in Threads |-> 0]
  /\ heard = [t \in Threads |-> Nothing]
  /\ measured = DefaultPar /\ told = DefaultPar

-------------------------------------------------------------------------------
(* The calls of a user thread.  standby and resume start from lastConfig_. *)

Begin(t, which, place, config) ==
  /\ pc[t] = "out"
  /\ calls[t] < MaxCalls
  /\ calls' = [calls EXCEPT ![t] = @ + 1]
  /\ pc' = [pc EXCEPT ![t] = place]
  /\ call' = [call EXCEPT ![t] = which]
  /\ request' = [request EXCEPT ![t] = config]
  /\ UNCHANGED <<wireVars, confVars, ioVars, count, answer, heard>>

SendPingConfig(t) == \E c \in Configs : Begin(t, "send", "send", c)
RequestPingConfig(t) == \E c \in Configs : Begin(t, "request", "send", c)
CurrentPingConfig(t) == Begin(t, "current", "ask", DefaultConfig)
GoStandby(t) == Begin(t, "standby", "send", [lastConfig EXCEPT !.rate = Standby])
Resume(t) == Begin(t, "resume", "send", [lastConfig EXCEPT !.rate = lastPingRate])

(* The call returns or throws, and its local variables are gone. *)
Return(t) ==
  /\ pc' = [pc EXCEPT ![t] = "out"]
  /\ call' = [call EXCEPT ![t] = "none"]
  /\ request' = [request EXCEPT ![t] = DefaultConfig]
  /\ count' = [count EXCEPT ![t] = 0]
  /\ answer' = [answer EXCEPT ![t] = Nothing]
  /\ heard' = [heard EXCEPT ![t] = Nothing]

(* Mutants: a try that is not counted, a test that is off by one, a send   *)
(* that saves the whole request.                                           *)
NotCounted(t) == count[t]
OneMore(n) == n <= MaxCount
WholeRequest(t) == request[t]

(* count after an unsuccessful try of request_ping_config. *)
NextCount(t) == count[t] + 1

(* while(count < maxCount) *)
TriesLeft(n) == n < MaxCount

(* An unsuccessful try: another one, which drops the feedback, or the      *)
(* assumption that all is well.                                            *)
TryFails(t) ==
  IF TriesLeft(NextCount(t))
  THEN /\ count' = [count EXCEPT ![t] = NextCount(t)]
       /\ pc' = [pc EXCEPT ![t] = "send"]
       /\ answer' = [answer EXCEPT ![t] = Nothing]
       /\ heard' = [heard EXCEPT ![t] = Nothing]
       /\ UNCHANGED <<call, request>>
  ELSE Return(t)

(* send(): the whole message is on its way.                                *)
Send(t) ==
  /\ pc[t] = "send"
  /\ connected
  /\ Len(toSonar) < MaxInFlight
  /\ toSonar' = Append(toSonar, request[t])
  /\ pc' = [pc EXCEPT ![t] = "save"]
  /\ UNCHANGED <<sonar, fromSonar, connected, drops, confVars, ioVars,
                 call, request, count, answer, calls, heard>>

(* Fewer bytes than asked were sent: none without a connection, or a part  *)
(* of the message, which the sonar is taken to make nothing of.            *)
SendShort(t) ==
  /\ pc[t] = "send"
  /\ IF call[t] = "request" THEN TryFails(t) ELSE Return(t)
  /\ UNCHANGED <<wireVars, confVars, ioVars, calls>>

(* The peer has closed the connection: send throws through the call.       *)
SendThrows(t) ==
  /\ t \in Users
  /\ pc[t] = "send"
  /\ connected
  /\ Return(t)
  /\ UNCHANGED <<wireVars, confVars, ioVars, calls>>

(* lastConfig_ as a send leaves it: only the ping rate is saved.           *)
SavedConfig(t) == [lastConfig EXCEPT !.rate = request[t].rate]

SaveRate(t) ==
  /\ pc[t] = "save"
  /\ lastConfig' = SavedConfig(t)
  /\ pc' = [pc EXCEPT ![t] = "keep"]
  /\ UNCHANGED <<wireVars, lastPingRate, ioVars, call, request, count, answer,
                 calls, heard>>

(* Both reads of lastConfig_.pingRate may see what this thread has stored  *)
(* or what another has meanwhile: the build decides whether they are made. *)
KeepRate(t) ==
  /\ pc[t] = "keep"
  /\ \E tested, kept \in {request[t].rate, lastConfig.rate} :
       lastPingRate' = IF tested # Standby THEN kept ELSE lastPingRate
  /\ IF call[t] = "request"
     THEN pc' = [pc EXCEPT ![t] = "ask"] /\ UNCHANGED <<call, request, count, answer, heard>>
     ELSE Return(t)
  /\ UNCHANGED <<wireVars, lastConfig, ioVars, calls>>

(* current_ping_config(): registers for the next message and waits.        *)
Ask(t) ==
  /\ pc[t] = "ask"
  /\ answer' = [answer EXCEPT ![t] = Nothing]
  /\ pc' = [pc EXCEPT ![t] = "wait"]
  /\ UNCHANGED <<wireVars, confVars, ioVars, call, request, count, calls, heard>>

(* check_config_feedback. *)
Fits(config, feedback) ==
  IF config.rate = Standby
  THEN feedback.kind = "dummy"
  ELSE feedback.kind = "ping" /\ <<config.par, feedback.par>> \in Matching

Answered(t) ==
  /\ pc[t] = "wait"
  /\ answer[t] # Nothing
  /\ IF call[t] = "current" \/ Fits(request[t], answer[t])
     THEN Return(t)
     ELSE TryFails(t)
  /\ UNCHANGED <<wireVars, confVars, ioVars, calls>>

(* The wait reports a timeout: current_ping_config throws, and in          *)
(* request_ping_config continue skips count++.                             *)
TimeoutThrows(t) ==
  /\ pc[t] = "wait"
  /\ call[t] = "current"
  /\ Return(t)
  /\ UNCHANGED <<wireVars, confVars, ioVars, calls>>

Timeout(t) ==
  /\ pc[t] = "wait"
  /\ call[t] = "request"
  /\ pc' = [pc EXCEPT ![t] = "send"]
  /\ UNCHANGED <<wireVars, confVars, ioVars, call, request, count, answer,
                 calls, heard>>

-------------------------------------------------------------------------------
(* The thread Io: handle_message, in three steps, and on_connect.  The copy *)
(* of lastConfig_ and the second read of its rate (166) are one step.      *)

(* Mutants: a ping that does not bring its parameters, a dummy ignored, an *)
(* update forgotten.                                                       *)
WithoutParams(m, c) == IF m.kind = "dummy" THEN [c EXCEPT !.rate = Standby] ELSE c
WithoutDummy(m, c) == IF m.kind = "ping" THEN [c EXCEPT !.par = m.par] ELSE c
NotUpdated == lastConfig

(* newConfig as the message m makes it from the configuration c.           *)
Updated(m, c) ==
  CASE m.kind = "ping"  -> [c EXCEPT !.par = m.par]
    [] m.kind = "dummy" -> [c EXCEPT !.rate = Standby]
    [] OTHER            -> c

Parse ==
  /\ ioPc = "idle" /\ pc[Io] = "out"
  /\ fromSonar # << >>
  /\ message' = Head(fromSonar)
  /\ fromSonar' = Tail(fromSonar)
  /\ newConfig' = Updated(Head(fromSonar), lastConfig)
  /\ ioPc' = "parsed"
  /\ UNCHANGED <<sonar, toSonar, connected, drops, confVars, measured, told, userVars>>

(* What handle_message assigns to lastConfig_. *)
Stored == newConfig

(* config_changed.                                                         *)
Changed(previous, next) ==
  previous.rate # next.rate \/ <<previous.par, next.par>> \notin Near

(* The configuration callbacks, which leave lastConfig_ alone, and then    *)
(* the assignment, of a change they were not told of too.                  *)
Store ==
  /\ ioPc = "parsed"
  /\ told' = IF Changed(lastConfig, newConfig) THEN newConfig.par ELSE told
  /\ lastConfig' = Stored
  /\ measured' = IF message.kind = "ping" THEN message.par ELSE measured
  /\ ioPc' = "stored"
  /\ UNCHANGED <<wireVars, lastPingRate, message, newConfig, userVars>>

(* The message callbacks: every waiting thread gets lastConfig_ with the   *)
(* header of the message.                                                  *)
Deliver ==
  /\ ioPc = "stored"
  /\ LET Waiting(t) == pc[t] = "wait" /\ answer[t] = Nothing
     IN  /\ answer' = [t \in Threads |->
              IF Waiting(t) THEN [kind |-> message.kind, par |-> lastConfig.par] ELSE answer[t]]
         /\ heard' = [t \in Threads |-> IF Waiting(t) THEN message ELSE heard[t]]
  /\ ioPc' = "idle"
  /\ message' = Nothing /\ newConfig' = DefaultConfig
  /\ UNCHANGED <<wireVars, confVars, measured, told, pc,
                 call, request, count, calls>>

(* connect_callback, and on_connect with its copy of lastConfig_.          *)
Connect ==
  /\ ~connected
  /\ ioPc = "idle" /\ pc[Io] = "out"
  /\ connected' = TRUE
  /\ pc' = [pc EXCEPT ![Io] = "send"]
  /\ call' = [call EXCEPT ![Io] = "send"]
  /\ request' = [request EXCEPT ![Io] = lastConfig]
  /\ UNCHANGED <<sonar, toSonar, fromSonar, drops, confVars, ioVars,
                 count, answer, calls, heard>>

-------------------------------------------------------------------------------
(* The sonar and the network. *)

(* The connection is lost with what is on it, and the sonar may have been  *)
(* restarted with any configuration.                                       *)
Drop ==
  /\ connected
  /\ ioPc = "idle" /\ pc[Io] = "out"
  /\ drops < MaxDrops
  /\ drops' = drops + 1
  /\ connected' = FALSE
  /\ toSonar' = << >> /\ fromSonar' = << >>
  /\ sonar' \in Configs
  /\ UNCHANGED <<confVars, ioVars, userVars>>

SonarTakes ==
  /\ toSonar # << >>
  /\ sonar' = Head(toSonar)
  /\ toSonar' = Tail(toSonar)
  /\ UNCHANGED <<fromSonar, connected, drops, confVars, ioVars, userVars>>

Report == IF sonar.rate = Standby THEN Dummy ELSE Ping(sonar.par)

SonarSends(m) ==
  /\ connected
  /\ Len(fromSonar) < MaxInFlight
  /\ fromSonar' = Append(fromSonar, m)
  /\ UNCHANGED <<sonar, toSonar, connected, drops, confVars, ioVars, userVars>>

-------------------------------------------------------------------------------
HandleMessage == Parse \/ Store \/ Deliver

SendStep(t) == Send(t) \/ SendShort(t) \/ SendThrows(t) \/ SaveRate(t) \/ KeepRate(t)

Next ==
  \/ \E t \in Users : \/ SendPingConfig(t) \/ RequestPingConfig(t) \/ CurrentPingConfig(t)
                      \/ GoStandby(t) \/ Resume(t)
                      \/ Ask(t) \/ Answered(t) \/ Timeout(t) \/ TimeoutThrows(t)
  \/ \E t \in Threads : SendStep(t)
  \/ HandleMessage
  \/ Connect
  \/ Drop
  \/ SonarTakes
  \/ SonarSends(Report) \/ SonarSends(Other)

Spec == Init /\ [][Next]_vars

(* Threads run, the sonar obeys and reports, and SonarClient connects.     *)
(* From some point on messages come faster than the 5 s of a wait.         *)
Fairness ==
  /\ \A t \in Threads : WF_vars(SendStep(t)) /\ WF_vars(Ask(t)) /\ WF_vars(Answered(t))
  /\ WF_vars(HandleMessage) /\ WF_vars(Connect)
  /\ WF_vars(SonarTakes) /\ SF_vars(SonarSends(Report))

NoLateMessages == <>[][\A t \in Users : ~Timeout(t)]_vars

FairSpec == Spec /\ Fairness /\ NoLateMessages

-------------------------------------------------------------------------------
(* A feedback that request_ping_config accepts comes from a message        *)
(* handled while it waited, and that message reported the requested        *)
(* parameters, whatever other threads did to lastConfig_ (77-83, 187-191). *)
ConfirmedMeansReported ==
  \A t \in Users :
    pc[t] = "wait" /\ Fits(request[t], answer[t]) => Fits(request[t], heard[t])

(* The parameters the driver keeps, and gives back to the sonar when it    *)
(* reconnects, are those of the last ping: no update is lost, and no       *)
(* request that was sent but never fired gets into them (56, 148-153,      *)
(* 187).                                                                   *)
ParamsAreMeasured ==
  /\ lastConfig.par = measured
  /\ pc[Io] = "send" => request[Io].par = measured

(* Why a feedback can be trusted: between the update and the callbacks     *)
(* nobody changes the parameters.                                          *)
FeedbackInv ==
  /\ ioPc = "parsed" =>
       newConfig.par = IF message.kind = "ping" THEN message.par ELSE measured
  /\ ioPc = "stored" /\ message.kind = "ping" => message.par = measured
  /\ ioPc # "idle" => message \in Messages
  /\ \A t \in Users :
       /\ pc[t] = "wait" /\ answer[t] # Nothing =>
            /\ answer[t].kind = heard[t].kind
            /\ heard[t].kind = "ping" => answer[t].par = heard[t].par

(* The parameters of lastConfig_ are the register of the abstract          *)
(* specification, whoever else stores into lastConfig_ meanwhile.          *)
Register == INSTANCE ParameterRegister WITH
  value    <- lastConfig.par,
  reported <- IF ioPc = "parsed" /\ message.kind = "ping" THEN {message.par} ELSE {},
  greeting <- IF pc[Io] = "send" THEN {request[Io].par} ELSE {},
  waiting  <- {t \in Users : pc[t] = "wait"},
  given    <- [t \in Users |->
                 IF pc[t] = "wait" /\ answer[t] # Nothing THEN {answer[t].par} ELSE {}]

ImplementsRegister == Register!Spec

(* A request for a configuration ends, confirmed or not, whatever the      *)
(* other threads send meanwhile (99-112).                                  *)
RequestsEnd == \A t \in Users : pc[t] # "out" ~> pc[t] = "out"

(* Once nobody changes the sonar any more the driver knows that it is in   *)
(* standby, or the parameters it fires with: lost updates are repaired.    *)
StandbyIsLearned ==
  <>[](sonar.rate = Standby) => <>[](lastConfig.rate = Standby)

ParamsAreLearned ==
  \A p \in Params :
    <>[](sonar.rate # Standby /\ sonar.par = p) => <>[](lastConfig.par = p)

-------------------------------------------------------------------------------
(* What the sonar was last asked, on the wire or already taken. *)
Latest == IF toSonar = << >> THEN sonar ELSE toSonar[Len(toSonar)]

(* SonarDriver.cpp:54-55 says that lastConfig_ keeps a trace of the        *)
(* requested ping rate: with no send in progress, a message changes that   *)
(* rate only to what the sonar was last asked.                             *)
RequestedRateIsTraced ==
  [][ ioPc = "parsed" /\ ioPc' = "stored" /\ (\A t \in Threads : pc[t] = "out")
        => lastConfig'.rate \in {lastConfig.rate, Latest.rate} ]_vars
===============================================================================
