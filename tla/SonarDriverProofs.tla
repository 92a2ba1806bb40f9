--------------------------- MODULE SonarDriverProofs ---------------------------
(***************************************************************************)
(* Proofs about SonarDriver, for any users, rates, parameters and bounds.  *)
(*                                                                         *)
(* Everything follows from who writes the parameters of lastConfig_: only  *)
(* handle_message does, so between its copy and its update no other thread *)
(* can make the copy's parameters stale.  (It can make the rate stale:     *)
(* nothing of the kind holds of the ping rate.)  So the parameters are the *)
(* register of ParameterRegister.                                          *)
(***************************************************************************)
EXTENDS SonarDriver, TLAPS

(* on_connect and handle_message run on one thread, never both at once.    *)
IoInv == ioPc # "idle" => pc[Io] = "out"

DriverInv == TypeOK /\ IoInv /\ FeedbackInv /\ ParamsAreMeasured

-------------------------------------------------------------------------------
LEMMA DefaultTypes ==
  /\ DefaultConfig \in Configs /\ Io \in Threads /\ Users \subseteq Threads
  /\ Nothing \in Answers
  /\ \A m \in Messages : m # Nothing /\ m \in Answers /\ m.kind \in {"ping", "dummy", "other"}
  /\ 0 \in 0 .. MaxCount - 1
<1>1. 0 \in 0 .. MaxCount - 1
  BY BoundsAssumption
<1> QED
  BY <1>1, RateAssumption, ParamsAssumption
     DEF DefaultConfig, Configs, Rates, Threads, Answers, Messages, Nothing, Ping, Dummy, Other

(* What the end of a call, or of a try, leaves of the thread's variables.  *)
LEMMA ReturnType ==
  ASSUME TypeOK, NEW t \in Threads, Return(t)
  PROVE  /\ pc' \in [Threads -> {"out", "send", "save", "keep", "ask", "wait"}]
         /\ call' \in [Threads -> {"none", "send", "standby", "resume", "request", "current"}]
         /\ request' \in [Threads -> Configs]
         /\ count' \in [Threads -> 0 .. MaxCount - 1]
         /\ answer' \in [Threads -> Answers] /\ heard' \in [Threads -> Answers]
BY DefaultTypes DEF TypeOK, Return

LEMMA TryFailsType ==
  ASSUME TypeOK, NEW t \in Threads, TryFails(t)
  PROVE  /\ pc' \in [Threads -> {"out", "send", "save", "keep", "ask", "wait"}]
         /\ call' \in [Threads -> {"none", "send", "standby", "resume", "request", "current"}]
         /\ request' \in [Threads -> Configs]
         /\ count' \in [Threads -> 0 .. MaxCount - 1]
         /\ answer' \in [Threads -> Answers] /\ heard' \in [Threads -> Answers]
<1>1. CASE TriesLeft(NextCount(t))
  <2>1. NextCount(t) \in 0 .. MaxCount - 1
    BY <1>1, BoundsAssumption DEF TypeOK, TriesLeft, NextCount
  <2>2. /\ count' = [count EXCEPT ![t] = NextCount(t)]
        /\ pc' = [pc EXCEPT ![t] = "send"]
        /\ answer' = [answer EXCEPT ![t] = Nothing]
        /\ heard' = [heard EXCEPT ![t] = Nothing]
        /\ UNCHANGED <<call, request>>
    BY <1>1 DEF TryFails
  <2>3. count' \in [Threads -> 0 .. MaxCount - 1]
    BY <2>1, <2>2 DEF TypeOK
  <2> QED  BY <2>2, <2>3, DefaultTypes DEF TypeOK
<1>2. CASE ~TriesLeft(NextCount(t))
  BY <1>2, ReturnType DEF TryFails
<1> QED  BY <1>1, <1>2

(* Both leave the other threads, and what this one hears, untouched, except *)
(* that this one is no longer waiting for an answer.                        *)
LEMMA EndOfTry ==
  ASSUME TypeOK, NEW t \in Threads, Return(t) \/ TryFails(t)
  PROVE  /\ \A u \in Threads \ {t} : /\ pc'[u] = pc[u] /\ request'[u] = request[u]
                                     /\ answer'[u] = answer[u] /\ heard'[u] = heard[u]
         /\ pc'[t] \in {"out", "send"}
         /\ pc'[t] = "send" => request'[t] = request[t]
BY DEF TypeOK, Return, TryFails

LEMMA ConfigTypes ==
  ASSUME NEW c \in Configs, NEW m \in Messages
  PROVE  /\ c.rate \in Rates /\ c.par \in Params
         /\ \A r \in Rates : /\ [c EXCEPT !.rate = r] \in Configs
                             /\ [c EXCEPT !.rate = r].par = c.par
         /\ Updated(m, c) \in Configs
         /\ Updated(m, c).par = IF m.kind = "ping" THEN m.par ELSE c.par
<1>1. Standby \in Rates
  BY DEF Rates
<1>2. m.kind = "ping" => m.par \in Params
  BY DEF Messages, Ping, Dummy, Other
<1> QED  BY <1>1, <1>2 DEF Configs, Updated

-------------------------------------------------------------------------------
LEMMA TypeStep ==
  ASSUME TypeOK, IoInv, FeedbackInv, [Next]_vars
  PROVE  TypeOK'
<1> USE DEF TypeOK
<1>1. CASE UNCHANGED vars
  BY <1>1 DEF vars, wireVars, confVars, ioVars, userVars
<1>2. ASSUME NEW t \in Users, NEW which \in {"send", "standby", "resume", "request", "current"},
             NEW place \in {"send", "ask"}, NEW config \in Configs,
             Begin(t, which, place, config)
      PROVE  TypeOK'
  <2>1. calls' \in [Threads -> 0 .. MaxCalls]
    BY <1>2, DefaultTypes, BoundsAssumption DEF Begin
  <2> QED  BY <1>2, <2>1, DefaultTypes DEF Begin, wireVars, confVars, ioVars
<1>3. ASSUME NEW t \in Users,
             SendPingConfig(t) \/ RequestPingConfig(t) \/ CurrentPingConfig(t)
             \/ GoStandby(t) \/ Resume(t)
      PROVE  TypeOK'
  <2>1. \A r \in Rates : [lastConfig EXCEPT !.rate = r] \in Configs
    BY DEF Configs
  <2>2. Standby \in Rates
    BY DEF Rates
  <2> QED
    BY <1>2, <1>3, <2>1, <2>2, DefaultTypes DEF SendPingConfig, RequestPingConfig, CurrentPingConfig,
         GoStandby, Resume
<1>4. ASSUME NEW t \in Threads, Send(t)
      PROVE  TypeOK'
  BY <1>4 DEF Send, confVars, ioVars
<1>5. ASSUME NEW t \in Threads, SendShort(t) \/ SendThrows(t) \/ Answered(t) \/ TimeoutThrows(t)
      PROVE  TypeOK'
  <2>1. Return(t) \/ TryFails(t)
    BY <1>5 DEF SendShort, SendThrows, Answered, TimeoutThrows
  <2>2. UNCHANGED <<wireVars, confVars, ioVars, calls>>
    BY <1>5 DEF SendShort, SendThrows, Answered, TimeoutThrows
  <2> QED
    BY <2>1, <2>2, ReturnType, TryFailsType DEF wireVars, confVars, ioVars
<1>6. ASSUME NEW t \in Threads, SaveRate(t)
      PROVE  TypeOK'
  <2>1. lastConfig' \in Configs
    BY <1>6 DEF SaveRate, SavedConfig, Configs
  <2> QED  BY <1>6, <2>1 DEF SaveRate, wireVars, ioVars
<1>7. ASSUME NEW t \in Threads, KeepRate(t)
      PROVE  TypeOK'
  <2>1. request[t].rate \in Rates /\ lastConfig.rate \in Rates
    BY DEF Configs
  <2>2. lastPingRate' \in Rates
    BY <1>7, <2>1 DEF KeepRate
  <2>3. CASE call[t] = "request"
    BY <1>7, <2>2, <2>3 DEF KeepRate, wireVars, ioVars
  <2>4. CASE call[t] # "request"
    BY <1>7, <2>2, <2>4, ReturnType DEF KeepRate, wireVars, ioVars
  <2> QED  BY <2>3, <2>4
<1>8. ASSUME NEW t \in Users, Ask(t) \/ Timeout(t)
      PROVE  TypeOK'
  <2>1. UNCHANGED <<wireVars, confVars, ioVars, call, request, count, calls, heard>>
    BY <1>8 DEF Ask, Timeout
  <2>2. pc' \in [Threads -> {"out", "send", "save", "keep", "ask", "wait"}]
    BY <1>8 DEF Ask, Timeout
  <2>3. answer' \in [Threads -> Answers]
    BY <1>8, DefaultTypes DEF Ask, Timeout
  <2> QED  BY <2>1, <2>2, <2>3 DEF wireVars, confVars, ioVars
<1>9. CASE Parse
  <2>1. Head(fromSonar) \in Messages /\ Tail(fromSonar) \in Seq(Messages)
    BY <1>9 DEF Parse
  <2> QED  BY <1>9, <2>1, ConfigTypes DEF Parse, confVars, userVars
<1>11. CASE Store
  <2>1. message.kind = "ping" => message.par \in Params
    BY ParamsAssumption DEF Messages, Nothing, Ping, Dummy, Other
  <2>2. newConfig.par \in Params
    BY DEF Configs
  <2> QED  BY <1>11, <2>1, <2>2 DEF Store, Stored, wireVars, userVars
<1>12. CASE Deliver
  <2>1. message \in Messages
    BY <1>12 DEF Deliver, FeedbackInv
  <2>2. [kind |-> message.kind, par |-> lastConfig.par] \in Answers /\ message \in Answers
    BY <2>1, DefaultTypes DEF Answers, Configs
  <2>3. answer' \in [Threads -> Answers] /\ heard' \in [Threads -> Answers]
    BY <1>12, <2>2 DEF Deliver
  <2> QED  BY <1>12, <2>3, DefaultTypes DEF Deliver, wireVars, confVars
<1>13. CASE Connect
  <2>1. connected' \in BOOLEAN
    BY <1>13 DEF Connect
  <2>2. /\ pc' \in [Threads -> {"out", "send", "save", "keep", "ask", "wait"}]
        /\ call' \in [Threads -> {"none", "send", "standby", "resume", "request", "current"}]
        /\ request' \in [Threads -> Configs]
    BY <1>13, DefaultTypes DEF Connect
  <2>3. UNCHANGED <<sonar, toSonar, fromSonar, drops, confVars, ioVars,
                    count, answer, calls, heard>>
    BY <1>13 DEF Connect
  <2> QED  BY <2>1, <2>2, <2>3 DEF confVars, ioVars
<1>14. CASE Drop
  <2>1. drops' \in 0 .. MaxDrops
    BY <1>14, BoundsAssumption DEF Drop
  <2>2. toSonar' \in Seq(Configs) /\ fromSonar' \in Seq(Messages)
    BY <1>14 DEF Drop
  <2>3. sonar' \in Configs /\ connected' \in BOOLEAN
    BY <1>14 DEF Drop
  <2>4. UNCHANGED <<confVars, ioVars, userVars>>
    BY <1>14 DEF Drop
  <2> QED  BY <2>1, <2>2, <2>3, <2>4 DEF confVars, ioVars, userVars
<1>15. CASE SonarTakes
  BY <1>15 DEF SonarTakes, confVars, ioVars, userVars
<1>16. CASE SonarSends(Report) \/ SonarSends(Other)
  <2>1. Report \in Messages /\ Other \in Messages
    BY DEF Report, Messages, Configs, Dummy
  <2> PICK m \in Messages : SonarSends(m)
    BY <1>16, <2>1
  <2>2. fromSonar' \in Seq(Messages)
    BY DEF SonarSends
  <2>3. UNCHANGED <<sonar, toSonar, connected, drops, confVars, ioVars, userVars>>
    BY DEF SonarSends
  <2> QED  BY <2>2, <2>3 DEF confVars, ioVars, userVars
<1> QED
  BY <1>1, <1>3, <1>4, <1>5, <1>6, <1>7, <1>8, <1>9, <1>11, <1>12, <1>13,
     <1>14, <1>15, <1>16, DefaultTypes DEF Next, SendStep, HandleMessage

-------------------------------------------------------------------------------
(* Nothing but handle_message and on_connect concerns the thread Io and    *)
(* the parameters of lastConfig_.                                          *)
LEMMA MeasuredStep ==
  ASSUME TypeOK, IoInv, FeedbackInv, ParamsAreMeasured, [Next]_vars
  PROVE  IoInv' /\ ParamsAreMeasured'
<1> USE DEF TypeOK, IoInv, ParamsAreMeasured
<1> DEFINE Kept == UNCHANGED <<ioPc, measured, lastConfig, pc[Io], request[Io]>>
<1>0. Kept => IoInv' /\ ParamsAreMeasured'
  OBVIOUS
<1>1. CASE UNCHANGED vars
  BY <1>0, <1>1 DEF vars, confVars, ioVars, userVars
<1>2. ASSUME NEW t \in Users,
             \/ SendPingConfig(t) \/ RequestPingConfig(t) \/ CurrentPingConfig(t)
             \/ GoStandby(t) \/ Resume(t)
             \/ Ask(t) \/ Timeout(t)
      PROVE  Kept
  BY <1>2, IoAssumption
     DEF SendPingConfig, RequestPingConfig, CurrentPingConfig,
         GoStandby, Resume, Begin, Ask, Timeout,
         Threads, confVars, ioVars
<1>3. ASSUME NEW t \in Threads, SendShort(t) \/ SendThrows(t)
             \/ (t \in Users /\ (Answered(t) \/ TimeoutThrows(t)))
      PROVE  IoInv' /\ ParamsAreMeasured'
  <2>1. Return(t) \/ TryFails(t)
    BY <1>3 DEF SendShort, SendThrows, Answered, TimeoutThrows
  <2>2. UNCHANGED <<ioPc, measured, lastConfig>>
    BY <1>3 DEF SendShort, SendThrows, Answered, TimeoutThrows, confVars, ioVars
  <2>3. CASE t # Io
    BY <1>0, <2>1, <2>2, <2>3, EndOfTry, DefaultTypes
  <2>4. CASE t = Io
    <3>1. pc[Io] = "send"
      BY <1>3, <2>4, IoAssumption DEF SendShort, SendThrows
    <3>2. ioPc = "idle"
      BY <3>1
    <3>3. pc'[Io] = "send" => request'[Io] = request[Io]
      BY <2>1, <2>4, EndOfTry
    <3> QED  BY <2>2, <3>1, <3>2, <3>3
  <2> QED  BY <2>3, <2>4
<1>4. ASSUME NEW t \in Threads, Send(t) \/ SaveRate(t) \/ KeepRate(t)
      PROVE  IoInv' /\ ParamsAreMeasured'
  <2>1. UNCHANGED <<ioPc, measured>>
    BY <1>4 DEF Send, SaveRate, KeepRate, ioVars
  <2>2. lastConfig'.par = lastConfig.par
    BY <1>4 DEF Send, SaveRate, KeepRate, SavedConfig, Configs, confVars
  <2>3. t # Io => UNCHANGED <<pc[Io], request[Io]>>
    BY <1>4, EndOfTry, DefaultTypes DEF Send, SaveRate, KeepRate
  <2>4. t = Io => pc[Io] # "out" /\ pc'[Io] # "send"
    BY <1>4, DefaultTypes DEF Send, SaveRate, KeepRate, Return
  <2> QED  BY <2>1, <2>2, <2>3, <2>4
<1>5. CASE Parse
  BY <1>5 DEF Parse, confVars, userVars
<1>6. CASE Store
  <2>1. lastConfig'.par = measured'
    BY <1>6 DEF Store, Stored, FeedbackInv
  <2>2. pc[Io] = "out" /\ UNCHANGED pc
    BY <1>6 DEF Store, userVars
  <2> QED  BY <2>1, <2>2
<1>7. CASE Deliver
  BY <1>7 DEF Deliver, confVars
<1>8. CASE Connect
  BY <1>8, DefaultTypes DEF Connect, confVars, ioVars
<1>9. CASE Drop \/ SonarTakes \/ SonarSends(Report) \/ SonarSends(Other)
  BY <1>0, <1>9 DEF Drop, SonarTakes, SonarSends, confVars, ioVars, userVars
<1> QED
  BY <1>0, <1>1, <1>2, <1>3, <1>4, <1>5, <1>6, <1>7, <1>8, <1>9, DefaultTypes
     DEF Next, SendStep, HandleMessage

(* What a waiting thread has been told agrees with the message behind it.  *)
LEMMA FeedbackStep ==
  ASSUME TypeOK, IoInv, FeedbackInv, ParamsAreMeasured, [Next]_vars
  PROVE  FeedbackInv'
<1> DEFINE Handling ==
             /\ ioPc = "parsed" =>
                  newConfig.par = IF message.kind = "ping" THEN message.par ELSE measured
             /\ ioPc = "stored" /\ message.kind = "ping" => message.par = measured
             /\ ioPc # "idle" => message \in Messages
           Told(t) == pc[t] = "wait" /\ answer[t] # Nothing =>
                        /\ answer[t].kind = heard[t].kind
                        /\ heard[t].kind = "ping" => answer[t].par = heard[t].par
<1>1. FeedbackInv <=> Handling /\ \A t \in Users : Told(t)
  BY DEF FeedbackInv
<1>2. UNCHANGED ioVars => Handling'
  BY <1>1 DEF ioVars
<1>4. UNCHANGED <<pc, answer, heard>> => \A t \in Users : Told(t)'
  BY <1>1
<1>5. ASSUME NEW t \in Threads, UNCHANGED ioVars, pc'[t] # "wait" \/ answer'[t] = Nothing,
             \A u \in Threads \ {t} : UNCHANGED <<pc[u], answer[u], heard[u]>>
      PROVE  FeedbackInv'
  <2>1. ASSUME NEW u \in Users  PROVE Told(u)'
    BY <1>1, <1>5, <2>1, DefaultTypes
  <2>2. (\A u \in Users : Told(u))' /\ Handling'
    BY <1>2, <1>5, <2>1
  <2> QED  BY <2>2 DEF FeedbackInv
<1>6. CASE UNCHANGED <<ioVars, userVars>>
  BY <1>1, <1>2, <1>4, <1>6 DEF userVars, FeedbackInv
<1>7. CASE UNCHANGED vars \/ Drop \/ SonarTakes \/ SonarSends(Report) \/ SonarSends(Other)
  BY <1>6, <1>7 DEF vars, Drop, SonarTakes, SonarSends
<1>8. ASSUME NEW t \in Users,
             SendPingConfig(t) \/ RequestPingConfig(t) \/ CurrentPingConfig(t)
             \/ GoStandby(t) \/ Resume(t)
      PROVE  FeedbackInv'
  <2>1. /\ UNCHANGED <<ioVars, answer, heard>>
        /\ \E place \in {"send", "ask"} : pc' = [pc EXCEPT ![t] = place]
    BY <1>8 DEF SendPingConfig, RequestPingConfig, CurrentPingConfig,
         GoStandby, Resume, Begin
  <2> QED  BY <1>5, <2>1, DefaultTypes DEF TypeOK
<1>9. ASSUME NEW t \in Threads, SendShort(t) \/ SendThrows(t)
             \/ (t \in Users /\ (Answered(t) \/ TimeoutThrows(t)))
      PROVE  FeedbackInv'
  <2>1. Return(t) \/ TryFails(t)
    BY <1>9 DEF SendShort, SendThrows, Answered, TimeoutThrows
  <2>2. UNCHANGED ioVars
    BY <1>9 DEF SendShort, SendThrows, Answered, TimeoutThrows
  <2> QED  BY <1>5, <2>1, <2>2, EndOfTry
<1>10. ASSUME NEW t \in Threads, Send(t) \/ SaveRate(t)
             \/ (t \in Users /\ (Ask(t) \/ Timeout(t)))
       PROVE  FeedbackInv'
  <2>1. /\ UNCHANGED <<ioVars, heard>>
        /\ \/ UNCHANGED answer /\ \E p \in {"save", "keep", "send"} : pc' = [pc EXCEPT ![t] = p]
           \/ answer' = [answer EXCEPT ![t] = Nothing] /\ pc' = [pc EXCEPT ![t] = "wait"]
    BY <1>10 DEF Send, SaveRate, Ask, Timeout
  <2> QED  BY <1>5, <2>1 DEF TypeOK
<1>11. ASSUME NEW t \in Threads, KeepRate(t)
       PROVE  FeedbackInv'
  <2>1. UNCHANGED ioVars
    BY <1>11 DEF KeepRate
  <2>2. CASE call[t] = "request"
    BY <1>5, <1>11, <2>1, <2>2 DEF KeepRate, TypeOK
  <2>3. CASE call[t] # "request"
    BY <1>5, <1>11, <2>1, <2>3, EndOfTry DEF KeepRate
  <2> QED  BY <2>2, <2>3
<1>12. CASE Parse
  <2>1. Head(fromSonar) \in Messages
    BY <1>12 DEF Parse, TypeOK
  <2>2. newConfig'.par = IF message'.kind = "ping" THEN message'.par ELSE measured
    BY <1>12, <2>1, ConfigTypes DEF Parse, TypeOK, ParamsAreMeasured
  <2>3. Handling'
    BY <1>12, <2>1, <2>2 DEF Parse
  <2> QED  BY <1>1, <1>4, <1>12, <2>3 DEF Parse, userVars, FeedbackInv
<1>14. CASE Store
  <2>1. Handling'
    BY <1>1, <1>14 DEF Store
  <2> QED  BY <1>1, <1>4, <1>14, <2>1 DEF Store, userVars, FeedbackInv
<1>15. CASE Deliver
  <2>1. message \in Messages /\ (message.kind = "ping" => message.par = lastConfig.par)
    BY <1>1, <1>15 DEF Deliver, ParamsAreMeasured
  <2>2. ASSUME NEW t \in Users  PROVE Told(t)'
    <3>1. t \in Threads /\ UNCHANGED pc
      BY <1>15, DefaultTypes DEF Deliver
    <3>2. CASE pc[t] = "wait" /\ answer[t] = Nothing
      <4>1. answer'[t] = [kind |-> message.kind, par |-> lastConfig.par] /\ heard'[t] = message
        BY <1>15, <3>1, <3>2 DEF Deliver
      <4> QED  BY <2>1, <4>1
    <3>3. CASE ~(pc[t] = "wait" /\ answer[t] = Nothing)
      <4>1. answer'[t] = answer[t] /\ heard'[t] = heard[t]
        BY <1>15, <3>1, <3>3 DEF Deliver
      <4> QED  BY <1>1, <3>1, <4>1
    <3> QED  BY <3>2, <3>3
  <2>3. Handling'
    BY <1>15 DEF Deliver
  <2>4. (\A t \in Users : Told(t))' /\ Handling'
    BY <2>2, <2>3
  <2> QED  BY <2>4 DEF FeedbackInv
<1>16. CASE Connect
  BY <1>5, <1>16, DefaultTypes DEF Connect, TypeOK
<1> QED
  BY <1>7, <1>8, <1>9, <1>10, <1>11, <1>12, <1>14, <1>15, <1>16, DefaultTypes
     DEF Next, SendStep, HandleMessage

-------------------------------------------------------------------------------
LEMMA DriverInvAlways == Spec => []DriverInv
<1>1. ASSUME Init  PROVE DriverInv
  <2>1. TypeOK
    <3>1. calls \in [Threads -> 0 .. MaxCalls] /\ drops \in 0 .. MaxDrops
      BY <1>1, BoundsAssumption DEF Init
    <3>2. lastPingRate \in Rates /\ measured \in Params /\ told \in Params
      BY <1>1, RateAssumption, ParamsAssumption DEF Init, Rates
    <3>3. /\ request \in [Threads -> Configs] /\ count \in [Threads -> 0 .. MaxCount - 1]
          /\ answer \in [Threads -> Answers] /\ heard \in [Threads -> Answers]
      BY <1>1, DefaultTypes DEF Init
    <3>4. /\ sonar \in Configs /\ lastConfig \in Configs /\ newConfig \in Configs
          /\ toSonar \in Seq(Configs) /\ fromSonar \in Seq(Messages)
          /\ ioPc = "idle" /\ message = Nothing
      BY <1>1, DefaultTypes DEF Init
    <3>5. /\ pc \in [Threads -> {"out", "send", "save", "keep", "ask", "wait"}]
          /\ call \in [Threads -> {"none", "send", "standby", "resume", "request", "current"}]
      BY <1>1 DEF Init
    <3>6. connected \in BOOLEAN
      BY <1>1, Zenon DEF Init
    <3> QED  BY <3>1, <3>2, <3>3, <3>4, <3>5, <3>6 DEF TypeOK
  <2>2. IoInv /\ FeedbackInv
    BY <1>1, DefaultTypes DEF Init, IoInv, FeedbackInv
  <2>3. ParamsAreMeasured
    BY <1>1, DefaultTypes DEF Init, ParamsAreMeasured, DefaultConfig
  <2> QED  BY <2>1, <2>2, <2>3 DEF DriverInv
<1>2. DriverInv /\ [Next]_vars => DriverInv'
  BY TypeStep, MeasuredStep, FeedbackStep DEF DriverInv
<1> QED  BY <1>1, <1>2, PTL DEF Spec

(* Every reachable state of the driver is well typed. *)
THEOREM TypeCorrect == Spec => []TypeOK
<1>1. DriverInv => TypeOK
  BY DEF DriverInv
<1> QED  BY <1>1, DriverInvAlways, PTL

(* The parameters kept, and restored on reconnection, are those of the     *)
(* last ping, whatever the user threads do.                                *)
THEOREM MeasuredCorrect == Spec => []ParamsAreMeasured
<1>1. DriverInv => ParamsAreMeasured
  BY DEF DriverInv
<1> QED  BY <1>1, DriverInvAlways, PTL

(* A feedback accepted by request_ping_config was reported by the sonar    *)
(* while the request waited.                                               *)
THEOREM FeedbackCorrect == Spec => []ConfirmedMeansReported
<1>1. DriverInv => ConfirmedMeansReported
  <2> SUFFICES ASSUME FeedbackInv, NEW t \in Users,
                      pc[t] = "wait", Fits(request[t], answer[t])
               PROVE  Fits(request[t], heard[t])
    BY DEF DriverInv, ConfirmedMeansReported
  <2>1. answer[t] # Nothing
    BY DEF Fits, Nothing
  <2> QED  BY <2>1 DEF FeedbackInv, Fits
<1> QED  BY <1>1, DriverInvAlways, PTL

(* The configuration a waiting thread compares is the one its wait heard,  *)
(* and the handler holds a message only while it works on it.              *)
THEOREM FeedbackInvariant == Spec => []FeedbackInv
<1>1. DriverInv => FeedbackInv
  BY DEF DriverInv
<1> QED  BY <1>1, DriverInvAlways, PTL

-------------------------------------------------------------------------------
(* The refinement: what the register's variables are in the driver.        *)
Reported == IF ioPc = "parsed" /\ message.kind = "ping" THEN {message.par} ELSE {}
Greeting == IF pc[Io] = "send" THEN {request[Io].par} ELSE {}
Waiting == {t \in Users : pc[t] = "wait"}
Given ==
  [t \in Users |-> IF pc[t] = "wait" /\ answer[t] # Nothing THEN {answer[t].par} ELSE {}]

(* The thread Io is idle, or it handles a message, or it greets.           *)
LEMMA IoSteps ==
  ASSUME DriverInv
  PROVE  /\ ioPc # "parsed" => Reported = {}
         /\ ioPc # "idle" => Greeting = {}
         /\ pc[Io] # "send" => Greeting = {}
BY DEF DriverInv, IoInv, Reported, Greeting

(* A thread that does not wait, before or after, gives nobody anything.    *)
LEMMA OutsideWait ==
  ASSUME NEW t \in Threads, pc[t] # "wait", pc'[t] # "wait",
         \A u \in Threads \ {t} : pc'[u] = pc[u] /\ answer'[u] = answer[u]
  PROVE  Waiting' = Waiting /\ Given' = Given
<1>1. \A u \in Users : /\ pc'[u] = "wait" <=> pc[u] = "wait"
                       /\ pc[u] = "wait" => answer'[u] = answer[u]
  BY DefaultTypes
<1>2. Waiting' = Waiting
  BY <1>1 DEF Waiting
<1>3. Given' = Given
  BY <1>1 DEF Given
<1> QED  BY <1>2, <1>3

LEMMA RegisterStill ==
  ASSUME lastConfig'.par = lastConfig.par, UNCHANGED <<told, Reported, Greeting, Waiting, Given>>
  PROVE  UNCHANGED Register!vars
BY DEF Register!vars, Reported, Greeting, Waiting, Given

(* A send stores the ping rate only, and ends the greeting if it is one.   *)
LEMMA RegisterSends ==
  ASSUME DriverInv, NEW t \in Threads, SendStep(t)
  PROVE  [Register!Next]_(Register!vars)
<1>0. TypeOK /\ pc \in [Threads -> {"out", "send", "save", "keep", "ask", "wait"}]
  BY DEF DriverInv, TypeOK
<1>1. UNCHANGED <<ioPc, message, told>>
  BY DEF SendStep, Send, SendShort, SendThrows, SaveRate, KeepRate, ioVars
<1>2. lastConfig'.par = lastConfig.par
  <2>1. lastConfig' = lastConfig \/ lastConfig' = SavedConfig(t)
    BY DEF SendStep, Send, SendShort, SendThrows, SaveRate, KeepRate, confVars
  <2>2. SavedConfig(t).par = lastConfig.par
    BY <1>0 DEF SavedConfig, TypeOK, Configs
  <2> QED  BY <2>1, <2>2
<1>3. /\ pc[t] \in {"send", "save", "keep"} /\ pc'[t] # "wait"
      /\ pc'[t] = "send" => pc[t] = "send" /\ request'[t] = request[t]
      /\ \A u \in Threads \ {t} : /\ pc'[u] = pc[u] /\ request'[u] = request[u]
                                  /\ answer'[u] = answer[u]
  <2>1. CASE Send(t) \/ SaveRate(t)
    BY <1>0, <2>1 DEF Send, SaveRate
  <2>2. CASE SendShort(t) \/ SendThrows(t)
    <3>1. pc[t] = "send" /\ (Return(t) \/ TryFails(t))
      BY <2>2 DEF SendShort, SendThrows
    <3> QED  BY <1>0, <3>1, EndOfTry
  <2>3. CASE KeepRate(t)
    <3>1. CASE call[t] = "request"
      BY <1>0, <2>3, <3>1 DEF KeepRate
    <3>2. CASE call[t] # "request"
      <4>1. pc[t] = "keep" /\ Return(t)
        BY <2>3, <3>2 DEF KeepRate
      <4> QED  BY <1>0, <4>1, EndOfTry DEF Return
    <3> QED  BY <3>1, <3>2
  <2> QED  BY <2>1, <2>2, <2>3 DEF SendStep
<1>4. Waiting' = Waiting /\ Given' = Given
  BY <1>3, OutsideWait
<1>5. Reported' = Reported
  BY <1>1 DEF Reported
<1>6. Greeting' = Greeting \/ (Greeting # {} /\ Greeting' = {})
  <2>1. CASE t = Io
    BY <1>3, <2>1 DEF Greeting
  <2>2. CASE t # Io
    BY <1>3, <2>2, DefaultTypes DEF Greeting
  <2> QED  BY <2>1, <2>2
<1>7. ASSUME Greeting # {}, Greeting' = {}
      PROVE  Register!Greeted
  BY <1>1, <1>2, <1>4, <1>5, <1>7
     DEF Register!Greeted, Reported, Greeting, Waiting, Given
<1>8. ASSUME Greeting' = Greeting
      PROVE  UNCHANGED Register!vars
  BY <1>1, <1>2, <1>4, <1>5, <1>8, RegisterStill
<1> QED  BY <1>6, <1>7, <1>8 DEF Register!Next

(* What a user does is to begin a call, to wait, or to stop waiting.       *)
LEMMA RegisterUsers ==
  ASSUME DriverInv, NEW t \in Users,
         \/ SendPingConfig(t) \/ RequestPingConfig(t) \/ CurrentPingConfig(t)
         \/ GoStandby(t) \/ Resume(t)
         \/ Ask(t) \/ Answered(t) \/ Timeout(t) \/ TimeoutThrows(t)
  PROVE  [Register!Next]_(Register!vars)
<1>0. /\ TypeOK /\ pc \in [Threads -> {"out", "send", "save", "keep", "ask", "wait"}]
      /\ answer \in [Threads -> Answers] /\ t \in Threads /\ t # Io
  BY DefaultTypes, IoAssumption DEF DriverInv, TypeOK
<1>1. UNCHANGED <<ioPc, message, told, lastConfig>>
  BY DEF SendPingConfig, RequestPingConfig, CurrentPingConfig, GoStandby, Resume, Begin,
         Ask, Answered, Timeout, TimeoutThrows, ioVars, confVars
<1>2. /\ \A u \in Threads \ {t} : /\ pc'[u] = pc[u] /\ request'[u] = request[u]
                                  /\ answer'[u] = answer[u]
      /\ \/ pc[t] # "wait" /\ pc'[t] # "wait"
         \/ pc[t] # "wait" /\ pc'[t] = "wait" /\ answer'[t] = Nothing
         \/ pc[t] = "wait" /\ pc'[t] # "wait"
  <2>1. ASSUME NEW which, NEW place \in {"send", "ask"}, NEW config, Begin(t, which, place, config)
        PROVE  /\ pc[t] # "wait" /\ pc'[t] # "wait"
               /\ \A u \in Threads \ {t} : /\ pc'[u] = pc[u] /\ request'[u] = request[u]
                                           /\ answer'[u] = answer[u]
    BY <1>0, <2>1 DEF Begin, TypeOK
  <2>2. CASE SendPingConfig(t) \/ RequestPingConfig(t) \/ CurrentPingConfig(t) \/ GoStandby(t) \/ Resume(t)
    BY <2>1, <2>2 DEF SendPingConfig, RequestPingConfig, CurrentPingConfig, GoStandby, Resume
  <2>3. CASE Ask(t) \/ Timeout(t)
    BY <1>0, <2>3 DEF Ask, Timeout
  <2>4. CASE Answered(t) \/ TimeoutThrows(t)
    <3>1. pc[t] = "wait" /\ (Return(t) \/ TryFails(t))
      BY <2>4 DEF Answered, TimeoutThrows
    <3> QED  BY <1>0, <3>1, EndOfTry
  <2> QED  BY <2>2, <2>3, <2>4
<1>3. Reported' = Reported /\ Greeting' = Greeting
  BY <1>0, <1>1, <1>2, DefaultTypes DEF Reported, Greeting
<1>4. ASSUME pc[t] # "wait", pc'[t] # "wait"
      PROVE  UNCHANGED Register!vars
  <2>1. Waiting' = Waiting /\ Given' = Given
    BY <1>0, <1>2, <1>4, OutsideWait
  <2> QED  BY <1>1, <1>3, <2>1, RegisterStill
<1>5. ASSUME pc[t] # "wait", pc'[t] = "wait", answer'[t] = Nothing
      PROVE  Register!Wait(t)
  <2>1. t \notin Waiting /\ Waiting' = Waiting \union {t}
    BY <1>0, <1>2, <1>5, DefaultTypes DEF Waiting
  <2>2. Given' = Given
    BY <1>0, <1>2, <1>5, DefaultTypes DEF Given
  <2> QED  BY <1>1, <1>3, <2>1, <2>2 DEF Register!Wait, Reported, Greeting, Waiting, Given
<1>6. ASSUME pc[t] = "wait", pc'[t] # "wait"
      PROVE  Register!Leave(t)
  <2>1. t \in Waiting /\ Waiting' = Waiting \ {t}
    BY <1>0, <1>2, <1>6, DefaultTypes DEF Waiting
  <2>2. Given' = [Given EXCEPT ![t] = {}]
    BY <1>0, <1>2, <1>6, DefaultTypes DEF Given
  <2> QED  BY <1>1, <1>3, <2>1, <2>2 DEF Register!Leave, Reported, Greeting, Waiting, Given
<1> QED  BY <1>2, <1>4, <1>5, <1>6 DEF Register!Next

(* handle_message: a ping is received and written, and a message of any    *)
(* kind gives the register to those that wait.                             *)
LEMMA RegisterParse ==
  ASSUME DriverInv, Parse
  PROVE  [Register!Next]_(Register!vars)
<1>1. /\ ioPc = "idle" /\ ioPc' = "parsed" /\ pc[Io] = "out" /\ message' = Head(fromSonar)
      /\ UNCHANGED <<told, lastConfig, pc, request, answer>>
  BY DEF Parse, confVars, userVars
<1>2. Head(fromSonar) \in Messages
  BY DEF Parse, DriverInv, TypeOK
<1>3. Reported = {} /\ Greeting = {} /\ UNCHANGED <<Greeting, Waiting, Given>>
  BY <1>1 DEF Reported, Greeting, Waiting, Given
<1>4. ASSUME message'.kind = "ping"
      PROVE  message'.par \in Params /\ Register!Receive(message'.par)
  <2>1. message'.par \in Params
    BY <1>1, <1>2, <1>4 DEF Messages, Ping, Dummy, Other
  <2>2. Reported' = {message'.par}
    BY <1>1, <1>4 DEF Reported
  <2> QED
    BY <1>1, <1>3, <2>1, <2>2 DEF Register!Receive, Reported, Greeting, Waiting, Given
<1>5. ASSUME message'.kind # "ping"
      PROVE  UNCHANGED Register!vars
  <2>1. Reported' = Reported
    BY <1>1, <1>5 DEF Reported
  <2> QED  BY <1>1, <1>3, <2>1, RegisterStill
<1> QED  BY <1>4, <1>5 DEF Register!Next

LEMMA RegisterStore ==
  ASSUME DriverInv, Store
  PROVE  [Register!Next]_(Register!vars)
<1>1. /\ ioPc = "parsed" /\ ioPc' = "stored" /\ lastConfig' = newConfig
      /\ UNCHANGED <<message, pc, request, answer>>
  BY DEF Store, Stored, userVars
<1>2. /\ message \in Messages /\ measured = lastConfig.par
      /\ newConfig.par = IF message.kind = "ping" THEN message.par ELSE lastConfig.par
  BY <1>1 DEF DriverInv, FeedbackInv, ParamsAreMeasured
<1>3. \/ told' = newConfig.par
      \/ told' = told /\ <<lastConfig.par, newConfig.par>> \in Near
  BY DEF Store, Changed
<1>4. Reported' = {} /\ UNCHANGED <<Greeting, Waiting, Given>>
  BY <1>1 DEF Reported, Greeting, Waiting, Given
<1>5. ASSUME message.kind = "ping"
      PROVE  message.par \in Params /\ Register!Write(message.par)
  <2>1. message.par \in Params
    BY <1>2, <1>5 DEF Messages, Ping, Dummy, Other
  <2>2. Reported = {message.par}
    BY <1>1, <1>5 DEF Reported
  <2>3. lastConfig'.par = message.par
    BY <1>1, <1>2, <1>5
  <2>4. told' = message.par \/ (<<lastConfig.par, message.par>> \in Near /\ told' = told)
    BY <1>2, <1>3, <1>5
  <2> QED
    BY <1>4, <2>1, <2>2, <2>3, <2>4 DEF Register!Write, Reported, Greeting, Waiting, Given
<1>6. ASSUME message.kind # "ping"
      PROVE  Register!Tell \/ UNCHANGED Register!vars
  <2>1. Reported = {} /\ Greeting = {}
    BY <1>1, <1>6, IoSteps DEF Reported
  <2>2. lastConfig'.par = lastConfig.par
    BY <1>1, <1>2, <1>6
  <2>3. CASE told' = told
    BY <1>4, <2>1, <2>2, <2>3, RegisterStill
  <2>4. CASE told' # told
    <3>1. told' = lastConfig.par
      BY <1>2, <1>3, <1>6, <2>4
    <3> QED
      BY <1>4, <2>1, <2>2, <3>1 DEF Register!Tell, Reported, Greeting, Waiting, Given
  <2> QED  BY <2>3, <2>4
<1> QED  BY <1>5, <1>6 DEF Register!Next

LEMMA RegisterDeliver ==
  ASSUME DriverInv, Deliver
  PROVE  Register!Give
<1>1. /\ ioPc = "stored" /\ ioPc' = "idle" /\ UNCHANGED <<lastConfig, told, pc, request>>
      /\ answer' = [t \in Threads |->
           IF pc[t] = "wait" /\ answer[t] = Nothing
           THEN [kind |-> message.kind, par |-> lastConfig.par] ELSE answer[t]]
  BY DEF Deliver, confVars
<1>2. Reported = {} /\ Greeting = {} /\ Reported' = {} /\ UNCHANGED <<Greeting, Waiting>>
  <2>1. Reported = {} /\ Greeting = {}
    BY <1>1, IoSteps
  <2> QED  BY <1>1, <2>1 DEF Reported, Greeting, Waiting
<1>3. [kind |-> message.kind, par |-> lastConfig.par] # Nothing
  <2>1. message.kind \in {"ping", "dummy", "other"}
    BY <1>1, DefaultTypes DEF DriverInv, FeedbackInv
  <2> QED  BY <2>1 DEF Nothing
<1>4. ASSUME NEW t \in Users
      PROVE  Given'[t] = IF t \in Waiting /\ Given[t] = {} THEN {lastConfig.par} ELSE Given[t]
  <2>1. t \in Threads /\ pc' = pc
    BY <1>1, DefaultTypes
  <2>2. CASE pc[t] = "wait" /\ answer[t] = Nothing
    <3>1. answer'[t] = [kind |-> message.kind, par |-> lastConfig.par]
      BY <1>1, <2>1, <2>2
    <3>2. Given'[t] = {lastConfig.par} /\ Given[t] = {} /\ t \in Waiting
      BY <1>3, <2>1, <2>2, <3>1 DEF Given, Waiting
    <3> QED  BY <3>2
  <2>3. CASE ~(pc[t] = "wait" /\ answer[t] = Nothing)
    <3>1. answer'[t] = answer[t]
      BY <1>1, <2>1, <2>3
    <3>2. Given'[t] = Given[t] /\ ~(t \in Waiting /\ Given[t] = {})
      BY <2>1, <2>3, <3>1 DEF Given, Waiting
    <3> QED  BY <3>2
  <2> QED  BY <2>2, <2>3
<1>5. Given' = [t \in Users |-> IF t \in Waiting /\ Given[t] = {} THEN {lastConfig.par} ELSE Given[t]]
  BY <1>4 DEF Given
<1> QED  BY <1>1, <1>2, <1>5 DEF Register!Give, Reported, Greeting, Waiting, Given

LEMMA RegisterConnect ==
  ASSUME DriverInv, Connect
  PROVE  Register!Greet
<1>1. /\ ioPc = "idle" /\ pc[Io] = "out"
      /\ pc' = [pc EXCEPT ![Io] = "send"] /\ request' = [request EXCEPT ![Io] = lastConfig]
      /\ UNCHANGED <<lastConfig, told, ioPc, message, answer>>
  BY DEF Connect, confVars, ioVars
<1>2. Io \in Threads /\ pc \in [Threads -> {"out", "send", "save", "keep", "ask", "wait"}]
      /\ request \in [Threads -> Configs]
  BY DefaultTypes DEF DriverInv, TypeOK
<1>3. pc'[Io] = "send" /\ request'[Io] = lastConfig /\ \A u \in Threads \ {Io} : pc'[u] = pc[u]
  BY <1>1, <1>2
<1>4. Greeting = {} /\ Greeting' = {lastConfig.par}
  BY <1>1, <1>3 DEF Greeting
<1>5. Waiting' = Waiting /\ Given' = Given
  BY <1>1, <1>2, <1>3, OutsideWait
<1>6. Reported = {} /\ Reported' = {}
  BY <1>1 DEF Reported
<1> QED  BY <1>1, <1>4, <1>5, <1>6 DEF Register!Greet, Reported, Greeting, Waiting, Given

LEMMA RegisterStep ==
  ASSUME DriverInv, [Next]_vars
  PROVE  [Register!Next]_(Register!vars)
<1>1. CASE UNCHANGED vars \/ Drop \/ SonarTakes \/ SonarSends(Report) \/ SonarSends(Other)
  <2>1. UNCHANGED <<lastConfig, told, ioPc, message, pc, request, answer>>
    BY <1>1 DEF vars, Drop, SonarTakes, SonarSends, confVars, ioVars, userVars
  <2>2. UNCHANGED <<Reported, Greeting, Waiting, Given>>
    BY <2>1 DEF Reported, Greeting, Waiting, Given
  <2> QED  BY <2>1, <2>2, RegisterStill
<1>2. CASE Deliver
  BY <1>2, RegisterDeliver DEF Register!Next
<1>3. CASE Connect
  BY <1>3, RegisterConnect DEF Register!Next
<1> QED
  BY <1>1, <1>2, <1>3, RegisterSends, RegisterUsers, RegisterParse, RegisterStore
     DEF Next, HandleMessage

(* In its parameters lastConfig_ is one register that only pings write,    *)
(* for any users, rates, parameters and bounds.                            *)
THEOREM DriverImplementsRegister == Spec => ImplementsRegister
<1>1. Init => Register!Init
  <2> SUFFICES ASSUME Init  PROVE Register!Init
    OBVIOUS
  <2>1. lastConfig.par = DefaultPar /\ told = DefaultPar
    BY DEF Init, DefaultConfig
  <2>2. pc[Io] = "out" /\ \A t \in Users : pc[t] = "out"
    BY DefaultTypes DEF Init
  <2>3. Reported = {} /\ Greeting = {} /\ Waiting = {} /\ Given = [t \in Users |-> {}]
    BY <2>2 DEF Init, Reported, Greeting, Waiting, Given
  <2> QED  BY <2>1, <2>3 DEF Register!Init, Reported, Greeting, Waiting, Given
<1>2. DriverInv /\ [Next]_vars => [Register!Next]_(Register!vars)
  BY RegisterStep
<1> QED
  BY <1>1, <1>2, DriverInvAlways, PTL DEF Spec, ImplementsRegister, Register!Spec
===============================================================================
