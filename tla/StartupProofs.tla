----------------------------- MODULE StartupProofs -----------------------------
(***************************************************************************)
(* Two parts.  Lifecycle, for any number of connections and both modes, by *)
(* one inductive invariant.  Then the start, for every set of environments *)
(* and connections: it is a start of Lifecycle, so what is proved there    *)
(* holds of it; what the configuration accepts fails only for a file or    *)
(* the credentials; and what serves has dropped no setting.                *)
(***************************************************************************)
EXTENDS Startup, TLAPS

(* What run() has opened and returned at each point.                       *)
RunInv ==
    /\ phase = "init" => producer = "none"
    /\ phase \in {"init", "wiring"} => listener = "none" /\ \A c \in Conns : conn[c] = "none"
    /\ phase \in {"wiring", "serving", "draining"} => producer = "open"
    /\ phase = "closing" => producer \in {"open", "closing"}
    /\ phase = "exited" => producer \in {"none", "closed"}
    /\ phase = "killed" /\ code = "none" => producer \in {"none", "open"}
    /\ phase = "draining" => listener = "closed"

(* After a clean stop no connection can begin or go on.                    *)
CleanInv ==
    code = "ok" => listener = "closed" /\ \A c \in Conns : conn[c] \in {"none", "closed", "answered"}

(* Only the end of the process ends a handler early, and in batched mode   *)
(* an exit not in the middle of a write.                                   *)
CutInv ==
    /\ phase \notin {"exited", "killed"} => \A c \in Conns : conn[c] \notin {"cut", "torn"}
    /\ NoWriteTorn

IInv == TypeOK /\ RunInv /\ CleanInv /\ CutInv

-------------------------------------------------------------------------------
(* What the connections do is a Step between two states of a connection,   *)
(* and leaves run() alone; only an open listener lets one begin.           *)
LEMMA ConnectionSteps ==
    ASSUME NEW c \in Conns,
           Connect(c) \/ CloseUnused(c) \/ Request(c)
           \/ WriteStarts(c) \/ WriteEnds(c) \/ Answer(c)
    PROVE  \E from \in {"none", "open", "handling", "writing"},
              to \in {"open", "closed", "handling", "writing", "answered"} :
                /\ Step(c, from, to)
                /\ from = "none" => listener = "listening"
  BY DEF Connect, CloseUnused, Request, WriteStarts, WriteEnds, Answer

LEMMA InitInvariant == Init => IInv
  BY DEF Init, IInv, TypeOK, RunInv, CleanInv, CutInv, NoWriteTorn

LEMMA NextInvariant == IInv /\ [Next]_vars => IInv'
<1> SUFFICES ASSUME IInv, [Next]_vars PROVE IInv'
  OBVIOUS
<1> USE DEF IInv, TypeOK, RunInv, CleanInv, CutInv, NoWriteTorn
<1>1. CASE StartFails
  BY <1>1 DEF StartFails
<1>2. CASE OpenProducer
  BY <1>2 DEF OpenProducer
<1>3. CASE WiringFails
  BY <1>3 DEF WiringFails, Return
<1>4. CASE Serve
  BY <1>4 DEF Serve
<1>5. CASE ServerFails
  BY <1>5 DEF ServerFails, Return
<1>6. CASE StartShutdown
  BY <1>6 DEF StartShutdown
<1>7. CASE ShutdownDone
  <2>1. \A c \in Conns : conn[c] \in {"none", "closed", "answered"}
    BY <1>7 DEF ShutdownDone, Busy, Handling
  <2> QED
    BY <2>1, <1>7 DEF ShutdownDone, Return
<1>8. CASE ShutdownTimesOut
  BY <1>8 DEF ShutdownTimesOut, Return
<1>9. CASE BeginClose
  BY <1>9 DEF BeginClose
<1>10. CASE Exit
  BY <1>10 DEF Exit, Interrupted
<1>11. CASE Listen
  BY <1>11 DEF Listen
<1>12. CASE ListenFails
  BY <1>12 DEF ListenFails
<1>13. CASE Signal
  BY <1>13 DEF Signal
<1>16. CASE Kill
  <2>1. \A c \in Conns : conn'[c] = "torn" => conn[c] = "writing"
    BY <1>16 DEF Kill, Interrupted
  <2>2. \A c \in Conns : conn[c] = "writing" => code = "error"
    BY <1>16 DEF Kill
  <2> QED
    BY <2>1, <2>2, <1>16 DEF Kill, Interrupted
<1>14. ASSUME NEW c \in Conns,
              Connect(c) \/ CloseUnused(c) \/ Request(c)
              \/ WriteStarts(c) \/ WriteEnds(c) \/ Answer(c)
       PROVE  IInv'
  <2>1. PICK from \in {"none", "open", "handling", "writing"},
             to \in {"open", "closed", "handling", "writing", "answered"} :
               /\ Step(c, from, to)
               /\ from = "none" => listener = "listening"
    BY <1>14, ConnectionSteps
  <2> QED
    BY <2>1 DEF Step
<1>15. CASE UNCHANGED vars
  BY <1>15 DEF vars
<1> QED
  BY <1>1, <1>2, <1>3, <1>4, <1>5, <1>6, <1>7, <1>8, <1>9, <1>10, <1>11, <1>12,
     <1>13, <1>14, <1>15, <1>16 DEF Next

LEMMA Invariance == Spec => []IInv
  BY InitInvariant, NextInvariant, PTL DEF Spec

-------------------------------------------------------------------------------
(* Type correctness of the process.                                        *)
THEOREM TypeCorrect == Spec => []TypeOK
<1>1. IInv => TypeOK
  BY DEF IInv
<1> QED
  BY <1>1, Invariance, PTL

(* A stop that run() reports as clean dropped no request (main.go:167-175).*)
THEOREM CleanStop == Spec => []CleanStopAnswersAll
<1>1. IInv => CleanStopAnswersAll
  BY DEF IInv, CleanInv, CleanStopAnswersAll
<1> QED
  BY <1>1, Invariance, PTL

(* The producer is closed after the handlers are done, or the stop is      *)
(* reported as an error (main.go:75-79).                                   *)
THEOREM ProducerOutlives == Spec => []ProducerOutlivesHandlers
<1>1. IInv => ProducerOutlivesHandlers
  BY DEF IInv, TypeOK, RunInv, CleanInv, ProducerOutlivesHandlers, Busy, Handling
<1> QED
  BY <1>1, Invariance, PTL

(* No way out of run() leaves the producer open (main.go:75-79).           *)
THEOREM ExitsClose == Spec => []EveryExitClosesProducer
<1>1. IInv => EveryExitClosesProducer
  BY DEF IInv, RunInv, EveryExitClosesProducer
<1> QED
  BY <1>1, Invariance, PTL

(* In batched mode run() never exits in the middle of a write: its Close   *)
(* waits for what is being written (writer.go:132-135).  A write is torn   *)
(* only by a signal during the close that follows an error, when stop()    *)
(* has already run (main.go:75, :150).                                     *)
THEOREM WritesComplete == Spec => []NoWriteTorn
<1>1. IInv => NoWriteTorn
  BY DEF IInv, CutInv
<1> QED
  BY <1>1, Invariance, PTL

-------------------------------------------------------------------------------
(* What an environment that Load() accepts is known to be.                 *)

LEMMA AcceptedIsValid ==
    ASSUME Load(env) = {}
    PROVE  /\ cfg.requiredAcks \in {"all", "one", "none"}
           /\ securityMistakes(cfg) = {}
           /\ authMistakes(cfg) = {}
<1>1. validate(cfg) = {}
  BY DEF Load, cfg
<1>2. "requiredAcks" \in Settings
  BY DEF Settings, Default
<1>3. /\ serverMistakes(cfg) = {}
      /\ securityMistakes(cfg) = {}
      /\ authMistakes(cfg) = {}
  BY <1>1 DEF validate
<1>4. "requiredAcks" \notin serverMistakes(cfg)
  BY <1>3
<1>5. cfg.requiredAcks \in {"all", "one", "none"}
  <2>1. ASSUME cfg.requiredAcks \notin {"all", "one", "none"}
        PROVE  "requiredAcks" \in serverMistakes(cfg)
    BY <1>2, <2>1 DEF serverMistakes
  <2> QED
    BY <1>4, <2>1
<1> QED
  BY <1>3, <1>5

LEMMA AcceptedSecurity ==
    ASSUME Load(env) = {}
    PROVE  /\ usesSASL(cfg) => cfg.saslMechanism \in {"scram-sha-256", "scram-sha-512", "plain"}
           /\ (cfg.tlsCertFile = "") <=> (cfg.tlsKeyFile = "")
<1>1. securityMistakes(cfg) = {}
  BY AcceptedIsValid
<1>2. tlsMistakes(cfg) = {}
  BY <1>1 DEF securityMistakes
<1>3. ~usesSASL(cfg) \/ cfg.saslMechanism \in {"scram-sha-256", "scram-sha-512", "plain"}
  BY <1>1 DEF securityMistakes
<1> QED
  BY <1>2, <1>3 DEF tlsMistakes

LEMMA AcceptedAuth ==
    ASSUME Load(env) = {}, cfg.authEnabled
    PROVE  /\ Verifier \in {"secret", "jwks", "publicKey"}
           /\ Verifier = "secret" => cfg.jwtSecret # ""
<1>1. /\ cfg.algorithm \in {"hs256", "rs256"}
      /\ ~(cfg.algorithm = "hs256" /\ cfg.jwtSecret = "")
  BY AcceptedIsValid DEF authMistakes
<1> QED
  BY <1>1 DEF Verifier

(* So the constructors fail for a file, or for the credentials.            *)
LEMMA AcceptedErrors ==
    ASSUME Load(env) = {}, NEW bad \in SUBSET Files
    PROVE  /\ acksErrors = {}
           /\ buildErrors(bad) \subseteq Files \cup {"credentials"}
           /\ cfg.authEnabled => keyfuncErrors(bad) \subseteq Files
<1>1. acksErrors = {}
  BY AcceptedIsValid DEF acksErrors
<1>2. mechanismErrors \subseteq {"credentials"}
  BY AcceptedSecurity DEF mechanismErrors
<1>3. buildErrors(bad) \subseteq Files \cup {"credentials"}
  BY <1>2 DEF buildErrors, tlsErrors, Files
<1>4. cfg.authEnabled => keyfuncErrors(bad) \subseteq Files
  BY AcceptedAuth DEF keyfuncErrors
<1> QED
  BY <1>1, <1>3, <1>4

-------------------------------------------------------------------------------
(* Each step of the start is a step of Lifecycle, or none.                 *)
LEMMA StepsOfLifecycle == [StartNext]_allVars => [Next]_vars
<1> SUFFICES ASSUME [StartNext]_allVars PROVE [Next]_vars
  OBVIOUS
<1>1. ASSUME NEW errors, GiveUp(errors) PROVE Next
  BY <1>1 DEF GiveUp, Next
<1>2. CASE LoadConfig
  BY <1>1, <1>2 DEF LoadConfig
<1>3. CASE NewProducer
  BY <1>1, <1>3 DEF NewProducer, Next
<1>4. ASSUME NEW l \in {"admin", "reader"}, NewClient(l) PROVE [Next]_vars
  BY <1>1, <1>4 DEF NewClient
<1>5. CASE NewKeyfunc
  BY <1>1, <1>5 DEF NewKeyfunc
<1>6. CASE SkipKeyfunc
  BY <1>6 DEF SkipKeyfunc
<1>7. CASE StartServer
  BY <1>7 DEF StartServer, Next
<1>8. CASE Run
  BY <1>8 DEF Run
<1>9. CASE Killed
  BY <1>9 DEF Killed, Next
<1>10. CASE UNCHANGED allVars
  BY <1>10 DEF allVars
<1> QED
  BY <1>2, <1>3, <1>4, <1>5, <1>6, <1>7, <1>8, <1>9, <1>10 DEF StartNext, Start

(* The start implements Lifecycle: every theorem of the first part is one *)
(* about the whole process (main.go:46-176).                               *)
THEOREM StartImplementsLifecycle == StartSpec => Spec
<1>1. StartInit => Init
  BY DEF StartInit
<1> QED
  BY <1>1, StepsOfLifecycle, PTL DEF StartSpec, Spec

(* So whatever the environment, the process stops as it should: no request *)
(* of a clean stop is dropped, the producer is closed after its users and  *)
(* on every way out of run(), and in batched mode no write is torn but by  *)
(* a signal during the close after an error (main.go, run).                *)
THEOREM WholeProcessIsSafe ==
    StartSpec => [](CleanStopAnswersAll /\ ProducerOutlivesHandlers
                    /\ EveryExitClosesProducer /\ NoWriteTorn)
  BY StartImplementsLifecycle, CleanStop, ProducerOutlives, ExitsClose, WritesComplete, PTL

-------------------------------------------------------------------------------
(* How far the start has come at each step, and what is then known.  It    *)
(* gets as far as the producer only when the environment was accepted, and *)
(* the process serves only when every part was built after that.           *)

GuardOK ==
    /\ guard # "open" <=> cfg.authEnabled
    /\ guard = "secret" => cfg.jwtSecret # ""

AllSecured == \A l \in Links : link[l] = secured

(* The steps at which the connections of l are already made.               *)
After(l) ==
    CASE l = "producer" -> {"admin", "reader", "auth", "server"}
      [] l = "admin" -> {"reader", "auth", "server"}
      [] l = "reader" -> {"auth", "server"}

PhaseInv ==
    /\ step \in {"load", "producer", "admin", "reader", "auth", "server", "done"}
    /\ step \in {"load", "producer"} => phase = "init"
    /\ step \in {"admin", "reader", "auth", "server"} => phase = "wiring"
    /\ step = "done" => phase \notin {"init", "wiring"}

BuiltInv ==
    /\ step # "done" => blame = "nothing"
    /\ step \notin {"load", "done"} => Load(env) = {}
    /\ link \in [Links -> {Plain, secured}]
    /\ \A l \in Links : step \in After(l) => link[l] = secured
    /\ step \notin {"server", "done"} => guard = "open"
    /\ step = "server" => GuardOK

ServingInv ==
    phase \in {"serving", "draining"} => Load(env) = {} /\ AllSecured /\ GuardOK

StartInv == PhaseInv /\ BuiltInv /\ ServingInv /\ StartsIfAccepted

-------------------------------------------------------------------------------
(* Nothing that is derived from the environment changes, as it does not.   *)
LEMMA SameEnvironment ==
    ASSUME env' = env
    PROVE  cfg' = cfg /\ secured' = secured /\ Load(env)' = Load(env)
  BY DEF cfg, secured, usesSASL, usesTLS

(* A process that has begun to serve does not start again.                 *)
LEMMA RunGoesOn ==
    ASSUME Next, phase \notin {"init", "wiring"}
    PROVE  /\ phase' \notin {"init", "wiring"}
           /\ phase' \in {"serving", "draining"} => phase \in {"serving", "draining"}
<1>1. ASSUME NEW c \in Conns,
             Connect(c) \/ CloseUnused(c) \/ Request(c)
             \/ WriteStarts(c) \/ WriteEnds(c) \/ Answer(c)
      PROVE  phase' = phase
  BY <1>1, ConnectionSteps DEF Step
<1>2. CASE StartFails \/ OpenProducer \/ WiringFails \/ Serve
  BY <1>2 DEF StartFails, OpenProducer, WiringFails, Serve
<1>3. CASE ServerFails \/ StartShutdown \/ ShutdownDone \/ ShutdownTimesOut
  BY <1>3 DEF ServerFails, StartShutdown, ShutdownDone, ShutdownTimesOut, Return
<1>4. CASE BeginClose \/ Exit \/ Listen \/ ListenFails \/ Signal
  BY <1>4 DEF BeginClose, Exit, Listen, ListenFails, Signal
<1>5. CASE Kill
  BY <1>5 DEF Kill
<1> QED
  BY <1>1, <1>2, <1>3, <1>4, <1>5 DEF Next

LEMMA StartInvInit == StartInit => StartInv
  BY DEF StartInit, StartInv, PhaseInv, BuiltInv, ServingInv, StartsIfAccepted,
         Init, After, Links

(* A failure, for errors that the accepted environment can explain.        *)
LEMMA GivingUp ==
    ASSUME StartInv, NEW errors, GiveUp(errors),
           \/ step = "load" /\ errors = {"config"} /\ Load(env) # {}
           \/ step # "load" /\ errors \subseteq Files \cup {"credentials"}
    PROVE  StartInv'
<1> USE DEF StartInv, PhaseInv, BuiltInv, ServingInv, GiveUp
<1>1. /\ env' = env
      /\ cfg' = cfg /\ secured' = secured /\ Load(env)' = Load(env)
  BY SameEnvironment
<1>2. step # "done" /\ phase \in {"init", "wiring"}
  BY DEF StartFails, WiringFails
<1>3. phase' \in {"closing", "exited"}
  BY DEF StartFails, WiringFails, Return
<1>4. PhaseInv' /\ ServingInv'
  BY <1>3
<1>5. BuiltInv'
  BY <1>1 DEF After, Links
<1>6. StartsIfAccepted'
  BY <1>1, <1>2 DEF StartsIfAccepted
<1> QED
  BY <1>4, <1>5, <1>6

(* A step of the start that succeeds: its part is as it was configured.    *)
(* One that fails has an error which the settings leave possible.          *)
LEMMA Loading == ASSUME StartInv, LoadConfig PROVE StartInv'
<1> USE DEF StartInv, PhaseInv, BuiltInv, ServingInv, StartsIfAccepted
<1>1. CASE Load(env) # {} /\ GiveUp({"config"})
  BY <1>1, GivingUp DEF LoadConfig
<1>2. CASE /\ Load(env) = {} /\ step' = "producer"
           /\ UNCHANGED <<vars, env, link, guard, blame>>
  <2>1. /\ secured' = secured /\ Load(env)' = Load(env)
        /\ phase' = phase /\ link' = link /\ guard' = guard /\ blame' = blame
    BY <1>2, SameEnvironment DEF vars
  <2> QED
    BY <1>2, <2>1 DEF LoadConfig, Links, After
<1> QED
  BY <1>1, <1>2 DEF LoadConfig

LEMMA Producing == ASSUME StartInv, NewProducer PROVE StartInv'
<1> USE DEF StartInv, PhaseInv, BuiltInv, ServingInv, StartsIfAccepted, Links, After
<1>1. Load(env) = {} /\ step # "load"
  BY DEF NewProducer
<1>2. PICK bad \in SUBSET Files :
        \/ GiveUp(acksErrors \cup buildErrors(bad))
        \/ /\ OpenProducer
           /\ link' = [link EXCEPT !["producer"] = secured]
           /\ step' = "admin"
           /\ UNCHANGED <<env, guard, blame>>
  BY DEF NewProducer
<1>3. CASE GiveUp(acksErrors \cup buildErrors(bad))
  <2>1. acksErrors \cup buildErrors(bad) \subseteq Files \cup {"credentials"}
    BY <1>1, AcceptedErrors
  <2> QED
    BY <1>1, <1>3, <2>1, GivingUp
<1>4. CASE ~ GiveUp(acksErrors \cup buildErrors(bad))
  <2>1. secured' = secured /\ Load(env)' = Load(env)
    BY <1>2, <1>4, SameEnvironment
  <2> QED
    BY <1>2, <1>4, <2>1 DEF NewProducer, OpenProducer
<1> QED
  BY <1>3, <1>4

LEMMA Connecting ==
    ASSUME StartInv, NEW l \in {"admin", "reader"}, NewClient(l)
    PROVE  StartInv'
<1> USE DEF StartInv, PhaseInv, BuiltInv, ServingInv, StartsIfAccepted, Links, After
<1>1. Load(env) = {} /\ step = l
  BY DEF NewClient
<1>2. PICK bad \in SUBSET Files :
        \/ GiveUp(buildErrors(bad))
        \/ /\ link' = [link EXCEPT ![l] = secured]
           /\ step' = IF l = "admin" THEN "reader" ELSE "auth"
           /\ UNCHANGED <<vars, env, guard, blame>>
  BY DEF NewClient
<1>3. CASE GiveUp(buildErrors(bad))
  BY <1>1, <1>3, AcceptedErrors, GivingUp
<1>4. CASE ~ GiveUp(buildErrors(bad))
  <2>1. secured' = secured /\ Load(env)' = Load(env) /\ phase' = phase
    BY <1>2, <1>4, SameEnvironment DEF vars
  <2> QED
    BY <1>1, <1>2, <1>4, <2>1
<1> QED
  BY <1>3, <1>4

(* The key function, or none, as the configuration says.                   *)
LEMMA Guarded ==
    ASSUME StartInv, step = "auth", step' = "server",
           UNCHANGED <<vars, env, link, blame>>,
           \/ cfg.authEnabled /\ guard' = Verifier
           \/ ~ cfg.authEnabled /\ guard' = guard
    PROVE  StartInv'
<1> USE DEF StartInv, PhaseInv, BuiltInv, ServingInv, StartsIfAccepted
<1>1. /\ cfg' = cfg /\ secured' = secured /\ Load(env)' = Load(env)
      /\ phase' = phase /\ link' = link /\ blame' = blame
  BY SameEnvironment DEF vars
<1>2. GuardOK'
  BY <1>1, AcceptedAuth DEF GuardOK
<1> QED
  BY <1>1, <1>2 DEF After, Links

LEMMA Guarding == ASSUME StartInv, NewKeyfunc \/ SkipKeyfunc PROVE StartInv'
<1>1. CASE NewKeyfunc
  <2>1. Load(env) = {} /\ step = "auth" /\ cfg.authEnabled
    BY <1>1 DEF NewKeyfunc, StartInv, BuiltInv
  <2>2. PICK bad \in SUBSET Files :
          \/ GiveUp(keyfuncErrors(bad))
          \/ /\ guard' = Verifier /\ step' = "server"
             /\ UNCHANGED <<vars, env, link, blame>>
    BY <1>1 DEF NewKeyfunc
  <2>3. CASE GiveUp(keyfuncErrors(bad))
    BY <2>1, <2>3, AcceptedErrors, GivingUp
  <2>4. CASE ~ GiveUp(keyfuncErrors(bad))
    BY <2>1, <2>2, <2>4, Guarded
  <2> QED
    BY <2>3, <2>4
<1>2. CASE SkipKeyfunc
  BY <1>2, Guarded DEF SkipKeyfunc
<1> QED
  BY <1>1, <1>2

LEMMA Starting == ASSUME StartInv, StartServer PROVE StartInv'
<1> USE DEF StartInv, PhaseInv, BuiltInv, ServingInv, StartsIfAccepted
<1>1. /\ cfg' = cfg /\ secured' = secured /\ Load(env)' = Load(env)
      /\ step = "server" /\ step' = "done" /\ phase' = "serving"
      /\ link' = link /\ blame' = blame /\ guard' = guard
  BY SameEnvironment DEF StartServer, Serve
<1>2. AllSecured' /\ GuardOK'
  BY <1>1 DEF AllSecured, GuardOK, After, Links
<1> QED
  BY <1>1, <1>2 DEF After, Links

LEMMA Running == ASSUME StartInv, Run PROVE StartInv'
<1> USE DEF StartInv, PhaseInv, BuiltInv, ServingInv, StartsIfAccepted
<1>1. /\ cfg' = cfg /\ secured' = secured /\ Load(env)' = Load(env)
      /\ step = "done" /\ step' = "done"
      /\ link' = link /\ blame' = blame /\ guard' = guard
  BY SameEnvironment DEF Run, startVars
<1>2. /\ phase' \notin {"init", "wiring"}
      /\ phase' \in {"serving", "draining"} => phase \in {"serving", "draining"}
  BY RunGoesOn DEF Run
<1>3. AllSecured' <=> AllSecured
  BY <1>1 DEF AllSecured
<1>4. GuardOK' <=> GuardOK
  BY <1>1 DEF GuardOK
<1> QED
  BY <1>1, <1>2, <1>3, <1>4 DEF After, Links

(* A signal that ends the process on its way to the server.                *)
LEMMA Dying == ASSUME StartInv, Killed PROVE StartInv'
<1>1. /\ cfg' = cfg /\ secured' = secured /\ Load(env)' = Load(env)
      /\ step # "done" /\ step' = "done" /\ phase' = "killed"
      /\ link' = link /\ blame' = blame /\ guard' = guard
  BY SameEnvironment DEF Killed, Kill
<1> QED
  BY <1>1 DEF StartInv, PhaseInv, BuiltInv, ServingInv, StartsIfAccepted, After, Links

LEMMA Unmoved == ASSUME StartInv, UNCHANGED allVars PROVE StartInv'
<1>1. /\ cfg' = cfg /\ secured' = secured /\ Load(env)' = Load(env)
      /\ step' = step /\ phase' = phase
      /\ link' = link /\ blame' = blame /\ guard' = guard
  BY SameEnvironment DEF allVars, vars, startVars
<1> QED
  BY <1>1 DEF StartInv, PhaseInv, BuiltInv, ServingInv, StartsIfAccepted,
              AllSecured, GuardOK

LEMMA StartInvNext == StartInv /\ [StartNext]_allVars => StartInv'
<1> SUFFICES ASSUME StartInv, [StartNext]_allVars PROVE StartInv'
  OBVIOUS
<1>1. CASE Start
  BY <1>1, Loading, Producing, Connecting, Guarding, Starting DEF Start
<1>2. CASE Killed \/ Run \/ UNCHANGED allVars
  BY <1>2, Dying, Running, Unmoved
<1> QED
  BY <1>1, <1>2 DEF StartNext

LEMMA StartInvariance == StartSpec => []StartInv
  BY StartInvInit, StartInvNext, PTL DEF StartSpec

(* Whatever the environment, what the start fails on is what validate()    *)
(* refused, or a file or credentials it cannot look into (config.go:177,   *)
(* writer.go:148, security.go:46, keyfunc.go:26).                          *)
THEOREM AcceptedStarts == StartSpec => []StartsIfAccepted
<1>1. StartInv => StartsIfAccepted
  BY DEF StartInv
<1> QED
  BY <1>1, StartInvariance, PTL

(* What secured() sets up is what the settings ask for, once validate()    *)
(* has refused a certificate without its key.                              *)
LEMMA SecuredAsConfigured ==
    ASSUME Load(env) = {}
    PROVE  /\ secured.sasl <=> cfg.protocol \in {"sasl_plaintext", "sasl_ssl"}
           /\ secured.tls <=> cfg.protocol \in {"ssl", "sasl_ssl"}
           /\ secured.tls /\ cfg.tlsCAFile # "" => secured.ca
           /\ secured.tls /\ {cfg.tlsCertFile, cfg.tlsKeyFile} # {""} => secured.cert
<1>1. (cfg.tlsCertFile = "") <=> (cfg.tlsKeyFile = "")
  BY AcceptedSecurity
<1>2. CASE ~usesSASL(cfg) /\ ~usesTLS
  BY <1>2 DEF secured, Plain, usesSASL, usesTLS
<1>3. CASE usesSASL(cfg) \/ usesTLS
  BY <1>1, <1>3 DEF secured, usesSASL, usesTLS
<1> QED
  BY <1>2, <1>3

(* A process that serves connects and guards as configured (security.go:   *)
(* 58-122, main.go:106-124), for every environment.                        *)
THEOREM ServingIsAsConfigured == StartSpec => []ServesAsConfigured
<1>1. StartInv => ServesAsConfigured
  <2> SUFFICES ASSUME StartInv, phase \in {"serving", "draining"}
               PROVE  ServesAsConfigured
    BY DEF ServesAsConfigured
  <2>1. Load(env) = {} /\ AllSecured /\ GuardOK
    BY DEF StartInv, ServingInv
  <2> QED
    BY <2>1, SecuredAsConfigured DEF AllSecured, GuardOK, ServesAsConfigured
<1> QED
  BY <1>1, StartInvariance, PTL
===============================================================================
