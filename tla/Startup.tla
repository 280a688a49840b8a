-------------------------------- MODULE Startup --------------------------------
(***************************************************************************)
(* How run() of cmd/server/main.go gets from the environment to a serving  *)
(* process: the configuration is loaded, then the producer, the admin      *)
(* client with its reader, and the key function of the authentication are  *)
(* built, each of which checks its settings again (internal/kafka/         *)
(* security.go, writer.go, syncproducer.go, client.go,                     *)
(* internal/middleware/keyfunc.go) and reads its files when it is built.   *)
(* A file may be good for one of them and bad for the next: somebody may   *)
(* replace it in between.  What follows is Lifecycle, whose steps of run() *)
(* these steps refine.                                                     *)
(***************************************************************************)
EXTENDS Lifecycle, Config

CONSTANTS Environments,   \* the environments a process may be started in
          Unprepared      \* a username or password that SASLprep prohibits, for SCRAM

VARIABLES env,     \* the environment of the process
          step,    \* what run() builds next, or "done"
          link,    \* link[l]: how the connections of l to the brokers are secured
          guard,   \* the verification of tokens on /topics, or "open"
          blame    \* what the start failed on

startVars == <<env, step, link, guard, blame>>
allVars == <<vars, startVars>>

cfg == Resolved(env)

Links == {"producer", "admin", "reader"}
Files == {"ca", "keypair", "publicKey"}

(* The transport and the dialer that kafka-go falls back to.               *)
Plain == [sasl |-> FALSE, tls |-> FALSE, ca |-> FALSE, cert |-> FALSE]

StartInit ==
    /\ env \in Environments
    /\ Init
    /\ cfg.produceMode = "sync" <=> mode = "sync"
    /\ step = "load"
    /\ link = [l \in Links |-> Plain]
    /\ guard = "open"
    /\ blame = "nothing"

-------------------------------------------------------------------------------
(* internal/kafka/security.go.                                             *)

usesTLS == cfg.protocol \in {"ssl", "sasl_ssl"}

mechanismErrors ==
    {e \in {"mechanism", "credentials"} :
        /\ usesSASL(cfg)
        /\ \/ /\ e = "mechanism"
              /\ cfg.saslMechanism \notin {"scram-sha-256", "scram-sha-512", "plain"}
           \/ /\ e = "credentials"
              /\ cfg.saslMechanism # "plain"
              /\ Unprepared \in {cfg.username, cfg.password}}

tlsErrors(bad) ==
    {f \in {"ca", "keypair"} \cap bad :
        /\ usesTLS
        /\ \/ f = "ca" /\ cfg.tlsCAFile # ""
           \/ f = "keypair" /\ "" \notin {cfg.tlsCertFile, cfg.tlsKeyFile}}

(* build(), when the files in bad cannot be read, or parsed.  Of several   *)
(* errors the code reports the first, the model any.                       *)
buildErrors(bad) == mechanismErrors \cup tlsErrors(bad)

(* transport() and dialer(), when nothing fails.                           *)
secured ==
    IF ~usesSASL(cfg) /\ ~usesTLS
    THEN Plain
    ELSE [sasl |-> usesSASL(cfg),
          tls |-> usesTLS,
          ca |-> usesTLS /\ cfg.tlsCAFile # "",
          cert |-> usesTLS /\ "" \notin {cfg.tlsCertFile, cfg.tlsKeyFile}]

-------------------------------------------------------------------------------
(* run(), up to the point where the server is started.                     *)

(* Some constructor fails, and run() returns its error.                    *)
GiveUp(errors) ==
    /\ errors # {}
    /\ blame' \in errors
    /\ step' = "done"
    /\ StartFails \/ WiringFails
    /\ UNCHANGED <<env, link, guard>>

LoadConfig ==
    /\ step = "load"
    /\ \/ Load(env) # {} /\ GiveUp({"config"})
       \/ /\ Load(env) = {}
          /\ step' = "producer"
          /\ UNCHANGED <<vars, env, link, guard, blame>>

(* parseRequiredAcks() of a program that has dropped a spelling.           *)
acksErrorsWithoutNone ==
    IF cfg.requiredAcks \in {"all", "-1", "one", "1", "0"} THEN {} ELSE {"acks"}

acksErrors ==
    IF cfg.requiredAcks \in {"all", "-1", "one", "1", "none", "0"} THEN {} ELSE {"acks"}

(* newProducer(): both producers parse the acks, then build a transport.   *)
NewProducer ==
    /\ step = "producer"
    /\ \E bad \in SUBSET Files :
          LET errors == acksErrors \cup buildErrors(bad)
          IN  \/ GiveUp(errors)
              \/ /\ errors = {}
                 /\ OpenProducer
                 /\ link' = [link EXCEPT !["producer"] = secured]
                 /\ step' = "admin"
                 /\ UNCHANGED <<env, guard, blame>>

(* NewClient() builds a transport, then a dialer: the files are read again *)
(* by each.                                                                *)
NewClient(l) ==
    /\ step = l
    /\ \E bad \in SUBSET Files :
          \/ GiveUp(buildErrors(bad))
          \/ /\ buildErrors(bad) = {}
             /\ link' = [link EXCEPT ![l] = secured]
             /\ step' = IF l = "admin" THEN "reader" ELSE "auth"
             /\ UNCHANGED <<vars, env, guard, blame>>

(* What NewKeyfunc() verifies tokens with: a key set is fetched on demand, *)
(* a public key is read now.                                               *)
Verifier ==
    CASE cfg.algorithm = "hs256" -> "secret"
      [] cfg.algorithm = "rs256" /\ cfg.jwksURL # "" -> "jwks"
      [] cfg.algorithm = "rs256" /\ cfg.jwksURL = "" -> "publicKey"
      [] OTHER -> "unsupported"

keyfuncErrors(bad) == {Verifier} \cap (bad \cup {"unsupported"})

NewKeyfunc ==
    /\ step = "auth" /\ cfg.authEnabled
    /\ \E bad \in SUBSET Files :
          \/ GiveUp(keyfuncErrors(bad))
          \/ /\ keyfuncErrors(bad) = {}
             /\ guard' = Verifier
             /\ step' = "server"
             /\ UNCHANGED <<vars, env, link, blame>>

SkipKeyfunc ==
    /\ step = "auth" /\ ~cfg.authEnabled
    /\ step' = "server"
    /\ UNCHANGED <<vars, env, link, guard, blame>>

StartServer ==
    /\ step = "server"
    /\ Serve
    /\ step' = "done"
    /\ UNCHANGED <<env, link, guard, blame>>

Start ==
    \/ LoadConfig
    \/ NewProducer
    \/ \E l \in {"admin", "reader"} : NewClient(l)
    \/ NewKeyfunc
    \/ SkipKeyfunc
    \/ StartServer

(* A signal before the server is started.                                  *)
Killed ==
    /\ step # "done"
    /\ Kill
    /\ step' = "done"
    /\ UNCHANGED <<env, link, guard, blame>>

(* Once the start is over, the process goes on as in Lifecycle.            *)
Run == step = "done" /\ phase # "init" /\ Next /\ UNCHANGED startVars

StartNext == Start \/ Killed \/ Run

StartSpec == StartInit /\ [][StartNext]_allVars

(* run() goes on, and stops as in Lifecycle.                               *)
FairStartSpec ==
    /\ StartSpec
    /\ WF_allVars(Start)
    /\ WF_allVars(Run /\ (ServerFails \/ StartShutdown))
    /\ WF_allVars(Run /\ ShutdownTimesOut)
    /\ WF_allVars(Run /\ BeginClose)
    /\ WF_allVars(Run /\ Exit)
    /\ \A c \in Conns : WF_allVars(Run /\ WriteEnds(c))

-------------------------------------------------------------------------------
(* Properties.                                                             *)

(* An environment is refused for what Load() finds in it; one it accepts   *)
(* fails to start only because of the contents of a file, at the time it   *)
(* is read, or of the credentials.  So validate() and the switches of the  *)
(* constructors, which repeat it (config.go:177-277, writer.go:148-159,    *)
(* security.go:46-55, keyfunc.go:26-43), agree.                            *)
StartsIfAccepted ==
    \/ blame = "nothing"
    \/ blame = "config" /\ Load(env) # {}
    \/ blame \in Files \cup {"credentials"} /\ Load(env) = {}

(* A process that serves has dropped nothing it was configured to do       *)
(* (README.md "Kafka connection", "API authentication"): all three kinds   *)
(* of connections encrypt and authenticate as the protocol says, verify    *)
(* against the CA and present the certificate that are set, although each  *)
(* part falls back to a default when it is absent (security.go:58-122);    *)
(* and /topics is guarded exactly if authentication is enabled, never with *)
(* an empty secret (main.go:106-124).                                      *)
ServesAsConfigured ==
    phase \in {"serving", "draining"} =>
        /\ \A l \in Links :
              /\ link[l].sasl <=> cfg.protocol \in {"sasl_plaintext", "sasl_ssl"}
              /\ link[l].tls <=> cfg.protocol \in {"ssl", "sasl_ssl"}
              /\ link[l].tls /\ cfg.tlsCAFile # "" => link[l].ca
              /\ link[l].tls /\ {cfg.tlsCertFile, cfg.tlsKeyFile} # {""} => link[l].cert
        /\ guard # "open" <=> cfg.authEnabled
        /\ guard = "secret" => cfg.jwtSecret # ""
===============================================================================
