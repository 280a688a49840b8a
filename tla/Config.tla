--------------------------------- MODULE Config ---------------------------------
(***************************************************************************)
(* The configuration (internal/config/config.go): how the environment is   *)
(* read, and what validate() refuses.  Names are compared without regard   *)
(* to case, so the models write them in lower case; a path, a secret or a  *)
(* URL is only told apart from "", which is what an unset one becomes.     *)
(* Waits are in seconds.  Settings that are neither validated nor chosen   *)
(* by (host, server timeouts, log level, issuer, audience) are left out;   *)
(* brokers too: an empty list is read as the default, so the check that    *)
(* there is one cannot fail.                                               *)
(***************************************************************************)
EXTENDS Integers

CONSTANTS Unset,      \* an environment variable that is absent or empty
          Malformed   \* one whose text is no integer, duration or boolean

Default ==
    [port |-> 8080, requiredAcks |-> "all", maxBatchSize |-> 10000,
     produceMode |-> "batched",
     consumeDefaultLimit |-> 10, consumeMaxLimit |-> 1000,
     consumeDefaultWait |-> 5, consumeMaxWait |-> 30,
     protocol |-> "plaintext", saslMechanism |-> "scram-sha-256",
     username |-> "", password |-> "",
     tlsCAFile |-> "", tlsCertFile |-> "", tlsKeyFile |-> "",
     logFormat |-> "json",
     authEnabled |-> FALSE, algorithm |-> "hs256",
     jwtSecret |-> "", publicKeyFile |-> "", jwksURL |-> ""]

Settings == DOMAIN Default

(* What read() of a setting adds to the reader's errors: nothing, unless   *)
(* the text does not parse.  The value is then the default.                *)
ParseErrors(env) == {k \in Settings : env[k] = Malformed}

Resolved(env) ==
    [k \in Settings |-> IF env[k] \in {Unset, Malformed} THEN Default[k] ELSE env[k]]

-------------------------------------------------------------------------------
(* validate(), as the set of what it complains about.                      *)

usesSASL(cfg) == cfg.protocol \in {"sasl_plaintext", "sasl_ssl"}

(* tlsMistakes of a program that only looks for the certificate.           *)
tlsMistakesOfKey(cfg) ==
    {k \in {"tlsKeyFile"} : cfg.tlsKeyFile # "" /\ cfg.tlsCertFile = ""}

tlsMistakes(cfg) ==
    {k \in {"tlsKeyFile"} : (cfg.tlsCertFile = "") # (cfg.tlsKeyFile = "")}

securityMistakes(cfg) ==
    IF cfg.protocol \notin {"plaintext", "ssl", "sasl_plaintext", "sasl_ssl"}
    THEN {"protocol"}
    ELSE {k \in {"saslMechanism", "username"} :
            /\ usesSASL(cfg)
            /\ \/ /\ k = "saslMechanism"
                  /\ cfg.saslMechanism \notin {"scram-sha-256", "scram-sha-512", "plain"}
               \/ k = "username" /\ "" \in {cfg.username, cfg.password}}
         \cup tlsMistakes(cfg)

authMistakes(cfg) ==
    {k \in {"algorithm", "jwtSecret", "publicKeyFile"} :
        /\ cfg.authEnabled
        /\ \/ k = "algorithm" /\ cfg.algorithm \notin {"hs256", "rs256"}
           \/ k = "jwtSecret" /\ cfg.algorithm = "hs256" /\ cfg.jwtSecret = ""
           \/ /\ k = "publicKeyFile" /\ cfg.algorithm = "rs256"
              /\ (cfg.publicKeyFile = "") = (cfg.jwksURL = "")}

serverMistakes(cfg) ==
    {k \in Settings :
        \/ k = "port" /\ cfg.port \notin 1..65535
        \/ k = "requiredAcks" /\ cfg.requiredAcks \notin {"all", "one", "none"}
        \/ k = "maxBatchSize" /\ cfg.maxBatchSize < 1
        \/ k = "produceMode" /\ cfg.produceMode \notin {"batched", "sync"}
        \/ k = "consumeDefaultLimit" /\ cfg.consumeDefaultLimit < 1
        \/ k = "consumeMaxLimit" /\ cfg.consumeMaxLimit < cfg.consumeDefaultLimit
        \/ k = "consumeMaxWait" /\ cfg.consumeMaxWait < cfg.consumeDefaultWait
        \/ k = "logFormat" /\ cfg.logFormat \notin {"json", "text"}}

validate(cfg) == serverMistakes(cfg) \cup securityMistakes(cfg) \cup authMistakes(cfg)

(* Load(): what it refuses an environment for.  Values are only validated  *)
(* when every one of them parses.                                          *)
Load(env) == IF ParseErrors(env) # {} THEN ParseErrors(env) ELSE validate(Resolved(env))
===============================================================================
