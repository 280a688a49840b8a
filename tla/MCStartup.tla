-------------------------------- MODULE MCStartup --------------------------------
(* The environments in which TLC starts the process: four that a           *)
(* deployment would have, and all that differ from one of them in one      *)
(* setting, or in two of those that are checked together.                  *)
EXTENDS Startup

MCUnprepared == "unprepared"

Nothing == [k \in Settings |-> Unset]

Deployments ==
    {Nothing,
     [Nothing EXCEPT !.protocol = "sasl_ssl", !.username = "u", !.password = "p",
                     !.tlsCAFile = "f", !.tlsCertFile = "f", !.tlsKeyFile = "f"],
     [Nothing EXCEPT !.authEnabled = TRUE, !.jwtSecret = "s", !.produceMode = "sync",
                     !.protocol = "ssl"],
     [Nothing EXCEPT !.authEnabled = TRUE, !.algorithm = "rs256", !.jwksURL = "u",
                     !.protocol = "sasl_plaintext", !.username = "u", !.password = "p",
                     !.saslMechanism = "plain"]}

Values ==
    [port |-> {0, 1, 65535, 65536, Malformed},
     requiredAcks |-> {"one", "none", "-1", "two"},
     maxBatchSize |-> {0, 1, Malformed},
     produceMode |-> {"batched", "sync", "async"},
     consumeDefaultLimit |-> {0, 1, 1001},
     consumeMaxLimit |-> {9, 10},
     consumeDefaultWait |-> {-1, 31},
     consumeMaxWait |-> {-2, 4},
     protocol |-> {"plaintext", "ssl", "sasl_plaintext", "sasl_ssl", "tls"},
     saslMechanism |-> {"scram-sha-512", "plain", "oauth"},
     username |-> {Unset, "u", MCUnprepared}, password |-> {Unset, "p", MCUnprepared},
     tlsCAFile |-> {Unset, "f"}, tlsCertFile |-> {Unset, "f"}, tlsKeyFile |-> {Unset, "f"},
     logFormat |-> {"text", "xml"},
     authEnabled |-> {FALSE, TRUE, Malformed}, algorithm |-> {"hs256", "rs256", "es256"},
     jwtSecret |-> {Unset, "s"}, publicKeyFile |-> {Unset, "f"}, jwksURL |-> {Unset, "u"}]

Changed(es, ks) == UNION {{[e EXCEPT ![k] = v] : v \in Values[k]} : e \in es, k \in ks}

Related ==
    {{"consumeDefaultWait", "consumeMaxWait"}, {"consumeDefaultLimit", "consumeMaxLimit"},
     {"port", "logFormat"},
     {"protocol", "saslMechanism"}, {"protocol", "password"}, {"username", "password"}, {"username", "saslMechanism"},
     {"tlsCAFile", "protocol"}, {"tlsCertFile", "tlsKeyFile"},
     {"authEnabled", "algorithm"}, {"algorithm", "jwtSecret"}, {"publicKeyFile", "jwksURL"},
     {"algorithm", "publicKeyFile"}}

MCEnvironments ==
    Changed(Deployments, Settings)
    \cup UNION {Changed(Changed(Deployments, ks), ks) : ks \in Related}
===============================================================================
