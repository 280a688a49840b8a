------------------------------- MODULE Lifecycle -------------------------------
(***************************************************************************)
(* The process: run() of cmd/server/main.go, with its deferred close of    *)
(* the producer, and the handlers of the HTTP server it starts and stops.  *)
(* net/http and the kafka-go Writer are external: Shutdown closes the      *)
(* listener and waits for the connections; Writer.Close refuses new writes *)
(* and waits for those in progress; SyncProducer.Close does neither.       *)
(* SIGINT and SIGTERM stop the server while NotifyContext has them, and    *)
(* kill the process before and after.                                      *)
(***************************************************************************)
EXTENDS Naturals

CONSTANT Conns         \* client connections, each with one request

VARIABLES mode,        \* the produce mode, never changed
          phase,       \* where run() is, or "killed"
          listener,    \* the goroutine of ListenAndServe
          signalled,   \* ctx is done: SIGINT or SIGTERM arrived
          producer,    \* the producer of the configured mode
          conn,        \* conn[c]: a connection and its request
          code         \* what run() returns, or was about to

vars == <<mode, phase, listener, signalled, producer, conn, code>>

Init ==
    /\ mode \in {"batched", "sync"}
    /\ phase = "init"
    /\ listener = "none"
    /\ signalled = FALSE
    /\ producer = "none"
    /\ conn = [c \in Conns |-> "none"]
    /\ code = "none"

Handling == {"handling", "writing"}
Busy(c) == conn[c] \in Handling

-------------------------------------------------------------------------------
(* run().                                                                  *)

(* StartFails of a program that does not tell.                             *)
StartFailsSilently ==
    /\ phase = "init"
    /\ phase' = "exited"
    /\ UNCHANGED <<mode, listener, signalled, producer, conn, code>>

(* The configuration or the producer cannot be made: nothing to close.     *)
StartFails ==
    /\ phase = "init"
    /\ phase' = "exited"
    /\ code' = "error"
    /\ UNCHANGED <<mode, listener, signalled, producer, conn>>

OpenProducer ==
    /\ phase = "init"
    /\ producer' = "open"
    /\ phase' = "wiring"
    /\ UNCHANGED <<mode, listener, signalled, conn, code>>

(* run() returns: what is deferred comes next.                             *)
Return(result) ==
    /\ phase' = "closing"
    /\ code' = result

(* WiringFails of a program that defers the close too late.                *)
WiringFailsLeaking ==
    /\ phase = "wiring"
    /\ phase' = "exited"
    /\ code' = "error"
    /\ UNCHANGED <<mode, listener, signalled, producer, conn>>

(* The Kafka client or the key function of the authentication fails.       *)
WiringFails ==
    /\ phase = "wiring"
    /\ Return("error")
    /\ UNCHANGED <<mode, listener, signalled, producer, conn>>

Serve ==
    /\ phase = "wiring"
    /\ phase' = "serving"
    /\ listener' = "starting"
    /\ UNCHANGED <<mode, signalled, producer, conn, code>>

(* The server fails at once or later, and no signal won the select.        *)
ServerFails ==
    /\ phase = "serving"
    /\ listener = "failed"
    /\ Return("error")
    /\ UNCHANGED <<mode, listener, signalled, producer, conn>>

(* The signal wins the select; Shutdown closes the listener.               *)
StartShutdown ==
    /\ phase = "serving"
    /\ signalled
    /\ phase' = "draining"
    /\ listener' = "closed"
    /\ UNCHANGED <<mode, signalled, producer, conn, code>>

(* ShutdownDone of a program that only waits for requests in handlers.     *)
ShutdownDoneEarly ==
    /\ phase = "draining"
    /\ \A c \in Conns : conn[c] # "writing"
    /\ Return("ok")
    /\ UNCHANGED <<mode, listener, signalled, producer, conn>>

(* Every connection is closed.                                             *)
ShutdownDone ==
    /\ phase = "draining"
    /\ \A c \in Conns : conn[c] # "open" /\ ~Busy(c)
    /\ Return("ok")
    /\ UNCHANGED <<mode, listener, signalled, producer, conn>>

(* ShutdownTimesOut of a program that passes no deadline to Shutdown.      *)
ShutdownNeverTimesOut == FALSE /\ UNCHANGED vars

(* KRA_SERVER_SHUTDOWN_TIMEOUT is over; the handlers go on.                *)
ShutdownTimesOut ==
    /\ phase = "draining"
    /\ Return("error")
    /\ UNCHANGED <<mode, listener, signalled, producer, conn>>

(* BeginClose of a program that closes the producer on the signal.         *)
BeginCloseOnSignal ==
    /\ phase = "closing" \/ phase = "draining"
    /\ producer = "open"
    /\ producer' = "closing"
    /\ UNCHANGED <<mode, phase, listener, signalled, conn, code>>

(* The deferred closeProducer.                                             *)
BeginClose ==
    /\ phase = "closing"
    /\ producer = "open"
    /\ producer' = "closing"
    /\ UNCHANGED <<mode, phase, listener, signalled, conn, code>>

(* What the end of the process does to the requests in its handlers.       *)
Interrupted ==
    [c \in Conns |-> CASE conn[c] = "writing" -> "torn"
                       [] conn[c] = "handling" -> "cut"
                       [] OTHER -> conn[c]]

(* Exit of a program whose batched Close does not wait either.             *)
ExitAtOnce ==
    /\ phase = "closing" /\ producer = "closing"
    /\ producer' = "closed"
    /\ phase' = "exited"
    /\ conn' = Interrupted
    /\ UNCHANGED <<mode, listener, signalled, code>>

(* The close returns and the process exits, with what its goroutines do.   *)
Exit ==
    /\ phase = "closing" /\ producer = "closing"
    /\ mode = "batched" => \A c \in Conns : conn[c] # "writing"
    /\ producer' = "closed"
    /\ phase' = "exited"
    /\ conn' = Interrupted
    /\ UNCHANGED <<mode, listener, signalled, code>>

-------------------------------------------------------------------------------
(* The goroutine of ListenAndServe, and the signals.                       *)

Listen ==
    /\ phase = "serving" /\ listener = "starting"
    /\ listener' = "listening"
    /\ UNCHANGED <<mode, phase, signalled, producer, conn, code>>

(* The address is in use, or accepting fails.                              *)
ListenFails ==
    /\ phase = "serving" /\ listener \in {"starting", "listening"}
    /\ listener' = "failed"
    /\ UNCHANGED <<mode, phase, signalled, producer, conn, code>>

(* From NotifyContext until its deferred stop(): a second signal finds the *)
(* context done.                                                           *)
Signal ==
    /\ phase = "serving" /\ ~signalled
    /\ signalled' = TRUE
    /\ UNCHANGED <<mode, phase, listener, producer, conn, code>>

(* While nothing has asked for the signals, they end the process at once:  *)
(* before NotifyContext, and again after stop(), which is deferred last    *)
(* but one and so runs before the close of the producer.                   *)
Kill ==
    /\ phase \in {"init", "wiring", "closing"}
    /\ phase' = "killed"
    /\ conn' = Interrupted
    /\ UNCHANGED <<mode, listener, signalled, producer, code>>

-------------------------------------------------------------------------------
(* Connections and handlers, until the process exits.                      *)

Alive == phase \notin {"init", "exited", "killed"}

Step(c, from, to) ==
    /\ Alive
    /\ conn[c] = from
    /\ conn' = [conn EXCEPT ![c] = to]
    /\ UNCHANGED <<mode, phase, listener, signalled, producer, code>>

Connect(c) == listener = "listening" /\ Step(c, "none", "open")

(* A new connection is closed by the shutdown, or by its client.           *)
CloseUnused(c) == Step(c, "open", "closed")

(* The request of a connection arrives, also on one that was accepted      *)
(* before the shutdown.                                                    *)
Request(c) == Step(c, "open", "handling")

(* A publish reaches the producer, or finds a Writer that is closed.       *)
WriteStarts(c) ==
    /\ producer = "open" \/ mode = "sync"
    /\ Step(c, "handling", "writing")

WriteEnds(c) == Step(c, "writing", "handling")

Answer(c) == Step(c, "handling", "answered")

Next ==
    \/ StartFails \/ OpenProducer \/ WiringFails \/ Serve
    \/ ServerFails \/ StartShutdown \/ ShutdownDone \/ ShutdownTimesOut
    \/ BeginClose \/ Exit
    \/ Listen \/ ListenFails \/ Signal \/ Kill
    \/ \E c \in Conns : Connect(c) \/ CloseUnused(c) \/ Request(c)
    \/ \E c \in Conns : WriteStarts(c) \/ WriteEnds(c) \/ Answer(c)

Spec == Init /\ [][Next]_vars

(* run() goes on, the shutdown has a deadline, and so has every write      *)
(* (KRA_KAFKA_WRITE_TIMEOUT).  A handler need not finish.                  *)
FairSpec ==
    /\ Spec
    /\ WF_vars(ServerFails \/ StartShutdown)
    /\ WF_vars(ShutdownTimesOut)
    /\ WF_vars(BeginClose) /\ WF_vars(Exit)
    /\ \A c \in Conns : WF_vars(WriteEnds(c))

-------------------------------------------------------------------------------
(* Properties.                                                             *)

TypeOK ==
    /\ mode \in {"batched", "sync"}
    /\ phase \in {"init", "wiring", "serving", "draining", "closing", "exited", "killed"}
    /\ listener \in {"none", "starting", "listening", "failed", "closed"}
    /\ signalled \in BOOLEAN
    /\ producer \in {"none", "open", "closing", "closed"}
    /\ conn \in [Conns -> {"none", "open", "closed", "handling", "writing", "answered", "cut", "torn"}]
    /\ code \in {"none", "ok", "error"}
    /\ code = "none" => phase \notin {"closing", "exited"}
    /\ code # "none" => phase \in {"closing", "exited", "killed"}

(* A stop reported as clean dropped no request, not even one that arrived  *)
(* during the drain on a connection accepted before it (main.go:167-175).  *)
CleanStopAnswersAll ==
    code = "ok" => \A c \in Conns : conn[c] \in {"none", "closed", "answered"}

(* The producer is closed after the handlers are done, except on a path    *)
(* that is reported as an error (main.go:75-79: the close is deferred, so  *)
(* it comes after Shutdown).                                               *)
ProducerOutlivesHandlers ==
    producer \in {"closing", "closed"} /\ code # "error" => \A c \in Conns : ~Busy(c)

(* No way out of run() leaves a producer open (main.go:75-79), unless the  *)
(* process is killed.                                                      *)
EveryExitClosesProducer == phase = "exited" => producer # "open"

(* "Close flushes any in-flight messages" (writer.go:132): in batched mode *)
(* run() never exits in the middle of a write.  Only a signal that arrives *)
(* during the close ends one, as stop() is deferred after the close of the *)
(* producer and so runs before it (main.go:75, :150), and only after a     *)
(* stop that is an error: a clean one leaves nothing to flush.             *)
NoWriteTorn ==
    mode = "batched" =>
        \A c \in Conns : conn[c] = "torn" => phase = "killed" /\ code = "error"

(* A signal stops the process, also with handlers that never return.       *)
SignalStops == signalled ~> phase \in {"exited", "killed"}
===============================================================================
