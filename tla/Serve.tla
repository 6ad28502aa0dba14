------------------------------- MODULE Serve -------------------------------
(***************************************************************************)
(* Serving and shutting down: the read loop (ServeWithLifetime, device.go),*)
(* the dispatcher and its write mutex (dispatch.go), the signal watcher    *)
(* and the deferred cleanup of run (main.go).  The goroutines are the main *)
(* one, one per request being served, and the watcher; the kernel is       *)
(* external: it queues requests, closes its side, delivers signals.        *)
(*                                                                         *)
(* A request is a number; Traffic gives its operation and transaction.     *)
(* What a handler does to the hives is in the other modules: here it only  *)
(* looks its transaction up, registers it (BEGIN) or removes it (ABORT,    *)
(* which stands for COMMIT too).                                           *)
(***************************************************************************)
EXTENDS Naturals, Sequences, FiniteSets

CONSTANTS
  Traffic,     \* Traffic[i]: [op, txn] of request i
  NoTxn,       \* the transaction of a request outside any
  MaxSignals,  \* bound: SIGTERM and SIGINT delivered to the process
  IOErrors     \* whether reads and ioctls on the open device may fail

Requests == DOMAIN Traffic
Ops == {"begin", "op", "abort", "unknown", "malformed"}
Txns == {Traffic[i].txn : i \in Requests} \ {NoTxn}
Nobody == 0

\* A BEGIN names the transaction it begins.
ASSUME ServeAssumption ==
  /\ Traffic \in Seq([op : Ops, txn : {Traffic[i].txn : i \in DOMAIN Traffic}])
  /\ \A i \in DOMAIN Traffic : Traffic[i].op = "begin" => Traffic[i].txn # NoTxn
  /\ MaxSignals \in Nat /\ IOErrors \in BOOLEAN

VARIABLES
  queue,      \* requests the device holds for the daemon
  sent,       \* history: requests the kernel has queued
  hungup,     \* history: the kernel has closed its side
  device,     \* "open", "eof" (the kernel closed its side), "closed"
  main,       \* where the main goroutine is
  buf,        \* the request in the read buffer
  msg,        \* the copy of it being framed and dispatched
  handler,    \* handler[i]: the goroutine, or inline call, serving i
  payload,    \* payload[i]: the request whose bytes that handler reads
  txns,       \* the transactions the manager knows
  mu,         \* who holds the dispatcher's write mutex
  tried,      \* tried[i]: responses written for i, delivered or not
  answers,    \* history: [id, of] of each response the device accepted
  result,     \* what ServeWithLifetime returned
  signals,    \* signals in the watcher's channel, of capacity one
  notified,   \* whether signal.Notify is in effect
  received,   \* history: signals delivered
  stop,       \* the watcher's stop channel is closed
  watcher,    \* "select", "closing", "done"
  missed,     \* history: requests whose transaction was unknown
  ended       \* history: transactions removed by an ABORT

kernelVars == <<queue, sent, hungup>>
handlerVars == <<handler, payload, txns, mu, tried, answers, missed, ended>>
watchVars == <<signals, notified, received, stop, watcher>>
vars == <<kernelVars, device, main, buf, msg, handlerVars, result, watchVars>>

\* Hives registered, readiness sent, watcher started: the request loop begins.
Init ==
  /\ queue = <<>> /\ sent = {} /\ hungup = FALSE /\ device = "open"
  /\ main = "read" /\ buf = Nobody /\ msg = Nobody
  /\ handler = [i \in Requests |-> "none"] /\ payload = [i \in Requests |-> Nobody]
  /\ txns = {} /\ mu = Nobody /\ tried = [i \in Requests |-> 0] /\ answers = {}
  /\ result = "none" /\ missed = {} /\ ended = {}
  /\ signals = 0 /\ notified = TRUE /\ received = 0 /\ stop = FALSE /\ watcher = "select"

Alive == main \notin {"exited", "killed"}

-----------------------------------------------------------------------------
(* The kernel.                                                             *)

\* A transaction's requests follow its BEGIN, but not the answer to it.
Send(i) ==
  /\ device = "open" /\ i \notin sent
  /\ Traffic[i].op \in {"op", "abort"} /\ Traffic[i].txn # NoTxn =>
       \E b \in sent : Traffic[b].op = "begin" /\ Traffic[b].txn = Traffic[i].txn
  /\ queue' = Append(queue, i) /\ sent' = sent \cup {i}
  /\ UNCHANGED <<hungup, device, main, buf, msg, handlerVars, result, watchVars>>

Hangup ==
  /\ device = "open"
  /\ device' = "eof" /\ hungup' = TRUE /\ queue' = <<>>
  /\ UNCHANGED <<sent, main, buf, msg, handlerVars, result, watchVars>>

\* Before signal.Stop: into the channel, or nowhere when it is full.  After
\* it: the default action ends the process.
Signal ==
  /\ Alive /\ received < MaxSignals
  /\ received' = received + 1
  /\ IF notified THEN signals' = 1 /\ UNCHANGED main
                 ELSE main' = "killed" /\ UNCHANGED signals
  /\ UNCHANGED <<kernelVars, device, buf, msg, handlerVars, result, notified, stop, watcher>>

-----------------------------------------------------------------------------
(* The read loop.                                                          *)

Return(err) == result' = err /\ main' = "drain"

Read ==
  /\ main = "read" /\ device = "open" /\ queue # <<>>
  /\ buf' = Head(queue) /\ queue' = Tail(queue)
  /\ msg' = Head(queue) /\ main' = "frame"
  /\ UNCHANGED <<sent, hungup, device, handlerVars, result, watchVars>>

\* io.EOF and os.ErrClosed end the loop with nil ...
ReadEnds ==
  /\ main = "read" /\ device # "open"
  /\ Return("nil")
  /\ UNCHANGED <<kernelVars, device, buf, msg, handlerVars, watchVars>>

\* ... and any other error with itself.
ReadFails ==
  /\ main = "read" /\ device = "open" /\ IOErrors
  /\ Return("error")
  /\ UNCHANGED <<kernelVars, device, buf, msg, handlerVars, watchVars>>

ParseRequest ==
  /\ main = "frame"
  /\ IF Traffic[msg].op = "malformed" THEN Return("error")
                                      ELSE main' = "context" /\ UNCHANGED result
  /\ UNCHANGED <<kernelVars, device, buf, msg, handlerVars, watchVars>>

\* Faulty: a closed device is a clean end here too, as in the read.
ContextFailsClean ==
  /\ main = "context" /\ (device # "open" \/ IOErrors)
  /\ Return(IF device = "open" THEN "error" ELSE "nil")
  /\ UNCHANGED <<kernelVars, device, buf, msg, handlerVars, watchVars>>

\* lifetime.Context: an ioctl on the device, whatever became of it meanwhile.
ContextFails ==
  /\ main = "context" /\ (device # "open" \/ IOErrors)
  /\ Return("error")
  /\ UNCHANGED <<kernelVars, device, buf, msg, handlerVars, watchVars>>

\* Faulty: BEGIN gets a goroutine like any other request.
DispatchSpawnsAll ==
  /\ main = "context" /\ device # "closed"
  /\ handler' = [handler EXCEPT ![msg] = "running"]
  /\ payload' = [payload EXCEPT ![msg] = msg]
  /\ main' = "read"
  /\ UNCHANGED <<kernelVars, device, buf, msg, txns, mu, tried, answers, missed, ended,
                 result, watchVars>>

\* BEGIN is dispatched inline: the loop waits for its response.  Any other
\* request gets a goroutine, counted by the wait group.
Dispatch ==
  /\ main = "context" /\ device # "closed"
  /\ handler' = [handler EXCEPT ![msg] = "running"]
  /\ payload' = [payload EXCEPT ![msg] = msg]
  /\ main' = IF Traffic[msg].op = "begin" THEN "inline" ELSE "read"
  /\ UNCHANGED <<kernelVars, device, buf, msg, txns, mu, tried, answers, missed, ended,
                 result, watchVars>>

Inlined ==
  /\ main = "inline" /\ handler[msg] = "done"
  /\ main' = "read"
  /\ UNCHANGED <<kernelVars, device, buf, msg, handlerVars, result, watchVars>>

-----------------------------------------------------------------------------
(* Handlers.                                                               *)

\* The handler's effect on the transaction table.  An op code without a
\* handler is answered with RSI_INVALID.
Handle(i) ==
  /\ Alive /\ handler[i] = "running"
  /\ LET r == Traffic[payload[i]] IN
     /\ txns' = CASE r.op = "begin" -> txns \cup {r.txn}
                  [] r.op = "abort" -> txns \ {r.txn}
                  [] OTHER -> txns
     /\ ended' = IF r.op = "abort" THEN ended \cup ({r.txn} \cap txns) ELSE ended
     /\ missed' = IF r.op \in {"op", "abort"} /\ r.txn \notin txns \cup {NoTxn}
                  THEN missed \cup {i} ELSE missed
  /\ handler' = [handler EXCEPT ![i] = "answering"]
  /\ UNCHANGED <<kernelVars, device, main, buf, msg, payload, mu, tried, answers, result,
                 watchVars>>

Lock(i) ==
  /\ Alive /\ handler[i] = "answering" /\ mu = Nobody
  /\ mu' = i
  /\ UNCHANGED <<kernelVars, device, main, buf, msg, handler, payload, txns, tried, answers,
                 missed, ended, result, watchVars>>

\* Faulty: the frame is not copied out of the read buffer.
WriteResponseAliased(i) ==
  /\ Alive /\ mu = i
  /\ tried' = [tried EXCEPT ![i] = @ + 1]
  /\ answers' = IF device = "open" THEN answers \cup {[id |-> i, of |-> buf]} ELSE answers
  /\ mu' = Nobody /\ handler' = [handler EXCEPT ![i] = "done"]
  /\ UNCHANGED <<kernelVars, device, main, buf, msg, payload, txns, missed, ended, result,
                 watchVars>>

\* Faulty: a response that cannot be written is tried again.
WriteResponseRetried(i) ==
  /\ Alive /\ mu = i
  /\ tried' = [tried EXCEPT ![i] = IF device = "open" THEN @ + 1 ELSE @]
  /\ answers' = IF device = "open" THEN answers \cup {[id |-> i, of |-> payload[i]]}
                                   ELSE answers
  /\ mu' = Nobody
  /\ handler' = [handler EXCEPT ![i] = IF device = "open" THEN "done" ELSE "answering"]
  /\ UNCHANGED <<kernelVars, device, main, buf, msg, payload, txns, missed, ended, result,
                 watchVars>>

\* writeResponse: one Write for the whole response; a failure is logged.
WriteResponse(i) ==
  /\ Alive /\ mu = i
  /\ tried' = [tried EXCEPT ![i] = @ + 1]
  /\ answers' = IF device = "open" THEN answers \cup {[id |-> i, of |-> payload[i]]}
                                   ELSE answers
  /\ mu' = Nobody /\ handler' = [handler EXCEPT ![i] = "done"]
  /\ UNCHANGED <<kernelVars, device, main, buf, msg, payload, txns, missed, ended, result,
                 watchVars>>

-----------------------------------------------------------------------------
(* Shutdown: ServeWithLifetime's wg.Wait, then run's deferred calls.       *)

Live(i) == handler[i] \in {"running", "answering"}

\* Faulty: no wg.Wait.
DrainNothing ==
  /\ main = "drain" /\ main' = "stop"
  /\ UNCHANGED <<kernelVars, device, buf, msg, handlerVars, result, watchVars>>

Drain ==
  /\ main = "drain" /\ \A i \in Requests : ~Live(i)
  /\ main' = "stop"
  /\ UNCHANGED <<kernelVars, device, buf, msg, handlerVars, result, watchVars>>

\* stopWatcher: signal.Stop, close(stop), then wait for done.
StopWatcher ==
  /\ main = "stop"
  /\ notified' = FALSE /\ stop' = TRUE /\ main' = "join"
  /\ UNCHANGED <<kernelVars, device, buf, msg, handlerVars, result, signals, received, watcher>>

JoinWatcher ==
  /\ main = "join" /\ watcher = "done"
  /\ main' = "device"
  /\ UNCHANGED <<kernelVars, device, buf, msg, handlerVars, result, watchVars>>

CloseDevice ==
  /\ main = "device"
  /\ device' = "closed" /\ queue' = <<>> /\ main' = "transactions"
  /\ UNCHANGED <<sent, hungup, buf, msg, handlerVars, result, watchVars>>

\* handlers.Close rolls back what is left, then the hives and the lock go.
CloseTransactions ==
  /\ main = "transactions"
  /\ txns' = {} /\ main' = "hives"
  /\ UNCHANGED <<kernelVars, device, buf, msg, handler, payload, mu, tried, answers, missed,
                 ended, result, watchVars>>

CloseHives ==
  /\ main = "hives"
  /\ main' = "exited"
  /\ UNCHANGED <<kernelVars, device, buf, msg, handlerVars, result, watchVars>>

-----------------------------------------------------------------------------
(* The watcher.  When a signal and stop are both there, select takes either.*)

WatcherReceives ==
  /\ Alive /\ watcher = "select" /\ signals = 1
  /\ signals' = 0 /\ watcher' = "closing"
  /\ UNCHANGED <<kernelVars, device, main, buf, msg, handlerVars, result, notified, received,
                 stop>>

\* Faulty: the watcher announces the shutdown and leaves the device open.
WatcherClosesNothing ==
  /\ Alive /\ watcher = "closing"
  /\ watcher' = "done"
  /\ UNCHANGED <<kernelVars, device, main, buf, msg, handlerVars, result, signals, notified,
                 received, stop>>

WatcherCloses ==
  /\ Alive /\ watcher = "closing"
  /\ device' = "closed" /\ queue' = <<>> /\ watcher' = "done"
  /\ UNCHANGED <<sent, hungup, main, buf, msg, handlerVars, result, signals, notified,
                 received, stop>>

WatcherStops ==
  /\ Alive /\ watcher = "select" /\ stop
  /\ watcher' = "done"
  /\ UNCHANGED <<kernelVars, device, main, buf, msg, handlerVars, result, signals, notified,
                 received, stop>>

Finished == ~Alive /\ UNCHANGED vars

Main ==
  \/ Read \/ ReadEnds \/ ParseRequest \/ ContextFails \/ Dispatch \/ Inlined
  \/ Drain \/ StopWatcher \/ JoinWatcher \/ CloseDevice \/ CloseTransactions \/ CloseHives

Watcher == WatcherReceives \/ WatcherCloses \/ WatcherStops

Serving(i) == Handle(i) \/ Lock(i) \/ WriteResponse(i)

Next ==
  \/ Main \/ ReadFails \/ Watcher \/ Hangup \/ Signal \/ Finished
  \/ \E i \in Requests : Send(i) \/ Serving(i)

Spec == Init /\ [][Next]_vars

\* Every goroutine that can run does; handlers return (their waits are bounded
\* by the request deadline) and the mutex is handed over.  Of the kernel, of
\* the sender of signals and of faults of the device nothing is assumed.
FairSpec ==
  /\ Spec /\ WF_vars(Main) /\ WF_vars(Watcher)
  /\ \A i \in Requests : WF_vars(Serving(i))

-----------------------------------------------------------------------------
\* Every variable holds a value of its kind.
TypeOK ==
  /\ queue \in Seq(Requests) /\ sent \subseteq Requests
  /\ device \in {"open", "eof", "closed"}
  /\ main \in {"read", "frame", "context", "inline", "drain", "stop", "join", "device",
               "transactions", "hives", "exited", "killed"}
  /\ {buf, msg, mu} \subseteq Requests \cup {Nobody}
  /\ handler \in [Requests -> {"none", "running", "answering", "done"}]
  /\ payload \in [Requests -> Requests \cup {Nobody}] /\ tried \in [Requests -> Nat]
  /\ txns \subseteq Txns /\ ended \subseteq Txns /\ missed \subseteq Requests
  /\ answers \subseteq [id : Requests, of : Requests]
  /\ result \in {"none", "nil", "error"} /\ signals \in 0..1 /\ received \in 0..MaxSignals
  /\ notified \in BOOLEAN /\ stop \in BOOLEAN /\ hungup \in BOOLEAN
  /\ watcher \in {"select", "closing", "done"}

\* A request that names a transaction finds it unless an ABORT removed it:
\* no later request overtakes the registration by BEGIN, although each runs
\* in a goroutine of its own and the kernel need not wait for BEGIN's answer.
BeginNotOvertaken ==
  \A i \in missed : Traffic[i].txn \in ended

\* No request is answered twice, and none that was dispatched is left without
\* an answer when the process exits by itself, whatever ended the loop.
AnsweredOnce ==
  /\ \A i \in Requests : tried[i] <= 1
  /\ main = "exited" =>
       \A i \in Requests : handler[i] # "none" => handler[i] = "done" /\ tried[i] = 1

\* The answer to a request is made from that request's own bytes, although
\* the loop reads the next one into the same buffer while it is served.
AnswersOwnRequest ==
  \A a \in answers : a.of = a.id

\* "Drain in-flight requests before returning so no handler writes to a device
\* or database that shutdown is about to close": once run's deferred calls
\* close things no handler is live, nor is the signal watcher.
NothingOutlivesClose ==
  main \in {"device", "transactions", "hives", "exited"} =>
    /\ mu = Nobody /\ \A i \in Requests : ~Live(i)
    /\ watcher = "done"

\* A clean exit means that every request taken from the device was served:
\* one that could not be framed, or whose lifetime could not be fetched, ends
\* the process with an error, also when a signal or the kernel closes the
\* device at that moment.
CleanExitServedAll ==
  main = "exited" /\ result = "nil" => buf = Nobody \/ handler[buf] = "done"

\* Each request taken from the device gets one answer, made from its own
\* bytes, and an exit with status 0 says that none was lost.
AnsweredInv ==
  TypeOK /\ AnsweredOnce /\ AnswersOwnRequest /\ CleanExitServedAll

\* What the documentation says of signals: "The handler closes the device,
\* which unblocks the read loop and produces the same clean shutdown".  A
\* process that a signal ends, with every frame well formed and the kernel's
\* side of the device open, exits with status 0.
SignalExitsClean ==
  main = "exited" /\ received > 0 /\ ~hungup
    /\ (\A i \in sent : Traffic[i].op # "malformed") => result = "nil"

\* Whoever ends the device, the kernel or a signal, the process comes to an
\* end: the loop is not left blocked in its read, the drain and the join of
\* the watcher wait for nothing that cannot happen.
ShutdownCompletes ==
  signals > 0 \/ device # "open" ~> ~Alive

\* Every dispatched request is answered, unless a signal kills the process
\* once its handling has been given up.
RequestsAnswered ==
  \A i \in Requests : handler[i] = "running" ~> tried[i] = 1 \/ main = "killed"
=============================================================================
