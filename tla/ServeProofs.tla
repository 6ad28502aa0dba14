----------------------------- MODULE ServeProofs -----------------------------
(***************************************************************************)
(* Proofs about Serve, for any traffic and any number of signals: requests *)
(* are answered once and from their own bytes, none runs when something is *)
(* closed, and none overtakes the BEGIN of its transaction.                *)
(***************************************************************************)
EXTENDS Serve, TLAPS

\* The read loop, and the part of it in which msg has been taken from the
\* queue and has no handler yet.
InLoop == main \in {"read", "frame", "context", "inline"}
Framing == main \in {"frame", "context"}

\* After the drain no handler is left; after the join no watcher either.
Drained == main \in {"stop", "join", "device", "transactions", "hives", "exited"}
Joined == main \in {"device", "transactions", "hives", "exited"}

\* A handler reads the bytes of its own request, writes one response at its
\* end, and holds the write mutex only while it answers.
Handlers ==
  /\ \A i \in Requests : handler[i] # "none" => payload[i] = i
  /\ \A i \in Requests : tried[i] = IF handler[i] = "done" THEN 1 ELSE 0
  /\ mu # Nobody => handler[mu] = "answering"
  /\ \A a \in answers : a.of = a.id

\* A request is in one place: with the kernel, in the queue, in msg, or with
\* its handler.
Placed ==
  /\ \A i \in Requests : handler[i] # "none" => i \in sent
  /\ \A k \in 1..Len(queue) : queue[k] \in sent /\ handler[queue[k]] = "none"
  /\ \A j, k \in 1..Len(queue) : queue[j] = queue[k] => j = k
  /\ buf = msg
  /\ Framing => /\ msg \in sent /\ handler[msg] = "none"
                /\ \A k \in 1..Len(queue) : queue[k] # msg
  /\ main = "inline" => /\ msg \in Requests /\ handler[msg] # "none"
                        /\ Traffic[msg].op = "begin"

\* What is known of the end of the process: that nothing is left of what has
\* been waited for, and what a nil result says about the last request.
Ending ==
  /\ Drained => \A i \in Requests : ~Live(i)
  /\ Joined => watcher = "done"
  /\ device # "open" => queue = <<>>
  /\ InLoop => result = "none"
  /\ main = "read" \/ result = "nil" => buf = Nobody \/ handler[buf] # "none"

\* A transaction that has been begun; the requests that need it to be; the
\* request that begins it.
Begun(t) == t \in txns \cup ended
NeedsBegin(i) == Traffic[i].op \in {"op", "abort"} /\ Traffic[i].txn # NoTxn
Begins(b, t) == Traffic[b].op = "begin" /\ Traffic[b].txn = t

\* Where BEGIN is before the requests that follow it: handled, in msg, or
\* ahead of them in the queue.
Ordered ==
  /\ \A i \in Requests : handler[i] = "running" /\ NeedsBegin(i) => Begun(Traffic[i].txn)
  /\ InLoop =>
       \A b \in Requests : handler[b] \in {"answering", "done"} /\ Traffic[b].op = "begin"
                             => Begun(Traffic[b].txn)
  /\ Framing /\ NeedsBegin(msg) => Begun(Traffic[msg].txn)
  /\ InLoop =>
       \A k \in 1..Len(queue) : NeedsBegin(queue[k]) =>
         \/ Begun(Traffic[queue[k]].txn)
         \/ main # "read" /\ Begins(msg, Traffic[queue[k]].txn)
         \/ \E j \in 1..Len(queue) : j < k /\ Begins(queue[j], Traffic[queue[k]].txn)
  /\ InLoop /\ device = "open" =>
       \A b \in sent : Traffic[b].op = "begin" =>
         \/ Begun(Traffic[b].txn)
         \/ main # "read" /\ msg = b
         \/ \E k \in 1..Len(queue) : queue[k] = b
  /\ BeginNotOvertaken

\* The inductive invariant.
IInv == TypeOK /\ Handlers /\ Placed /\ Ending /\ Ordered

-----------------------------------------------------------------------------
\* Nobody is no request, and what a request says of its transaction.
LEMMA TrafficFacts ==
  /\ Nobody \notin Requests
  /\ \A i \in Requests : /\ Traffic[i].op \in Ops
                         /\ Traffic[i].txn # NoTxn => Traffic[i].txn \in Txns
                         /\ Traffic[i].op = "begin" => Traffic[i].txn \in Txns
<1> DEFINE S == [op : Ops, txn : {Traffic[i].txn : i \in DOMAIN Traffic}]
<1>1. DOMAIN Traffic = 1..Len(Traffic) /\ Len(Traffic) \in Nat
      /\ \A i \in DOMAIN Traffic : Traffic[i] \in S
  <2>1. Traffic \in Seq(S) BY ServeAssumption
  <2> HIDE DEF S
  <2> QED BY <2>1
<1>2. Nobody \notin Requests BY <1>1 DEF Nobody, Requests
<1>3. \A i \in Requests : Traffic[i].op \in Ops BY <1>1 DEF Requests
<1>4. \A i \in Requests : Traffic[i].txn # NoTxn => Traffic[i].txn \in Txns BY DEF Txns
<1> QED BY <1>2, <1>3, <1>4, ServeAssumption DEF Requests

LEMMA InitIInv == Init => IInv
<1> SUFFICES ASSUME Init PROVE IInv OBVIOUS
<1> USE DEF Init
<1>1. TypeOK
  <2>1. queue \in Seq(Requests) OBVIOUS
  <2>2. received \in 0..MaxSignals BY ServeAssumption
  <2>3. notified \in BOOLEAN /\ stop \in BOOLEAN /\ hungup \in BOOLEAN OBVIOUS
  <2>4. /\ handler \in [Requests -> {"none", "running", "answering", "done"}]
        /\ payload \in [Requests -> Requests \cup {Nobody}] /\ tried \in [Requests -> Nat]
    OBVIOUS
  <2> QED BY <2>1, <2>2, <2>3, <2>4 DEF TypeOK, Nobody
<1>2. Handlers /\ Placed /\ Ending
  BY TrafficFacts DEF Handlers, Placed, Ending, Framing, InLoop, Drained, Joined, Nobody
<1>3. Ordered BY DEF Ordered, InLoop, Framing, BeginNotOvertaken
<1> QED BY <1>1, <1>2, <1>3 DEF IInv

-----------------------------------------------------------------------------
\* The kernel sends a request of a transaction after its BEGIN, which is then in
\* one of the three places of Ordered.
LEMMA SendKeeps == ASSUME IInv, NEW i \in Requests, Send(i) PROVE IInv'
<1> USE DEF Send, handlerVars, kernelVars, watchVars
<1>1. TypeOK' BY DEF IInv, TypeOK, Nobody
<1>2. Handlers' BY DEF IInv, TypeOK, Handlers, Nobody
<1>3. Placed' BY DEF IInv, TypeOK, Placed, Framing
<1>4. Ending' BY DEF IInv, TypeOK, Ending, InLoop, Drained, Joined, Live
<1>5. Ordered'
  <2>1. queue \in Seq(Requests) BY DEF IInv, TypeOK
  <2>2. /\ Len(queue) \in Nat /\ Len(queue') = Len(queue) + 1
        /\ queue'[Len(queue')] = i
        /\ \A k \in 1..Len(queue) : queue'[k] = queue[k]
    BY <2>1
  <2>3. ASSUME InLoop, NEW k \in 1..Len(queue'), NeedsBegin(queue'[k])
        PROVE  \/ Begun(Traffic[queue'[k]].txn)
               \/ main # "read" /\ Begins(msg, Traffic[queue'[k]].txn)
               \/ \E j \in 1..Len(queue') : j < k /\ Begins(queue'[j], Traffic[queue'[k]].txn)
    <3>1. CASE k \in 1..Len(queue)
      BY <3>1, <2>2, <2>3 DEF IInv, Ordered
    <3>2. CASE k = Len(queue')
      <4>1. PICK b \in sent : Begins(b, Traffic[i].txn)
        BY <2>2, <2>3, <3>2 DEF NeedsBegin, Begins
      <4>2. \/ Begun(Traffic[b].txn)
            \/ main # "read" /\ msg = b
            \/ \E j \in 1..Len(queue) : queue[j] = b
        BY <2>3, <4>1 DEF IInv, Ordered, Begins
      <4> QED BY <4>1, <4>2, <3>2, <2>2 DEF Begins
    <3> QED BY <3>1, <3>2, <2>2
  <2>4. ASSUME InLoop, device = "open", NEW b \in sent', Traffic[b].op = "begin"
        PROVE  \/ Begun(Traffic[b].txn)
               \/ main # "read" /\ msg = b
               \/ \E k \in 1..Len(queue') : queue'[k] = b
    <3>1. CASE b = i BY <3>1, <2>2
    <3>2. CASE b \in sent BY <3>2, <2>2, <2>4 DEF IInv, Ordered
    <3> QED BY <3>1, <3>2
  <2> QED BY <2>3, <2>4 DEF IInv, TypeOK, Ordered, InLoop, Framing, BeginNotOvertaken, Begun
<1> QED BY <1>1, <1>2, <1>3, <1>4, <1>5 DEF IInv

\* The kernel closes its side; its queue goes with it.
LEMMA HangupKeeps == ASSUME IInv, Hangup PROVE IInv'
<1> USE DEF Hangup, handlerVars, kernelVars, watchVars
<1>1. TypeOK' BY DEF IInv, TypeOK, Nobody
<1>2. Handlers' BY DEF IInv, TypeOK, Handlers, Nobody
<1>3. Placed' BY DEF IInv, TypeOK, Placed, Framing
<1>4. Ending' BY DEF IInv, TypeOK, Ending, InLoop, Drained, Joined, Live
<1>5. Ordered' BY DEF IInv, TypeOK, Ordered, InLoop, Framing, BeginNotOvertaken, Begun, NeedsBegin, Begins
<1> QED BY <1>1, <1>2, <1>3, <1>4, <1>5 DEF IInv

\* A signal is noted, or ends the process.
LEMMA SignalKeeps == ASSUME IInv, Signal PROVE IInv'
<1> USE DEF Signal, handlerVars, kernelVars, watchVars
<1>1. TypeOK'
  <2>1. received' \in 0..MaxSignals BY ServeAssumption DEF IInv, TypeOK
  <2>2. main' \in {main, "killed"} /\ signals' \in {signals, 1} OBVIOUS
  <2> QED BY <2>1, <2>2 DEF IInv, TypeOK
<1>2. Handlers' BY DEF IInv, TypeOK, Handlers, Nobody
<1>3. Placed' BY DEF IInv, TypeOK, Placed, Framing
<1>4. Ending' BY DEF IInv, TypeOK, Ending, InLoop, Drained, Joined, Live
<1>5. Ordered' BY DEF IInv, TypeOK, Ordered, InLoop, Framing, BeginNotOvertaken, Begun, NeedsBegin, Begins
<1> QED BY <1>1, <1>2, <1>3, <1>4, <1>5 DEF IInv

\* The head of the queue becomes msg; what followed its BEGIN in the queue still does.
LEMMA ReadKeeps == ASSUME IInv, Read PROVE IInv'
<1> USE DEF Read, handlerVars, kernelVars, watchVars
<1>1. TypeOK'
  <2>1. queue \in Seq(Requests) /\ queue # <<>> BY DEF IInv, TypeOK
  <2>2. Head(queue) \in Requests /\ Tail(queue) \in Seq(Requests) BY <2>1
  <2> QED BY <2>2 DEF IInv, TypeOK
<1>2. Handlers' BY DEF IInv, TypeOK, Handlers, Nobody
<1>3. Placed' BY DEF IInv, TypeOK, Placed, Framing
<1>4. Ending' BY DEF IInv, TypeOK, Ending, InLoop, Drained, Joined, Live
<1>5. Ordered'
  <2>1. queue \in Seq(Requests) /\ queue # <<>> BY DEF IInv, TypeOK
  <2>2. /\ Len(queue') \in Nat /\ Len(queue) = Len(queue') + 1
        /\ msg' = queue[1]
        /\ \A k \in 1..Len(queue') : k + 1 \in 1..Len(queue) /\ queue'[k] = queue[k + 1]
    BY <2>1
  <2> DEFINE Follows(k) ==
        \/ Begun(Traffic[queue[k]].txn)
        \/ \E j \in 1..Len(queue) : j < k /\ Begins(queue[j], Traffic[queue[k]].txn)
  <2>3. \A k \in 1..Len(queue) : NeedsBegin(queue[k]) => Follows(k)
    BY DEF IInv, Ordered, InLoop
  <2>4. NeedsBegin(msg') => Begun(Traffic[msg'].txn)
    BY <2>2, <2>3
  <2>5. ASSUME NEW k \in 1..Len(queue'), NeedsBegin(queue'[k])
        PROVE  \/ Begun(Traffic[queue'[k]].txn)
               \/ Begins(msg', Traffic[queue'[k]].txn)
               \/ \E j \in 1..Len(queue') : j < k /\ Begins(queue'[j], Traffic[queue'[k]].txn)
    <3>1. Follows(k + 1) BY <2>2, <2>3, <2>5
    <3>2. ASSUME NEW j \in 1..Len(queue), j < k + 1, Begins(queue[j], Traffic[queue[k + 1]].txn)
          PROVE  \/ Begins(msg', Traffic[queue'[k]].txn)
                 \/ \E n \in 1..Len(queue') : n < k /\ Begins(queue'[n], Traffic[queue'[k]].txn)
      <4>1. CASE j = 1 BY <4>1, <2>2, <3>2
      <4>2. CASE j # 1
        <5>1. j - 1 \in 1..Len(queue') /\ j - 1 < k /\ queue'[j - 1] = queue[j]
          BY <4>2, <2>2, <3>2
        <5> QED BY <5>1, <2>2, <3>2
      <4> QED BY <4>1, <4>2
    <3> QED BY <2>2, <3>1, <3>2
  <2>6. ASSUME NEW b \in sent, device = "open", Traffic[b].op = "begin"
        PROVE  \/ Begun(Traffic[b].txn)
               \/ msg' = b
               \/ \E k \in 1..Len(queue') : queue'[k] = b
    <3>1. Begun(Traffic[b].txn) \/ \E k \in 1..Len(queue) : queue[k] = b
      BY <2>6 DEF IInv, Ordered, InLoop
    <3>2. ASSUME NEW k \in 1..Len(queue), queue[k] = b, k # 1
          PROVE  k - 1 \in 1..Len(queue') /\ queue'[k - 1] = b
      BY <2>2, <3>2
    <3> QED BY <2>2, <3>1, <3>2
  <2> QED BY <2>4, <2>5, <2>6 DEF IInv, TypeOK, Ordered, InLoop, Framing, BeginNotOvertaken, Begun
<1> QED BY <1>1, <1>2, <1>3, <1>4, <1>5 DEF IInv

\* The loop ends because the device has no more, or no longer is.
LEMMA ReadEndsKeeps == ASSUME IInv, ReadEnds PROVE IInv'
<1> USE DEF ReadEnds, Return, handlerVars, kernelVars, watchVars
<1>1. TypeOK' BY DEF IInv, TypeOK, Nobody
<1>2. Handlers' BY DEF IInv, TypeOK, Handlers, Nobody
<1>3. Placed' BY DEF IInv, TypeOK, Placed, Framing
<1>4. Ending' BY DEF IInv, TypeOK, Ending, InLoop, Drained, Joined, Live
<1>5. Ordered' BY DEF IInv, TypeOK, Ordered, InLoop, Framing, BeginNotOvertaken, Begun, NeedsBegin, Begins
<1> QED BY <1>1, <1>2, <1>3, <1>4, <1>5 DEF IInv

\* The loop ends with an error of the read.
LEMMA ReadFailsKeeps == ASSUME IInv, ReadFails PROVE IInv'
<1> USE DEF ReadFails, Return, handlerVars, kernelVars, watchVars
<1>1. TypeOK' BY DEF IInv, TypeOK, Nobody
<1>2. Handlers' BY DEF IInv, TypeOK, Handlers, Nobody
<1>3. Placed' BY DEF IInv, TypeOK, Placed, Framing
<1>4. Ending' BY DEF IInv, TypeOK, Ending, InLoop, Drained, Joined, Live
<1>5. Ordered' BY DEF IInv, TypeOK, Ordered, InLoop, Framing, BeginNotOvertaken, Begun, NeedsBegin, Begins
<1> QED BY <1>1, <1>2, <1>3, <1>4, <1>5 DEF IInv

\* A frame that cannot be parsed ends the loop.
LEMMA ParseRequestKeeps == ASSUME IInv, ParseRequest PROVE IInv'
<1> USE DEF ParseRequest, Return, handlerVars, kernelVars, watchVars
<1>1. TypeOK' BY DEF IInv, TypeOK, Nobody
<1>2. Handlers' BY DEF IInv, TypeOK, Handlers, Nobody
<1>3. Placed' BY DEF IInv, TypeOK, Placed, Framing
<1>4. Ending' BY DEF IInv, TypeOK, Ending, InLoop, Drained, Joined, Live
<1>5. Ordered' BY DEF IInv, TypeOK, Ordered, InLoop, Framing, BeginNotOvertaken, Begun, NeedsBegin, Begins
<1> QED BY <1>1, <1>2, <1>3, <1>4, <1>5 DEF IInv

\* A failed lifetime ioctl ends the loop.
LEMMA ContextFailsKeeps == ASSUME IInv, ContextFails PROVE IInv'
<1> USE DEF ContextFails, Return, handlerVars, kernelVars, watchVars
<1>1. TypeOK' BY DEF IInv, TypeOK, Nobody
<1>2. Handlers' BY DEF IInv, TypeOK, Handlers, Nobody
<1>3. Placed' BY DEF IInv, TypeOK, Placed, Framing
<1>4. Ending' BY DEF IInv, TypeOK, Ending, InLoop, Drained, Joined, Live
<1>5. Ordered' BY DEF IInv, TypeOK, Ordered, InLoop, Framing, BeginNotOvertaken, Begun, NeedsBegin, Begins
<1> QED BY <1>1, <1>2, <1>3, <1>4, <1>5 DEF IInv

\* A handler starts; for BEGIN the loop waits.
LEMMA DispatchKeeps == ASSUME IInv, Dispatch PROVE IInv'
<1> USE DEF Dispatch, handlerVars, kernelVars, watchVars
<1>1. TypeOK' BY DEF IInv, TypeOK, Nobody
<1>2. Handlers'
  <2>1. msg \in Requests /\ handler[msg] = "none" BY DEF IInv, TypeOK, Placed, Framing
  <2> QED BY <2>1 DEF IInv, TypeOK, Handlers, Nobody
<1>3. Placed' BY DEF IInv, TypeOK, Placed, Framing
<1>4. Ending' BY DEF IInv, TypeOK, Placed, Ending, InLoop, Drained, Joined, Live, Framing
<1>5. Ordered' BY DEF IInv, TypeOK, Ordered, InLoop, Framing, BeginNotOvertaken, Begun, NeedsBegin, Begins
<1> QED BY <1>1, <1>2, <1>3, <1>4, <1>5 DEF IInv

\* The inline BEGIN has been answered: its transaction has been begun.
LEMMA InlinedKeeps == ASSUME IInv, Inlined PROVE IInv'
<1> USE DEF Inlined, handlerVars, kernelVars, watchVars
<1>1. TypeOK' BY DEF IInv, TypeOK, Nobody
<1>2. Handlers' BY DEF IInv, TypeOK, Handlers, Nobody
<1>3. Placed' BY DEF IInv, TypeOK, Placed, Framing
<1>4. Ending' BY DEF IInv, TypeOK, Placed, Ending, InLoop, Drained, Joined, Live
<1>5. Ordered'
  <2>1. msg \in Requests /\ Begun(Traffic[msg].txn)
    BY DEF IInv, Placed, Ordered, InLoop
  <2>2. \A k \in 1..Len(queue) : NeedsBegin(queue[k]) =>
          \/ Begun(Traffic[queue[k]].txn)
          \/ \E j \in 1..Len(queue) : j < k /\ Begins(queue[j], Traffic[queue[k]].txn)
    BY <2>1 DEF IInv, Ordered, InLoop, Begins
  <2>3. device = "open" =>
          \A b \in sent : Traffic[b].op = "begin" =>
            Begun(Traffic[b].txn) \/ \E k \in 1..Len(queue) : queue[k] = b
    BY <2>1 DEF IInv, Ordered, InLoop
  <2>4. BeginNotOvertaken' BY DEF IInv, Ordered, BeginNotOvertaken
  <2>5. \A t : Begun(t)' <=> Begun(t) BY DEF Begun
  <2>6. InLoop /\ InLoop' /\ ~Framing' BY DEF InLoop, Framing
  <2>7. /\ \A i \in Requests : handler[i] = "running" /\ NeedsBegin(i) => Begun(Traffic[i].txn)
        /\ \A b \in Requests : handler[b] \in {"answering", "done"} /\ Traffic[b].op = "begin"
                              => Begun(Traffic[b].txn)
    BY <2>6 DEF IInv, Ordered
  <2> QED BY <2>2, <2>3, <2>4, <2>5, <2>6, <2>7 DEF Ordered, NeedsBegin, Begins
<1> QED BY <1>1, <1>2, <1>3, <1>4, <1>5 DEF IInv

\* A handler takes effect; what has been begun stays begun or is ended.
LEMMA HandleKeeps == ASSUME IInv, NEW i \in Requests, Handle(i) PROVE IInv'
<1> USE DEF Handle, handlerVars, kernelVars, watchVars
<1>1. TypeOK'
  <2>1. payload[i] = i BY DEF IInv, Handlers
  <2>2. txns' \subseteq Txns /\ ended' \subseteq Txns /\ missed' \subseteq Requests
    BY <2>1, TrafficFacts DEF IInv, TypeOK
  <2>3. handler' \in [Requests -> {"none", "running", "answering", "done"}]
    BY DEF IInv, TypeOK
  <2> QED BY <2>2, <2>3 DEF IInv, TypeOK
<1>2. Handlers' BY DEF IInv, TypeOK, Handlers, Nobody
<1>3. Placed' BY DEF IInv, TypeOK, Placed, Framing
<1>4. Ending' BY DEF IInv, TypeOK, Ending, InLoop, Drained, Joined, Live
<1>5. Ordered'
  <2>1. payload[i] = i /\ Traffic[i].op \in Ops BY TrafficFacts DEF IInv, Handlers
  <2>2. \A t : Begun(t) => Begun(t)' BY DEF Begun
  <2>3. Traffic[i].op = "begin" => Begun(Traffic[i].txn)' BY <2>1 DEF Begun
  <2>4. handler' = [handler EXCEPT ![i] = "answering"] /\ i \in Requests
        /\ handler \in [Requests -> {"none", "running", "answering", "done"}]
    BY DEF IInv, TypeOK
  <2>5. BeginNotOvertaken'
    <3>1. ASSUME NEW j \in missed PROVE Traffic[j].txn \in ended'
      BY DEF IInv, Ordered, BeginNotOvertaken
    <3>2. ASSUME i \in missed', i \notin missed PROVE Traffic[i].txn \in ended'
      <4>1. NeedsBegin(i) /\ Traffic[i].txn \notin txns BY <3>2, <2>1 DEF NeedsBegin
      <4>2. Begun(Traffic[i].txn) BY <4>1 DEF IInv, Ordered
      <4> QED BY <4>1, <4>2 DEF Begun
    <3> QED BY <3>1, <3>2 DEF BeginNotOvertaken
  <2>6. \A j \in Requests : handler'[j] = "running" /\ NeedsBegin(j) => Begun(Traffic[j].txn)'
    BY <2>2, <2>4 DEF IInv, Ordered
  <2>7. InLoop => \A b \in Requests : handler'[b] \in {"answering", "done"} /\ Traffic[b].op = "begin"
                                      => Begun(Traffic[b].txn)'
    BY <2>2, <2>3, <2>4 DEF IInv, Ordered
  <2>8. /\ Framing /\ NeedsBegin(msg) => Begun(Traffic[msg].txn)'
        /\ InLoop => \A k \in 1..Len(queue) : NeedsBegin(queue[k]) =>
             \/ Begun(Traffic[queue[k]].txn)'
             \/ main # "read" /\ Begins(msg, Traffic[queue[k]].txn)
             \/ \E j \in 1..Len(queue) : j < k /\ Begins(queue[j], Traffic[queue[k]].txn)
        /\ InLoop /\ device = "open" =>
             \A b \in sent : Traffic[b].op = "begin" =>
               \/ Begun(Traffic[b].txn)'
               \/ main # "read" /\ msg = b
               \/ \E k \in 1..Len(queue) : queue[k] = b
    BY <2>2 DEF IInv, Ordered
  <2> QED BY <2>5, <2>6, <2>7, <2>8 DEF Ordered, InLoop, Framing, NeedsBegin, Begins
<1> QED BY <1>1, <1>2, <1>3, <1>4, <1>5 DEF IInv

\* A handler takes the write mutex.
LEMMA LockKeeps == ASSUME IInv, NEW i \in Requests, Lock(i) PROVE IInv'
<1> USE DEF Lock, handlerVars, kernelVars, watchVars
<1>1. TypeOK' BY DEF IInv, TypeOK, Nobody
<1>2. Handlers' BY DEF IInv, TypeOK, Handlers, Nobody
<1>3. Placed' BY DEF IInv, TypeOK, Placed, Framing
<1>4. Ending' BY DEF IInv, TypeOK, Ending, InLoop, Drained, Joined, Live
<1>5. Ordered' BY DEF IInv, Ordered, InLoop, Framing, BeginNotOvertaken, Begun, NeedsBegin, Begins
<1> QED BY <1>1, <1>2, <1>3, <1>4, <1>5 DEF IInv

\* A handler writes its one response.
LEMMA WriteResponseKeeps == ASSUME IInv, NEW i \in Requests, WriteResponse(i) PROVE IInv'
<1> USE DEF WriteResponse, handlerVars, kernelVars, watchVars
<1>1. TypeOK'
  <2>1. handler[i] = "answering" /\ payload[i] = i /\ tried[i] = 0
    BY TrafficFacts DEF IInv, Handlers
  <2>2. answers' \subseteq [id : Requests, of : Requests]
    BY <2>1 DEF IInv, TypeOK
  <2>3. /\ handler' \in [Requests -> {"none", "running", "answering", "done"}]
        /\ tried' \in [Requests -> Nat]
    BY <2>1 DEF IInv, TypeOK
  <2> QED BY <2>2, <2>3 DEF IInv, TypeOK, Nobody
<1>2. Handlers'
  <2>1. handler[i] = "answering" /\ payload[i] = i /\ tried[i] = 0
    BY TrafficFacts DEF IInv, Handlers
  <2>2. \A a \in answers' : a.of = a.id BY <2>1 DEF IInv, Handlers
  <2>3. /\ \A j \in Requests : handler'[j] = IF j = i THEN "done" ELSE handler[j]
        /\ \A j \in Requests : tried'[j] = IF j = i THEN 1 ELSE tried[j]
    BY <2>1 DEF IInv, TypeOK
  <2> QED BY <2>1, <2>2, <2>3 DEF IInv, Handlers
<1>3. Placed'
  <2>1. handler[i] = "answering" /\ payload[i] = i /\ tried[i] = 0
    BY TrafficFacts DEF IInv, Handlers
  <2>2. \A j \in Requests : handler'[j] = IF j = i THEN "done" ELSE handler[j]
    BY DEF IInv, TypeOK
  <2>3. \A k \in 1..Len(queue) : queue[k] \in Requests BY DEF IInv, TypeOK
  <2> QED BY <2>1, <2>2, <2>3 DEF IInv, Placed, Framing
<1>4. Ending' BY DEF IInv, TypeOK, Ending, InLoop, Drained, Joined, Live
<1>5. Ordered'
  <2>1. handler[i] = "answering" /\ payload[i] = i /\ tried[i] = 0
    BY TrafficFacts DEF IInv, Handlers
  <2>2. \A j \in Requests : handler'[j] = IF j = i THEN "done" ELSE handler[j]
    BY DEF IInv, TypeOK
  <2> QED BY <2>1, <2>2
          DEF IInv, Ordered, InLoop, Framing, BeginNotOvertaken, Begun, NeedsBegin, Begins
<1> QED BY <1>1, <1>2, <1>3, <1>4, <1>5 DEF IInv

\* The wait group has come to zero.
LEMMA DrainKeeps == ASSUME IInv, Drain PROVE IInv'
<1> USE DEF Drain, handlerVars, kernelVars, watchVars
<1>1. TypeOK' BY DEF IInv, TypeOK, Nobody
<1>2. Handlers' BY DEF IInv, TypeOK, Handlers, Nobody
<1>3. Placed' BY DEF IInv, TypeOK, Placed, Framing
<1>4. Ending' BY DEF IInv, TypeOK, Ending, InLoop, Drained, Joined, Live
<1>5. Ordered' BY DEF IInv, TypeOK, Ordered, InLoop, Framing, BeginNotOvertaken, Begun, NeedsBegin, Begins
<1> QED BY <1>1, <1>2, <1>3, <1>4, <1>5 DEF IInv

\* The watcher is told to stop.
LEMMA StopWatcherKeeps == ASSUME IInv, StopWatcher PROVE IInv'
<1> USE DEF StopWatcher, handlerVars, kernelVars, watchVars
<1>1. TypeOK' BY DEF IInv, TypeOK, Nobody
<1>2. Handlers' BY DEF IInv, TypeOK, Handlers, Nobody
<1>3. Placed' BY DEF IInv, TypeOK, Placed, Framing
<1>4. Ending' BY DEF IInv, TypeOK, Ending, InLoop, Drained, Joined, Live
<1>5. Ordered' BY DEF IInv, TypeOK, Ordered, InLoop, Framing, BeginNotOvertaken, Begun, NeedsBegin, Begins
<1> QED BY <1>1, <1>2, <1>3, <1>4, <1>5 DEF IInv

\* The watcher has stopped.
LEMMA JoinWatcherKeeps == ASSUME IInv, JoinWatcher PROVE IInv'
<1> USE DEF JoinWatcher, handlerVars, kernelVars, watchVars
<1>1. TypeOK' BY DEF IInv, TypeOK, Nobody
<1>2. Handlers' BY DEF IInv, TypeOK, Handlers, Nobody
<1>3. Placed' BY DEF IInv, TypeOK, Placed, Framing
<1>4. Ending' BY DEF IInv, TypeOK, Ending, InLoop, Drained, Joined, Live
<1>5. Ordered' BY DEF IInv, TypeOK, Ordered, InLoop, Framing, BeginNotOvertaken, Begun, NeedsBegin, Begins
<1> QED BY <1>1, <1>2, <1>3, <1>4, <1>5 DEF IInv

\* The device is closed after the join.
LEMMA CloseDeviceKeeps == ASSUME IInv, CloseDevice PROVE IInv'
<1> USE DEF CloseDevice, handlerVars, kernelVars, watchVars
<1>1. TypeOK' BY DEF IInv, TypeOK, Nobody
<1>2. Handlers' BY DEF IInv, TypeOK, Handlers, Nobody
<1>3. Placed' BY DEF IInv, TypeOK, Placed, Framing
<1>4. Ending' BY DEF IInv, TypeOK, Ending, InLoop, Drained, Joined, Live
<1>5. Ordered' BY DEF IInv, TypeOK, Ordered, InLoop, Framing, BeginNotOvertaken, Begun, NeedsBegin, Begins
<1> QED BY <1>1, <1>2, <1>3, <1>4, <1>5 DEF IInv

\* The transactions go, when no handler is there to miss one.
LEMMA CloseTransactionsKeeps == ASSUME IInv, CloseTransactions PROVE IInv'
<1> USE DEF CloseTransactions, handlerVars, kernelVars, watchVars
<1>1. TypeOK' BY DEF IInv, TypeOK, Nobody
<1>2. Handlers' BY DEF IInv, TypeOK, Handlers, Nobody
<1>3. Placed' BY DEF IInv, TypeOK, Placed, Framing
<1>4. Ending' BY DEF IInv, TypeOK, Ending, InLoop, Drained, Joined, Live
<1>5. Ordered'
  <2>1. \A i \in Requests : handler[i] # "running" BY DEF IInv, Ending, Drained, Live
  <2> QED BY <2>1 DEF IInv, TypeOK, Ordered, InLoop, Framing, BeginNotOvertaken
<1> QED BY <1>1, <1>2, <1>3, <1>4, <1>5 DEF IInv

\* The process exits.
LEMMA CloseHivesKeeps == ASSUME IInv, CloseHives PROVE IInv'
<1> USE DEF CloseHives, handlerVars, kernelVars, watchVars
<1>1. TypeOK' BY DEF IInv, TypeOK, Nobody
<1>2. Handlers' BY DEF IInv, TypeOK, Handlers, Nobody
<1>3. Placed' BY DEF IInv, TypeOK, Placed, Framing
<1>4. Ending' BY DEF IInv, TypeOK, Ending, InLoop, Drained, Joined, Live
<1>5. Ordered' BY DEF IInv, TypeOK, Ordered, InLoop, Framing, BeginNotOvertaken, Begun, NeedsBegin, Begins
<1> QED BY <1>1, <1>2, <1>3, <1>4, <1>5 DEF IInv

\* The watcher takes a signal.
LEMMA WatcherReceivesKeeps == ASSUME IInv, WatcherReceives PROVE IInv'
<1> USE DEF WatcherReceives, handlerVars, kernelVars, watchVars
<1>1. TypeOK' BY DEF IInv, TypeOK, Nobody
<1>2. Handlers' BY DEF IInv, TypeOK, Handlers, Nobody
<1>3. Placed' BY DEF IInv, TypeOK, Placed, Framing
<1>4. Ending' BY DEF IInv, TypeOK, Ending, InLoop, Drained, Joined, Live
<1>5. Ordered' BY DEF IInv, TypeOK, Ordered, InLoop, Framing, BeginNotOvertaken, Begun, NeedsBegin, Begins
<1> QED BY <1>1, <1>2, <1>3, <1>4, <1>5 DEF IInv

\* The watcher closes the device.
LEMMA WatcherClosesKeeps == ASSUME IInv, WatcherCloses PROVE IInv'
<1> USE DEF WatcherCloses, handlerVars, kernelVars, watchVars
<1>1. TypeOK' BY DEF IInv, TypeOK, Nobody
<1>2. Handlers' BY DEF IInv, TypeOK, Handlers, Nobody
<1>3. Placed' BY DEF IInv, TypeOK, Placed, Framing
<1>4. Ending' BY DEF IInv, TypeOK, Ending, InLoop, Drained, Joined, Live
<1>5. Ordered' BY DEF IInv, TypeOK, Ordered, InLoop, Framing, BeginNotOvertaken, Begun, NeedsBegin, Begins
<1> QED BY <1>1, <1>2, <1>3, <1>4, <1>5 DEF IInv

\* The watcher stops.
LEMMA WatcherStopsKeeps == ASSUME IInv, WatcherStops PROVE IInv'
<1> USE DEF WatcherStops, handlerVars, kernelVars, watchVars
<1>1. TypeOK' BY DEF IInv, TypeOK, Nobody
<1>2. Handlers' BY DEF IInv, TypeOK, Handlers, Nobody
<1>3. Placed' BY DEF IInv, TypeOK, Placed, Framing
<1>4. Ending' BY DEF IInv, TypeOK, Ending, InLoop, Drained, Joined, Live
<1>5. Ordered' BY DEF IInv, TypeOK, Ordered, InLoop, Framing, BeginNotOvertaken, Begun, NeedsBegin, Begins
<1> QED BY <1>1, <1>2, <1>3, <1>4, <1>5 DEF IInv

\* Each step of the process keeps the inductive invariant.
LEMMA NextIInv == IInv /\ [Next]_vars => IInv'
<1> SUFFICES ASSUME IInv, [Next]_vars PROVE IInv' OBVIOUS
<1>1. CASE Read BY <1>1, ReadKeeps
<1>2. CASE ReadEnds BY <1>2, ReadEndsKeeps
<1>3. CASE ParseRequest BY <1>3, ParseRequestKeeps
<1>4. CASE ContextFails BY <1>4, ContextFailsKeeps
<1>5. CASE Dispatch BY <1>5, DispatchKeeps
<1>6. CASE Inlined BY <1>6, InlinedKeeps
<1>7. CASE Drain BY <1>7, DrainKeeps
<1>8. CASE StopWatcher BY <1>8, StopWatcherKeeps
<1>9. CASE JoinWatcher BY <1>9, JoinWatcherKeeps
<1>10. CASE CloseDevice BY <1>10, CloseDeviceKeeps
<1>11. CASE CloseTransactions BY <1>11, CloseTransactionsKeeps
<1>12. CASE CloseHives BY <1>12, CloseHivesKeeps
<1>13. CASE ReadFails BY <1>13, ReadFailsKeeps
<1>14. CASE WatcherReceives BY <1>14, WatcherReceivesKeeps
<1>15. CASE WatcherCloses BY <1>15, WatcherClosesKeeps
<1>16. CASE WatcherStops BY <1>16, WatcherStopsKeeps
<1>17. CASE Hangup BY <1>17, HangupKeeps
<1>18. CASE Signal BY <1>18, SignalKeeps
<1>19. CASE \E i \in Requests : Send(i) BY <1>19, SendKeeps
<1>20. CASE \E i \in Requests : Handle(i) BY <1>20, HandleKeeps
<1>21. CASE \E i \in Requests : Lock(i) BY <1>21, LockKeeps
<1>22. CASE \E i \in Requests : WriteResponse(i) BY <1>22, WriteResponseKeeps
<1>23. CASE UNCHANGED vars
  BY <1>23 DEF vars, kernelVars, handlerVars, watchVars, IInv, TypeOK, Handlers, Placed, Ending,
     Ordered, InLoop, Framing, Drained, Joined, Live, Begun, NeedsBegin, Begins, BeginNotOvertaken
<1> QED BY <1>1, <1>2, <1>3, <1>4, <1>5, <1>6, <1>7, <1>8, <1>9, <1>10, <1>11, <1>12,
   <1>13, <1>14, <1>15, <1>16, <1>17, <1>18, <1>19, <1>20, <1>21, <1>22, <1>23 DEF Next,
   Main, Watcher, Serving, Finished

-----------------------------------------------------------------------------
\* The inductive invariant holds throughout.
THEOREM ServeInvariant == Spec => []IInv
<1>1. Init => IInv BY InitIInv
<1>2. IInv /\ [Next]_vars => IInv' BY NextIInv
<1> QED BY <1>1, <1>2, PTL DEF Spec

\* No request overtakes the BEGIN of its transaction (dispatch.go: BEGIN runs
\* inline): a request that misses its transaction comes after an ABORT.
THEOREM NeverOvertaken == Spec => []BeginNotOvertaken
<1>1. IInv => BeginNotOvertaken BY DEF IInv, Ordered
<1> QED BY <1>1, ServeInvariant, PTL

\* When run's deferred calls close things, no handler is live and the watcher
\* has been joined.
THEOREM NothingLeftRunning == Spec => []NothingOutlivesClose
<1>1. IInv => NothingOutlivesClose
  <2> SUFFICES ASSUME IInv, Joined PROVE NothingOutlivesClose
    BY DEF NothingOutlivesClose, Joined
  <2>1. watcher = "done" /\ \A i \in Requests : ~Live(i)
    BY DEF IInv, Ending, Joined, Drained
  <2>2. mu = Nobody BY <2>1 DEF IInv, TypeOK, Handlers, Live
  <2> QED BY <2>1, <2>2 DEF NothingOutlivesClose
<1> QED BY <1>1, ServeInvariant, PTL

\* Every request taken from the device is answered once, from its own bytes,
\* and exit status 0 says that the last one read was served too.
THEOREM EachAnswered == Spec => []AnsweredInv
<1>1. IInv => AnsweredInv
  <2> SUFFICES ASSUME IInv PROVE AnsweredInv OBVIOUS
  <2>1. main = "exited" => \A i \in Requests : handler[i] # "none" => handler[i] = "done"
    BY DEF IInv, TypeOK, Ending, Drained, Live
  <2>2. AnsweredOnce BY <2>1 DEF IInv, Handlers, AnsweredOnce
  <2>3. AnswersOwnRequest BY DEF IInv, Handlers, AnswersOwnRequest
  <2>4. CleanExitServedAll
    BY <2>1 DEF IInv, TypeOK, Ending, CleanExitServedAll
  <2> QED BY <2>2, <2>3, <2>4 DEF IInv, AnsweredInv
<1> QED BY <1>1, ServeInvariant, PTL
=============================================================================
