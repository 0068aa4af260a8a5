--------------------------- MODULE LoopbackProofs ---------------------------
(***************************************************************************)
(* Loopback's safety for any number of streams, any buffer and any number  *)
(* of writes.                                                              *)
(***************************************************************************)
EXTENDS Loopback, TLAPS

-----------------------------------------------------------------------------
(* The inductive invariant.  The types alone are not inductive: that a     *)
(* count stays within its bound depends on where its client is.            *)

Counts ==
  \A c \in Stream :
    /\ sent[c] + (IF client[c] = "writing" THEN 1 ELSE 0) <= tries[c]
    /\ trips[c] + (IF client[c] \in {"writing", "reading"} THEN 1 ELSE 0) <= tries[c]
    /\ client[c] \in {"connect", "connected"} \/ main = "start" => tries[c] = 0

(* Which threads and connections a subtest has at all, and when.           *)
Shape ==
  /\ kind = "udp" => server = "none" /\ main # "measure"
  /\ kind # "udp" => drainer = "none" /\ main \notin {"bindClient", "send"}
  /\ \A c \in Stream :
       c \notin Clients \/ kind = "udp" \/ main = "start" =>
         client[c] = "idle" /\ conn[c] = "none" /\ drain[c] = "none"
  /\ main = "start" => server = "none" /\ drainer = "none"
  /\ verdict = "ok" => main = "returned"
  /\ main = "join" \/ verdict = "ok" =>
       \A c \in Stream : client[c] \in {"idle", "finished"}
  /\ verdict = "ok" => IF kind = "udp" THEN drainer = "gone" ELSE server = "gone"
  /\ server \in {"none", "gone"} =>
       \A c \in Stream : conn[c] # "queued" /\ drain[c] # "read"

(* Where the chunks of a stream are.                                       *)
FlowOf(c) ==
  /\ conn[c] # "broken" => sent[c] = read[c] + inbuf[c]
  /\ conn[c] = "none" => inbuf[c] = 0 /\ sent[c] = 0
  /\ conn[c] = "none" <=> client[c] \in {"idle", "connect"} \/ c \in refused
  /\ c \in refused => client[c] = "finished"
  /\ conn[c] = "open" => drain[c] # "none"
  /\ drain[c] = "gone" /\ conn[c] # "broken" => inbuf[c] = 0 /\ client[c] = "finished"

Flow == kind # "udp" => \A c \in Stream : FlowOf(c)

PingPong ==
  /\ inbuf[Only] + back[Only] <= 1
  /\ conn[Only] # "broken" /\ client[Only] # "reading" => inbuf[Only] + back[Only] = 0

Ping == kind = "rtt" => PingPong

IInv == TypeOK /\ Counts /\ Shape /\ Flow /\ Ping

LEMMA TypeStep == TypeOK /\ Counts /\ [Next]_vars => TypeOK'
<1> SUFFICES ASSUME TypeOK, Counts, [Next]_vars PROVE TypeOK'
  OBVIOUS
<1> USE LoopbackAssumption DEF TypeOK
<1>1. CASE UNCHANGED vars
  BY <1>1 DEF vars, mainVars, clientVars, dataVars, udpVars
<1>2. CASE Main /\ UNCHANGED kind
  <2>1. CASE BindFails \/ BindUdp \/ ClientSocketFails \/ ClientSocket \/ SendingOver \/ Measured
    <3>1. UNCHANGED <<client, tries, sent, trips, conn, inbuf, back, read, server, drain, queue,
                      refused>>
      BY <2>1 DEF BindFails, BindUdp, ClientSocketFails, ClientSocket, SendingOver, Measured,
                  clientVars, dataVars, udpVars
    <3>2. /\ main' \in {"start", "measure", "bindClient", "send", "join", "returned"}
          /\ verdict' \in {"none", "ok", "error"}
          /\ drainer' \in {"none", "check", "recv", "gone"}
          /\ stop' \in BOOLEAN
      BY <2>1 DEF BindFails, BindUdp, ClientSocketFails, ClientSocket, SendingOver, Measured,
                  Return, udpVars
    <3>3. QED
      BY <1>2, <3>1, <3>2
  <2>2. CASE BindTcp
    BY <1>2, <2>2 DEF BindTcp, clientVars, dataVars, udpVars
  <2>3. CASE Send
    <3>1. sent[Only] <= tries[Only]
      BY DEF Counts
    <3>2. QED
      BY <1>2, <2>3, <3>1 DEF Send, mainVars, dataVars
  <2>4. CASE Joined
    BY <1>2, <2>4 DEF Joined, Return, clientVars, dataVars, udpVars
  <2>5. QED
    BY <1>2, <2>1, <2>2, <2>3, <2>4 DEF Main
<1>3. CASE Server /\ UNCHANGED kind
  BY <1>3 DEF Server, Accept, AcceptFails, ServerEnds, mainVars, clientVars, dataVars, udpVars
<1>4. CASE Drainer /\ UNCHANGED kind
  BY <1>4 DEF Drainer, mainVars, clientVars, dataVars
<1>5. ASSUME NEW c \in Stream, Client(c), UNCHANGED kind PROVE TypeOK'
  <2>1. /\ sent[c] + (IF client[c] = "writing" THEN 1 ELSE 0) <= tries[c]
        /\ trips[c] + (IF client[c] \in {"writing", "reading"} THEN 1 ELSE 0) <= tries[c]
    BY DEF Counts
  <2>2. CASE Connect(c) \/ ConnectRefused(c) \/ NoDelayFails(c)
    BY <1>5, <2>2 DEF Connect, ConnectRefused, NoDelayFails, At, Return, mainVars, dataVars, udpVars
  <2>3. CASE Ready(c)
    <3>1. tries[c] = 0
      BY <2>3 DEF Counts, Ready
    <3>2. QED
      BY <1>5, <2>3, <3>1 DEF Ready, At, mainVars, dataVars, udpVars
  <2>4. CASE WriteNext(c) \/ WriteFails(c) \/ NoEcho(c) \/ BudgetOver(c)
    BY <1>5, <2>4 DEF WriteNext, WriteFails, NoEcho, BudgetOver, At, mainVars, dataVars, udpVars
  <2>5. CASE Written(c)
    BY <1>5, <2>1, <2>5 DEF Written, At, mainVars, udpVars
  <2>6. CASE GotEcho(c)
    BY <1>5, <2>1, <2>6 DEF GotEcho, At, mainVars, udpVars
  <2>7. QED
    BY <1>5, <2>2, <2>3, <2>4, <2>5, <2>6 DEF Client
<1>6. ASSUME NEW c \in Stream, Drain(c), UNCHANGED kind PROVE TypeOK'
  BY <1>6 DEF Drain, DrainReads, DrainEnds, mainVars, clientVars, dataVars, udpVars
<1>7. ASSUME NEW c \in Stream, Break(c), UNCHANGED kind PROVE TypeOK'
  BY <1>7 DEF Break, mainVars, clientVars, dataVars, udpVars
<1>8. QED
  BY <1>1, <1>2, <1>3, <1>4, <1>5, <1>6, <1>7 DEF Next, Thread

LEMMA CountsStep == TypeOK /\ Counts /\ Shape /\ [Next]_vars => Counts'
<1> SUFFICES ASSUME TypeOK, Counts, Shape, [Next]_vars, NEW s \in Stream
             PROVE  /\ sent'[s] + (IF client'[s] = "writing" THEN 1 ELSE 0) <= tries'[s]
                    /\ trips'[s] + (IF client'[s] \in {"writing", "reading"} THEN 1 ELSE 0)
                         <= tries'[s]
                    /\ client'[s] \in {"connect", "connected"} \/ main' = "start" => tries'[s] = 0
  BY DEF Counts
<1>a. /\ sent[s] + (IF client[s] = "writing" THEN 1 ELSE 0) <= tries[s]
      /\ trips[s] + (IF client[s] \in {"writing", "reading"} THEN 1 ELSE 0) <= tries[s]
      /\ client[s] \in {"connect", "connected"} \/ main = "start" => tries[s] = 0
      /\ main = "start" \/ kind = "udp" => client[s] = "idle"
  BY DEF Counts, Shape
<1> USE <1>a, LoopbackAssumption DEF TypeOK
<1>1. CASE UNCHANGED vars
  BY <1>1 DEF vars, mainVars, clientVars
<1>2. CASE Main /\ UNCHANGED kind
  <2>1. CASE BindFails \/ BindUdp \/ ClientSocketFails \/ ClientSocket \/ SendingOver \/ Measured
             \/ Joined
    BY <1>2, <2>1 DEF BindFails, BindUdp, ClientSocketFails, ClientSocket, SendingOver, Measured,
                      Joined, Return, clientVars
  <2>2. CASE BindTcp
    BY <1>2, <2>2 DEF BindTcp
  <2>3. CASE Send
    <3>1. client[s] = "idle" /\ main # "start"
      BY <2>3 DEF Send, Shape
    <3>2. QED
      BY <1>2, <2>3, <3>1 DEF Send, mainVars
  <2>4. QED
    BY <1>2, <2>1, <2>2, <2>3 DEF Main
<1>3. CASE Server /\ UNCHANGED kind
  BY <1>3 DEF Server, Accept, AcceptFails, ServerEnds, mainVars, clientVars
<1>4. CASE Drainer /\ UNCHANGED kind
  BY <1>4 DEF Drainer, mainVars, clientVars
<1>5. ASSUME NEW c \in Stream, Client(c), UNCHANGED kind
      PROVE  /\ sent'[s] + (IF client'[s] = "writing" THEN 1 ELSE 0) <= tries'[s]
             /\ trips'[s] + (IF client'[s] \in {"writing", "reading"} THEN 1 ELSE 0) <= tries'[s]
             /\ client'[s] \in {"connect", "connected"} \/ main' = "start" => tries'[s] = 0
  <2>1. main' # "start"
    <3>1. main # "start"
      BY <1>5 DEF Client, Connect, ConnectRefused, NoDelayFails, Ready, WriteNext, Written,
                  WriteFails, GotEcho, NoEcho, BudgetOver, Shape
    <3>2. QED
      BY <1>5, <3>1 DEF Client, Connect, ConnectRefused, NoDelayFails, Ready, WriteNext, Written,
                        WriteFails, GotEcho, NoEcho, BudgetOver, Return, mainVars
  <2>2. CASE s # c
    BY <1>5, <2>1, <2>2 DEF Client, Connect, ConnectRefused, NoDelayFails, Ready, WriteNext, Written,
                      WriteFails, GotEcho, NoEcho, BudgetOver, At
  <2>3. CASE s = c
    BY <1>5, <2>1, <2>3 DEF Client, Connect, ConnectRefused, NoDelayFails, Ready, WriteNext, Written,
                      WriteFails, GotEcho, NoEcho, BudgetOver, At
  <2>4. QED
    BY <2>2, <2>3
<1>6. ASSUME NEW c \in Stream, Drain(c) \/ Break(c)
      PROVE  UNCHANGED <<main, client, tries, sent, trips>>
  BY <1>6 DEF Drain, DrainReads, DrainEnds, Break, mainVars, clientVars
<1>7. QED
  BY <1>1, <1>2, <1>3, <1>4, <1>5, <1>6 DEF Next, Thread

LEMMA ShapeStep == TypeOK /\ Shape /\ Flow /\ [Next]_vars => Shape'
<1> SUFFICES ASSUME TypeOK, Shape, Flow, [Next]_vars PROVE Shape'
  OBVIOUS
<1> USE LoopbackAssumption DEF TypeOK
<1>1. CASE UNCHANGED vars
  BY <1>1 DEF vars, mainVars, clientVars, udpVars, Shape, Clients
<1>2. CASE Main /\ UNCHANGED kind
  <2>1. CASE BindFails \/ BindUdp \/ ClientSocketFails \/ ClientSocket \/ SendingOver
    BY <1>2, <2>1 DEF BindFails, BindUdp, ClientSocketFails, ClientSocket, SendingOver,
                      Return, clientVars, udpVars, Shape, Clients
  <2>2. CASE BindTcp
    BY <1>2, <2>2 DEF BindTcp, udpVars, Shape, Clients
  <2>3. CASE Send
    BY <1>2, <2>3 DEF Send, mainVars, Shape, Clients
  <2>4. CASE Measured
    BY <1>2, <2>4 DEF Measured, clientVars, udpVars, Shape, Clients
  <2>5. CASE Joined
    BY <1>2, <2>5 DEF Joined, Return, clientVars, udpVars, Shape, Clients
  <2>6. QED
    BY <1>2, <2>1, <2>2, <2>3, <2>4, <2>5 DEF Main
<1>3. CASE Server /\ UNCHANGED kind
  <2>1. ASSUME NEW c \in Stream, Accept(c) PROVE Shape'
    BY <1>3, <2>1 DEF Accept, mainVars, clientVars, udpVars, Shape, Clients
  <2>2. CASE AcceptFails
    BY <1>3, <2>2 DEF AcceptFails, mainVars, clientVars, udpVars, Shape, Clients
  <2>3. CASE ServerEnds
    BY <1>3, <2>3 DEF ServerEnds, mainVars, clientVars, udpVars, Shape, Clients
  <2>4. QED
    BY <1>3, <2>1, <2>2, <2>3 DEF Server
<1>4. CASE Drainer /\ UNCHANGED kind
  BY <1>4 DEF Drainer, mainVars, clientVars, Shape, Clients
<1>5. ASSUME NEW c \in Stream, Client(c), UNCHANGED kind PROVE Shape'
  <2>1. /\ kind # "udp" /\ c \in Clients /\ main \notin {"start", "join"} /\ verdict # "ok"
        /\ UNCHANGED <<server, drain, drainer>>
    BY <1>5 DEF Client, Connect, ConnectRefused, NoDelayFails, Ready, WriteNext, Written,
                WriteFails, GotEcho, NoEcho, BudgetOver, Shape, udpVars
  <2>2. client' = [client EXCEPT ![c] = client'[c]]
    BY <1>5 DEF Client, Connect, ConnectRefused, NoDelayFails, Ready, WriteNext, Written,
                WriteFails, GotEcho, NoEcho, BudgetOver, At
  <2>3. /\ main' = main \/ main' = "returned"
        /\ verdict' = verdict \/ verdict' = "error"
    BY <1>5 DEF Client, Connect, ConnectRefused, NoDelayFails, Ready, WriteNext, Written,
                WriteFails, GotEcho, NoEcho, BudgetOver, Return, mainVars
  <2>4. conn' = conn \/ (Listening /\ conn' = [conn EXCEPT ![c] = "queued"])
    BY <1>5 DEF Client, Connect, ConnectRefused, NoDelayFails, Ready, WriteNext, Written,
                WriteFails, GotEcho, NoEcho, BudgetOver
  <2>5. QED
    BY <1>5, <2>1, <2>2, <2>3, <2>4 DEF Shape, Clients, Listening
<1>6. ASSUME NEW c \in Stream, Drain(c), UNCHANGED kind PROVE Shape'
  BY <1>6 DEF Drain, DrainReads, DrainEnds, mainVars, clientVars, udpVars, Shape, Clients
<1>7. ASSUME NEW c \in Stream, Break(c), UNCHANGED kind PROVE Shape'
  BY <1>7 DEF Break, mainVars, clientVars, udpVars, Shape, Clients
<1>8. QED
  BY <1>1, <1>2, <1>3, <1>4, <1>5, <1>6, <1>7 DEF Next, Thread

LEMMA FlowStep == TypeOK /\ Shape /\ Flow /\ [Next]_vars => Flow'
<1> SUFFICES ASSUME TypeOK, Shape, Flow, [Next]_vars PROVE Flow'
  OBVIOUS
<1>k. kind' = kind
  BY DEF Next, vars
<1> SUFFICES ASSUME kind # "udp", NEW s \in Stream PROVE FlowOf(s)'
  BY <1>k DEF Flow
<1> USE LoopbackAssumption DEF TypeOK
<1>a. FlowOf(s)
  BY DEF Flow
<1>1. CASE UNCHANGED vars
  BY <1>1, <1>a DEF vars, clientVars, dataVars, FlowOf
<1>2. CASE Main /\ UNCHANGED kind
  <2>1. CASE BindFails \/ ClientSocketFails \/ ClientSocket \/ SendingOver \/ Measured \/ Joined
    BY <1>2, <1>a, <2>1 DEF BindFails, ClientSocketFails, ClientSocket, SendingOver, Measured,
                            Joined, clientVars, dataVars, FlowOf
  <2>2. CASE BindTcp
    <3>1. client[s] = "idle" /\ main = "start" /\ conn[s] = "none"
      BY <2>2 DEF BindTcp, Shape
    <3>2. QED
      BY <1>2, <1>a, <2>2, <3>1 DEF BindTcp, dataVars, FlowOf
  <2>3. CASE BindUdp \/ Send
    BY <2>3 DEF BindUdp, Send, Shape
  <2>4. QED
    BY <1>2, <2>1, <2>2, <2>3 DEF Main
<1>3. CASE Server /\ UNCHANGED kind
  BY <1>3, <1>a DEF Server, Accept, AcceptFails, ServerEnds, clientVars, dataVars, FlowOf
<1>4. CASE Drainer /\ UNCHANGED kind
  BY <1>4, <1>a DEF Drainer, clientVars, dataVars, FlowOf
<1>5. ASSUME NEW c \in Stream, Client(c), UNCHANGED kind PROVE FlowOf(s)'
  <2>0. FlowOf(c)
    BY DEF Flow
  <2>1. CASE Connect(c)
    BY <1>a, <2>0, <2>1 DEF Connect, At, dataVars, FlowOf
  <2>2. CASE ConnectRefused(c)
    BY <1>a, <2>0, <2>2 DEF ConnectRefused, At, dataVars, FlowOf
  <2>3. CASE NoDelayFails(c) \/ Ready(c) \/ WriteNext(c) \/ WriteFails(c) \/ NoEcho(c) \/ BudgetOver(c)
    BY <1>a, <2>0, <2>3 DEF NoDelayFails, Ready, WriteNext, WriteFails, NoEcho, BudgetOver, At,
                            dataVars, FlowOf
  <2>4. CASE Written(c)
    BY <1>a, <2>0, <2>4 DEF Written, At, FlowOf
  <2>5. CASE GotEcho(c)
    BY <1>a, <2>0, <2>5 DEF GotEcho, At, FlowOf
  <2>6. QED
    BY <1>5, <2>1, <2>2, <2>3, <2>4, <2>5 DEF Client
<1>6. ASSUME NEW c \in Stream, Drain(c) PROVE FlowOf(s)'
  <2>1. CASE DrainReads(c)
    BY <1>a, <2>1 DEF DrainReads, clientVars, FlowOf
  <2>2. CASE DrainEnds(c)
    BY <1>a, <2>2 DEF DrainEnds, clientVars, dataVars, FlowOf
  <2>3. QED
    BY <1>6, <2>1, <2>2 DEF Drain
<1>7. ASSUME NEW c \in Stream, Break(c) PROVE FlowOf(s)'
  BY <1>7, <1>a DEF Break, clientVars, dataVars, FlowOf
<1>8. QED
  BY <1>1, <1>2, <1>3, <1>4, <1>5, <1>6, <1>7 DEF Next, Thread

LEMMA PingStep == TypeOK /\ Shape /\ Flow /\ Ping /\ [Next]_vars => Ping'
<1> SUFFICES ASSUME TypeOK, Shape, Flow, Ping, [Next]_vars PROVE Ping'
  OBVIOUS
<1>k. kind' = kind
  BY DEF Next, vars
<1> SUFFICES ASSUME kind = "rtt" PROVE PingPong'
  BY <1>k DEF Ping
<1> USE LoopbackAssumption DEF TypeOK
<1>a. PingPong /\ FlowOf(Only)
  BY DEF Ping, Flow
<1>1. CASE UNCHANGED vars
  BY <1>1, <1>a DEF vars, clientVars, dataVars, PingPong
<1>2. CASE Main /\ UNCHANGED kind
  <2>1. CASE BindFails \/ ClientSocketFails \/ ClientSocket \/ SendingOver \/ Measured \/ Joined
    BY <1>2, <1>a, <2>1 DEF BindFails, ClientSocketFails, ClientSocket, SendingOver, Measured,
                            Joined, clientVars, dataVars, PingPong
  <2>2. CASE BindTcp
    <3>1. client[Only] = "idle"
      BY <2>2 DEF BindTcp, Shape
    <3>2. QED
      BY <1>2, <1>a, <2>2, <3>1 DEF BindTcp, dataVars, PingPong
  <2>3. CASE BindUdp \/ Send
    BY <2>3 DEF BindUdp, Send, Shape
  <2>4. QED
    BY <1>2, <2>1, <2>2, <2>3 DEF Main
<1>3. CASE Server /\ UNCHANGED kind
  BY <1>3, <1>a DEF Server, Accept, AcceptFails, ServerEnds, clientVars, dataVars, PingPong
<1>4. CASE Drainer /\ UNCHANGED kind
  BY <1>4, <1>a DEF Drainer, clientVars, dataVars, PingPong
<1>5. ASSUME NEW c \in Stream, Client(c), UNCHANGED kind PROVE PingPong'
  <2>1. CASE Connect(c)
    BY <1>a, <2>1 DEF Connect, At, dataVars, PingPong, FlowOf
  <2>2. CASE ConnectRefused(c) \/ NoDelayFails(c) \/ Ready(c) \/ WriteNext(c) \/ WriteFails(c)
             \/ NoEcho(c) \/ BudgetOver(c)
    BY <1>a, <2>2 DEF ConnectRefused, NoDelayFails, Ready, WriteNext, WriteFails, NoEcho,
                            BudgetOver, At, dataVars, PingPong
  <2>3. CASE Written(c)
    BY <1>a, <2>3 DEF Written, At, PingPong
  <2>4. CASE GotEcho(c)
    BY <1>a, <2>4 DEF GotEcho, At, PingPong
  <2>5. QED
    BY <1>5, <2>1, <2>2, <2>3, <2>4 DEF Client
<1>6. ASSUME NEW c \in Stream, Drain(c) PROVE PingPong'
  BY <1>6, <1>a DEF Drain, DrainReads, DrainEnds, clientVars, dataVars, PingPong
<1>7. ASSUME NEW c \in Stream, Break(c) PROVE PingPong'
  BY <1>7, <1>a DEF Break, clientVars, dataVars, PingPong
<1>8. QED
  BY <1>1, <1>2, <1>3, <1>4, <1>5, <1>6, <1>7 DEF Next, Thread

-----------------------------------------------------------------------------

LEMMA Inductive == Spec => []IInv
<1>1. Init => IInv
  <2>1. ASSUME Init PROVE TypeOK
    <3>1. 0 \in 0 .. Buffer /\ 0 \in 0 .. MaxTries
      BY LoopbackAssumption
    <3>2. /\ inbuf \in [Stream -> 0 .. Buffer] /\ back \in [Stream -> Nat]
          /\ tries \in [Stream -> 0 .. MaxTries] /\ sent \in [Stream -> 0 .. MaxTries]
          /\ read \in [Stream -> Nat] /\ trips \in [Stream -> 0 .. MaxTries]
      BY <2>1, <3>1 DEF Init
    <3>3. QED
      BY <2>1, <3>1, <3>2 DEF Init, TypeOK
  <2>2. ASSUME Init PROVE Counts
    <3>1. ASSUME NEW c \in Stream
          PROVE  client[c] = "idle" /\ tries[c] = 0 /\ sent[c] = 0 /\ trips[c] = 0
      BY <2>2 DEF Init
    <3>2. ASSUME NEW c \in Stream
          PROVE  /\ sent[c] + (IF client[c] = "writing" THEN 1 ELSE 0) <= tries[c]
                 /\ trips[c] + (IF client[c] \in {"writing", "reading"} THEN 1 ELSE 0) <= tries[c]
      BY <3>1
    <3>3. QED
      BY <3>1, <3>2 DEF Counts
  <2>3. Init => Shape
    BY DEF Init, Shape
  <2>4. Init => Flow /\ Ping
    BY LoopbackAssumption DEF Init, Flow, FlowOf, Ping, PingPong
  <2>5. QED
    BY <2>1, <2>2, <2>3, <2>4 DEF IInv
<1>2. IInv /\ [Next]_vars => IInv'
  BY TypeStep, CountsStep, ShapeStep, FlowStep, PingStep DEF IInv
<1>3. QED
  BY <1>1, <1>2, PTL DEF Spec

(* Every thread stays where its code can be and every count within its     *)
(* bound.                                                                  *)
THEOREM LoopbackTypeOK == Spec => []TypeOK
<1>1. IInv => TypeOK
  BY DEF IInv
<1>2. QED
  BY <1>1, Inductive, PTL

(* A subtest that returns a value leaves no thread running, whichever      *)
(* sockets were refused or broken.                                         *)
THEOREM LoopbackOkTearsDown == Spec => []OkTearsDown
<1>1. IInv => OkTearsDown
  <2> SUFFICES ASSUME IInv, verdict = "ok" PROVE Quiet
    BY DEF OkTearsDown
  <2>1. \A c \in Stream : client[c] \in {"idle", "finished"}
    BY DEF IInv, Shape
  <2>2. server \in {"none", "gone"} /\ drainer \in {"none", "gone"}
    BY DEF IInv, Shape
  <2>3. QED
    BY <2>1, <2>2 DEF Quiet, IInv, Shape
<1>2. QED
  BY <1>1, Inductive, PTL

(* A throughput that is returned counts only chunks the server has read,   *)
(* except on a stream that broke.                                          *)
THEOREM LoopbackCountedIsRead == Spec => []CountedIsRead
<1>1. IInv => CountedIsRead
  <2> SUFFICES ASSUME IInv, verdict = "ok", kind # "udp", NEW c \in Stream, conn[c] # "broken"
               PROVE  read[c] = sent[c]
    BY DEF CountedIsRead
  <2>1. FlowOf(c) /\ TypeOK
    BY DEF IInv, Flow
  <2>2. conn[c] # "queued" /\ drain[c] # "read"
    BY DEF IInv, Shape
  <2>3. conn[c] = "none" \/ (conn[c] = "open" /\ drain[c] = "gone")
    BY <2>1, <2>2 DEF FlowOf, TypeOK
  <2>4. QED
    BY <2>1, <2>3 DEF FlowOf, TypeOK
<1>2. QED
  BY <1>1, Inductive, PTL

(* The ping-pong has at most one message in flight.                        *)
THEOREM LoopbackOneInFlight == Spec => []OneInFlight
<1>1. IInv => OneInFlight
  BY DEF IInv, Ping, PingPong, OneInFlight
<1>2. QED
  BY <1>1, Inductive, PTL

=============================================================================
