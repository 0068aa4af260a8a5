------------------------------ MODULE Loopback ------------------------------
(***************************************************************************)
(* One iteration of a subtest of the network benchmark                     *)
(* (benches/network.rs): tcp_stream, tcp_parallel, tcp_rtt or udp_pps, with*)
(* the threads each spawns.  In tcp_parallel every stream has a client and *)
(* a drain thread of its own; in tcp_stream and tcp_rtt the measuring      *)
(* thread is the client and the server thread drains (or echoes) itself.   *)
(*                                                                         *)
(* The loopback is the operating system's and whatever filters it: it may  *)
(* refuse a socket or a connect and break a connection.  Payloads are      *)
(* chunks; a connection holds at most Buffer of them.                      *)
(***************************************************************************)
EXTENDS Naturals

CONSTANTS
  Stream,     (* the streams of tcp_parallel                               *)
  Only,       (* the stream of tcp_stream and tcp_rtt                      *)
  Kinds,      (* the subtests to consider                                  *)
  Buffer,     (* chunks a connection, or a socket, holds                   *)
  MaxTries    (* bound on the writes that fit into the time budget         *)

ASSUME LoopbackAssumption ==
  /\ Only \in Stream
  /\ Kinds \subseteq {"stream", "parallel", "rtt", "udp"}
  /\ Buffer \in Nat \ {0}
  /\ MaxTries \in Nat \ {0}

VARIABLES
  kind,
  main,      (* the thread that runs run_subtest                           *)
  verdict,   (* what it returned                                           *)
  client,    (* where the client of each stream is                         *)
  conn,      (* each connection                                            *)
  inbuf,     (* chunks written and not yet read by the server              *)
  back,      (* echoes not yet read by the client                          *)
  tries,     (* writes or sends started                                    *)
  sent,      (* chunks the client counts                                   *)
  read,      (* history: chunks the server has read                        *)
  trips,     (* round trips the client counts                              *)
  server,    (* the thread that accepts                                    *)
  drain,     (* the thread that reads each accepted connection             *)
  drainer,   (* udp_pps' drain thread                                      *)
  stop,      (* and its flag                                               *)
  queue,     (* datagrams queued at its socket                             *)
  refused    (* history: streams whose connect was refused                 *)

clientVars == <<client, tries, sent, trips>>
dataVars   == <<inbuf, back, read>>
udpVars    == <<drainer, stop, queue>>
mainVars   == <<main, verdict>>
vars == <<kind, mainVars, clientVars, conn, dataVars, server, drain, udpVars, refused>>

Clients   == IF kind = "parallel" THEN Stream ELSE {Only}
Listening == server \in {"accept", "join"}

Return(v) == main' = "returned" /\ verdict' = v
At(c, l)  == client' = [client EXCEPT ![c] = l]

-----------------------------------------------------------------------------
(* Setting up: bind, then spawn the server.                                *)

BindFails ==
  /\ main = "start"
  /\ Return("error")
  /\ UNCHANGED <<clientVars, conn, dataVars, server, drain, udpVars, refused>>

BindTcp ==
  /\ main = "start"
  /\ kind # "udp"
  /\ main' = "measure"
  /\ server' = "accept"
  /\ client' = [c \in Stream |-> IF c \in Clients THEN "connect" ELSE "idle"]
  /\ UNCHANGED <<verdict, tries, sent, trips, conn, dataVars, drain, udpVars, refused>>

BindUdp ==
  /\ main = "start"
  /\ kind = "udp"
  /\ main' = "bindClient"
  /\ drainer' = "check"
  /\ UNCHANGED <<verdict, clientVars, conn, dataVars, server, drain, stop, queue, refused>>

-----------------------------------------------------------------------------
(* The client of a stream.                                                 *)

(* The kernel completes the connect: nobody has to have accepted it.       *)
Connect(c) ==
  /\ client[c] = "connect"
  /\ Listening
  /\ conn' = [conn EXCEPT ![c] = "queued"]
  /\ At(c, "connected")
  /\ UNCHANGED <<mainVars, tries, sent, trips, dataVars, server, drain, udpVars, refused>>

(* In tcp_parallel a refused stream counts 0.0; elsewhere the subtest is   *)
(* left with an error.                                                     *)
ConnectRefused(c) ==
  /\ client[c] = "connect"
  /\ At(c, "finished")
  /\ refused' = refused \union {c}
  /\ \/ kind = "parallel" /\ UNCHANGED mainVars
     \/ kind # "parallel" /\ Return("error")
  /\ UNCHANGED <<tries, sent, trips, conn, dataVars, server, drain, udpVars>>

(* set_nodelay fails: leaving drops the stream.  tcp_parallel ignores it.  *)
NoDelayFails(c) ==
  /\ client[c] = "connected"
  /\ kind # "parallel"
  /\ At(c, "finished")
  /\ Return("error")
  /\ UNCHANGED <<tries, sent, trips, conn, dataVars, server, drain, udpVars, refused>>

(* blast looks at the clock before its first write, throughput does not.   *)
Ready(c) ==
  /\ client[c] = "connected"
  /\ IF kind = "rtt"
     THEN /\ At(c, "writing")
          /\ tries' = [tries EXCEPT ![c] = @ + 1]
     ELSE /\ At(c, "between")
          /\ UNCHANGED tries
  /\ UNCHANGED <<mainVars, sent, trips, conn, dataVars, server, drain, udpVars, refused>>

WriteNext(c) ==
  /\ client[c] = "between"
  /\ tries[c] < MaxTries
  /\ tries' = [tries EXCEPT ![c] = @ + 1]
  /\ At(c, "writing")
  /\ UNCHANGED <<mainVars, sent, trips, conn, dataVars, server, drain, udpVars, refused>>

(* Faulty variant: the next ping is written before the echo was read.      *)
WrittenPipelined(c) ==
  /\ client[c] = "writing"
  /\ conn[c] \in {"queued", "open"}
  /\ inbuf[c] < Buffer
  /\ inbuf' = [inbuf EXCEPT ![c] = @ + 1]
  /\ sent' = [sent EXCEPT ![c] = @ + 1]
  /\ At(c, IF tries[c] = MaxTries /\ kind = "rtt" THEN "reading" ELSE "between")
  /\ UNCHANGED <<mainVars, tries, trips, conn, back, read, server, drain, udpVars, refused>>

(* write_all blocks while the connection is full and nobody reads.         *)
Written(c) ==
  /\ client[c] = "writing"
  /\ conn[c] \in {"queued", "open"}
  /\ inbuf[c] < Buffer
  /\ inbuf' = [inbuf EXCEPT ![c] = @ + 1]
  /\ sent' = [sent EXCEPT ![c] = @ + 1]
  /\ At(c, IF kind = "rtt" THEN "reading" ELSE "between")
  /\ UNCHANGED <<mainVars, tries, trips, conn, back, read, server, drain, udpVars, refused>>

(* blast stops; the ping-pong still tries to read, and goes on.            *)
WriteFails(c) ==
  /\ client[c] = "writing"
  /\ conn[c] = "broken"
  /\ At(c, IF kind = "rtt" THEN "reading" ELSE "finished")
  /\ UNCHANGED <<mainVars, tries, sent, trips, conn, dataVars, server, drain, udpVars, refused>>

(* Faulty variant: a round trip is counted as two units.                   *)
GotEchoTwice(c) ==
  /\ client[c] = "reading"
  /\ conn[c] # "broken"
  /\ back[c] > 0
  /\ back' = [back EXCEPT ![c] = @ - 1]
  /\ trips' = [trips EXCEPT ![c] = @ + 2]
  /\ At(c, "between")
  /\ UNCHANGED <<mainVars, tries, sent, conn, inbuf, read, server, drain, udpVars, refused>>

GotEcho(c) ==
  /\ client[c] = "reading"
  /\ conn[c] # "broken"
  /\ back[c] > 0
  /\ back' = [back EXCEPT ![c] = @ - 1]
  /\ trips' = [trips EXCEPT ![c] = @ + 1]
  /\ At(c, "between")
  /\ UNCHANGED <<mainVars, tries, sent, conn, inbuf, read, server, drain, udpVars, refused>>

NoEcho(c) ==
  /\ client[c] = "reading"
  /\ conn[c] = "broken"
  /\ At(c, "between")
  /\ UNCHANGED <<mainVars, tries, sent, trips, conn, dataVars, server, drain, udpVars, refused>>

(* The budget is over: the stream is dropped, which closes the connection. *)
BudgetOver(c) ==
  /\ client[c] = "between"
  /\ At(c, "finished")
  /\ UNCHANGED <<mainVars, tries, sent, trips, conn, dataVars, server, drain, udpVars, refused>>

Client(c) ==
  \/ Connect(c) \/ ConnectRefused(c) \/ NoDelayFails(c) \/ Ready(c) \/ WriteNext(c)
  \/ Written(c) \/ WriteFails(c) \/ GotEcho(c) \/ NoEcho(c) \/ BudgetOver(c)

-----------------------------------------------------------------------------
(* The server side.                                                        *)

(* The accept loop ends with the last of the connections it expects.       *)
Accept(c) ==
  /\ server = "accept"
  /\ conn[c] \in {"queued", "broken"}
  /\ drain[c] = "none"
  /\ conn' = IF conn[c] = "queued" THEN [conn EXCEPT ![c] = "open"] ELSE conn
  /\ drain' = [drain EXCEPT ![c] = "read"]
  /\ server' = IF \A d \in Clients \ {c} : drain[d] # "none" THEN "join" ELSE "accept"
  /\ UNCHANGED <<mainVars, clientVars, dataVars, udpVars, refused>>

(* No descriptor left, say: the loop is left with what was accepted.       *)
AcceptFails ==
  /\ server = "accept"
  /\ \E c \in Clients : conn[c] \in {"queued", "broken"} /\ drain[c] = "none"
  /\ server' = "join"
  /\ UNCHANGED <<mainVars, clientVars, conn, dataVars, drain, udpVars, refused>>

(* Faulty variant: the drains are not joined.                              *)
ServerEndsUnjoined ==
  /\ server = "join"
  /\ server' = "gone"
  /\ conn' = [c \in Stream |-> IF conn[c] = "queued" THEN "broken" ELSE conn[c]]
  /\ UNCHANGED <<mainVars, clientVars, dataVars, drain, udpVars, refused>>

(* Its drains have ended.  With it goes the listener, and the connections  *)
(* nobody accepted are reset.                                              *)
ServerEnds ==
  /\ server = "join"
  /\ \A c \in Clients : drain[c] # "read"
  /\ server' = "gone"
  /\ conn' = [c \in Stream |-> IF conn[c] = "queued" THEN "broken" ELSE conn[c]]
  /\ UNCHANGED <<mainVars, clientVars, dataVars, drain, udpVars, refused>>

DrainReads(c) ==
  /\ drain[c] = "read"
  /\ conn[c] = "open"
  /\ inbuf[c] > 0
  /\ inbuf' = [inbuf EXCEPT ![c] = @ - 1]
  /\ read' = [read EXCEPT ![c] = @ + 1]
  /\ back' = IF kind = "rtt" THEN [back EXCEPT ![c] = @ + 1] ELSE back
  /\ UNCHANGED <<mainVars, clientVars, conn, server, drain, udpVars, refused>>

(* The end of the stream, or an error.                                     *)
DrainEnds(c) ==
  /\ drain[c] = "read"
  /\ \/ conn[c] = "broken"
     \/ client[c] = "finished" /\ inbuf[c] = 0
  /\ drain' = [drain EXCEPT ![c] = "gone"]
  /\ UNCHANGED <<mainVars, clientVars, conn, dataVars, server, udpVars, refused>>

(* The connection is reset under both ends.                                *)
Break(c) ==
  /\ conn[c] \in {"queued", "open"}
  /\ drain[c] # "gone"
  /\ conn' = [conn EXCEPT ![c] = "broken"]
  /\ UNCHANGED <<mainVars, clientVars, dataVars, server, drain, udpVars, refused>>
-----------------------------------------------------------------------------
(* udp_pps.                                                                *)

(* The client socket cannot be bound or connected: nobody tells the drain. *)
ClientSocketFails ==
  /\ main = "bindClient"
  /\ Return("error")
  /\ UNCHANGED <<clientVars, conn, dataVars, server, drain, udpVars, refused>>

ClientSocket ==
  /\ main = "bindClient"
  /\ main' = "send"
  /\ UNCHANGED <<verdict, clientVars, conn, dataVars, server, drain, udpVars, refused>>

(* A datagram that finds the queue full is lost, sent or not.              *)
Send ==
  /\ main = "send"
  /\ tries[Only] < MaxTries
  /\ tries' = [tries EXCEPT ![Only] = @ + 1]
  /\ \/ /\ queue < Buffer
        /\ queue' = queue + 1
        /\ sent' = [sent EXCEPT ![Only] = @ + 1]
     \/ UNCHANGED <<queue, sent>>
  /\ UNCHANGED <<mainVars, client, trips, conn, dataVars, server, drain, drainer, stop, refused>>

(* Faulty variant: the drain is joined without having been told to stop.   *)
SendingOverSilently ==
  /\ main = "send"
  /\ tries[Only] > 0
  /\ main' = "join"
  /\ UNCHANGED <<stop, verdict, clientVars, conn, dataVars, server, drain, drainer, queue, refused>>

SendingOver ==
  /\ main = "send"
  /\ tries[Only] > 0
  /\ stop' = TRUE
  /\ main' = "join"
  /\ UNCHANGED <<verdict, clientVars, conn, dataVars, server, drain, drainer, queue, refused>>

(* The flag is looked at whenever the queue has been emptied.              *)
Drainer ==
  /\ \/ /\ drainer = "check"
        /\ drainer' = IF stop THEN "gone" ELSE "recv"
        /\ UNCHANGED queue
     \/ /\ drainer = "recv" /\ queue > 0
        /\ queue' = queue - 1
        /\ UNCHANGED drainer
     \/ /\ drainer = "recv" /\ queue = 0
        /\ drainer' = "check"
        /\ UNCHANGED queue
  /\ UNCHANGED <<mainVars, clientVars, conn, dataVars, server, drain, stop, refused>>

-----------------------------------------------------------------------------
(* Joining and returning.                                                  *)

Measured ==
  /\ main = "measure"
  /\ \A c \in Clients : client[c] = "finished"
  /\ main' = "join"
  /\ UNCHANGED <<verdict, clientVars, conn, dataVars, server, drain, udpVars, refused>>

(* Faulty variant: the server thread is not joined.                        *)
JoinedNobody ==
  /\ main = "join"
  /\ IF kind = "rtt" /\ trips[Only] = 0 THEN Return("error") ELSE Return("ok")
  /\ UNCHANGED <<clientVars, conn, dataVars, server, drain, udpVars, refused>>

(* No completed round trip is an error, no transferred byte is a value: 0. *)
Joined ==
  /\ main = "join"
  /\ IF kind = "udp" THEN drainer = "gone" ELSE server = "gone"
  /\ IF kind = "rtt" /\ trips[Only] = 0 THEN Return("error") ELSE Return("ok")
  /\ UNCHANGED <<clientVars, conn, dataVars, server, drain, udpVars, refused>>

Main ==
  \/ BindFails \/ BindTcp \/ BindUdp \/ ClientSocketFails \/ ClientSocket \/ Send
  \/ SendingOver \/ Measured \/ Joined

Server   == (\E c \in Stream : Accept(c)) \/ AcceptFails \/ ServerEnds
Drain(c) == DrainReads(c) \/ DrainEnds(c)

Init ==
  /\ kind \in Kinds
  /\ main = "start" /\ verdict = "none"
  /\ client = [c \in Stream |-> "idle"]
  /\ conn = [c \in Stream |-> "none"]
  /\ inbuf = [c \in Stream |-> 0] /\ back = [c \in Stream |-> 0]
  /\ tries = [c \in Stream |-> 0] /\ sent = [c \in Stream |-> 0]
  /\ read = [c \in Stream |-> 0] /\ trips = [c \in Stream |-> 0]
  /\ server = "none"
  /\ drain = [c \in Stream |-> "none"]
  /\ drainer = "none" /\ stop = FALSE /\ queue = 0
  /\ refused = {}

Thread ==
  Main \/ Server \/ Drainer \/ \E c \in Stream : Client(c) \/ Drain(c)

Next == (Thread \/ \E c \in Stream : Break(c)) /\ UNCHANGED kind

(* Every thread is scheduled; nothing breaks a connection on schedule.     *)
Fairness ==
  /\ WF_vars(Main /\ UNCHANGED kind)
  /\ WF_vars(Server /\ UNCHANGED kind)
  /\ WF_vars(Drainer /\ UNCHANGED kind)
  /\ \A c \in Stream : /\ WF_vars(Client(c) /\ UNCHANGED kind)
                       /\ WF_vars(Drain(c) /\ UNCHANGED kind)

Spec == Init /\ [][Next]_vars /\ Fairness

-----------------------------------------------------------------------------
(* Properties.                                                             *)

(* The threads stay where their code can be, and no count passes its bound.*)
TypeOK ==
  /\ kind \in Kinds
  /\ main \in {"start", "measure", "bindClient", "send", "join", "returned"}
  /\ verdict \in {"none", "ok", "error"}
  /\ client \in [Stream -> {"idle", "connect", "connected", "between", "writing", "reading",
                            "finished"}]
  /\ conn \in [Stream -> {"none", "queued", "open", "broken"}]
  /\ inbuf \in [Stream -> 0 .. Buffer] /\ back \in [Stream -> Nat]
  /\ tries \in [Stream -> 0 .. MaxTries]
  /\ sent \in [Stream -> 0 .. MaxTries]
  /\ read \in [Stream -> Nat]
  /\ trips \in [Stream -> 0 .. MaxTries]
  /\ server \in {"none", "accept", "join", "gone"}
  /\ drain \in [Stream -> {"none", "read", "gone"}]
  /\ drainer \in {"none", "check", "recv", "gone"}
  /\ stop \in BOOLEAN
  /\ queue \in 0 .. Buffer
  /\ refused \subseteq Stream

Quiet ==
  /\ server \in {"none", "gone"}
  /\ drainer \in {"none", "gone"}
  /\ \A c \in Stream : drain[c] # "read" /\ client[c] \in {"idle", "finished"}

(* A subtest that returns a value has left no thread behind that would     *)
(* disturb the next measurement (the joins at the end of each subtest).    *)
OkTearsDown == verdict = "ok" => Quiet

(* What is reported as throughput has crossed the loopback: every chunk    *)
(* counted was read by the other side, unless the connection was broken    *)
(* ("the rate is gated by the reader thread draining the socket").         *)
CountedIsRead ==
  verdict = "ok" /\ kind \in {"stream", "parallel"} =>
    \A c \in Stream : conn[c] = "broken" \/ read[c] = sent[c]

(* tcp_rtt has one message in flight, in one direction.                    *)
OneInFlight == kind = "rtt" => inbuf[Only] + back[Only] <= 1

(* A subtest returns, whatever is refused or broken, with one exception: an*)
(* acceptor that waits for a stream whose connect was refused.             *)
Returns ==
  <>(main = "returned" \/ (kind = "parallel" /\ refused # {} /\ server = "accept"))

(* README: "A blocked optional subtest doesn't lose the run. Endpoint      *)
(* protection refusing the loopback socket the `network` component needs   *)
(* [...] is recorded in `notes` and skipped".  A subtest always returns.   *)
BlockedSubtestReturns == <>(main = "returned")

(* network.rs: "Server threads are torn down (connection close, or a stop  *)
(* flag for the connectionless UDP case) before the function returns."     *)
TornDownBeforeReturn == main = "returned" => Quiet

=============================================================================
