---------------------------- MODULE ClientServer ----------------------------
(***************************************************************************)
(* Messages between the core server (coreserver/server.py) and its clients *)
(* (coreclient/client.py) over the transceiver of coreserver/messages.py.  *)
(*                                                                         *)
(* A client is one thread.  A synchronous call sends a request and then    *)
(* processes messages until the one it waits for has come, another one     *)
(* raises an exception, or time is up; an asynchronous one only sends.     *)
(* The server is one thread, too.  It takes one message of each connection *)
(* that select() has returned, in the order of registration, and sends     *)
(* dumps, exceptions and maintenance requests to clients that did not ask. *)
(*                                                                         *)
(* A connection is reliable and keeps the order, but a client may close or *)
(* lose it at any time, and the server learns of that when it receives, or *)
(* when it sends.  Sending blocks while there is no room.                  *)
(***************************************************************************)
EXTENDS Naturals, Sequences, SequencesExt

CONSTANTS Clients,      \* the connections
          Requests,     \* the requests each client makes
          SeqNumbers,       \* the sequence numbers: 2^16
          UpRoom,       \* the messages a connection takes to the server
          DownRoom      \* and to the client

Ids == {"RUN", "STOP", "GET_RUNSTATE", "OPT", "REQ_MEMORY"}

ASSUME ClientServerAssumption ==
  /\ Requests \in [Clients -> SUBSET Ids]
  /\ SeqNumbers \in Nat \ {0} /\ UpRoom \in Nat \ {0} /\ DownRoom \in Nat \ {0}

VARIABLES conn,         \* the client's end of the connection
          txSeqCount,   \* the client's next sequence number
          call,         \* the synchronous call the client is in
          foreign,      \* history: calls that have returned another message than their answer
          up, down,     \* messages under way to the server and to the client
          clients,      \* __clients, in the order of registration
          sockList,     \* the clients select() has returned, those to come
          loop,         \* where the main loop of the server is
          mode,         \* __state, or the exception that has ended the server
          subs          \* what clients have subscribed to, and the flags made of it

client == <<conn, txSeqCount, call, foreign>>
vars == <<conn, txSeqCount, call, foreign, up, down, clients, sockList, loop, mode, subs>>

None == [id |-> "none", seq |-> 0]
Replies == [PING |-> "PONG", RUN |-> "REPLY", STOP |-> "REPLY", OPT |-> "REPLY",
            GET_RUNSTATE |-> "RUNSTATE"]
\* Requests a client sends without waiting, and calls that ignore maintenance.
Asynchronous == {"REQ_MEMORY"}
IgnoresMaintenance == {"RUN", "STOP"}

Registered == Range(clients)
Seqs == 0 .. SeqNumbers - 1
\* live is history: the client still waits for the answer to this request.
Request(id, seq, live) == [id |-> id, seq |-> seq, live |-> live]
Answer(m) == [id |-> Replies[m.id], to |-> [id |-> m.id, seq |-> m.seq], live |-> m.live]
Notice(id) == [id |-> id, to |-> None, live |-> FALSE]

TypeOK ==
  /\ conn \in [Clients -> {"none", "ping", "up", "closed"}]
  /\ txSeqCount \in [Clients -> Seqs]
  /\ call \in [Clients -> [id : Ids \cup {"none"}, seq : Seqs]]
  /\ foreign \subseteq Ids
  /\ \A c \in Clients : Len(up[c]) <= UpRoom /\ Len(down[c]) <= DownRoom
  /\ \A c \in Clients : \A i \in DOMAIN up[c] :
       up[c][i] \in [id : Ids \cup {"PING"}, seq : Seqs, live : BOOLEAN]
  /\ clients \in Seq(Clients) /\ sockList \in Seq(Clients)
  /\ IsInjective(clients) /\ IsInjective(sockList)
  /\ loop \in {"head", "wait", "comm"}
  /\ mode \in {"STOP", "RUN", "MAINTENANCE", "KeyError", "ValueError"}

Init ==
  /\ conn = [c \in Clients |-> "none"]
  /\ txSeqCount = [c \in Clients |-> 0]
  /\ call = [c \in Clients |-> None]
  /\ foreign = {}
  /\ up = [c \in Clients |-> <<>>] /\ down = [c \in Clients |-> <<>>]
  /\ clients = <<>> /\ sockList = <<>> /\ loop = "head" /\ mode = "STOP"
  /\ subs = [dumping |-> {}, reading |-> {}, blockExit |-> FALSE, haveMem |-> FALSE]

Halted == mode \in {"STOP", "MAINTENANCE"}
Alive == Halted \/ mode = "RUN"

(***************************************************************************)
(* Sending and receiving of the server                                     *)
(***************************************************************************)

\* The server sends out[c] to every client; what a closed end gets is lost.
Send(out) ==
  /\ \A c \in Clients : conn[c] # "closed" => Len(down[c]) + Len(out[c]) <= DownRoom
  /\ down' = [c \in Clients |-> IF conn[c] = "closed" THEN <<>> ELSE down[c] \o out[c]]
Only(c, m) == [d \in Clients |-> IF d = c THEN <<m>> ELSE <<>>]
Nobody == [c \in Clients |-> <<>>]
\* Which of the clients the server finds broken when it sends to them.
Broken(to) == SUBSET {c \in to : conn[c] = "closed"}

\* Mutant: a removed client leaves the flags as they are.
RemovedOnly(s, gone) == [s EXCEPT !.dumping = @ \ gone, !.reading = @ \ gone]
\* The subscriptions after clients have been removed, and after requests.
Removed(s, gone) ==
  IF gone = {} THEN s
  ELSE LET dumping == s.dumping \ gone
           reading == s.reading \ gone
       IN [dumping |-> dumping, reading |-> reading,
           blockExit |-> dumping # {}, haveMem |-> reading # {}]
WithDump(s, c, on) ==
  LET dumping == IF on THEN s.dumping \cup {c} ELSE s.dumping \ {c}
  IN [s EXCEPT !.dumping = dumping, !.blockExit = dumping # {}]
WithMemory(s, c) == [s EXCEPT !.reading = @ \cup {c}, !.haveMem = TRUE]

\* Those of the clients in s that are in S, in the order of s.
InOrder(t, s, S) ==
  /\ IsInjective(t) /\ Range(t) = Range(s) \cap S
  /\ \A i, j \in DOMAIN t : i < j => \E k, l \in DOMAIN s : k < l /\ s[k] = t[i] /\ s[l] = t[j]
Selected(s, S) == CHOOSE t \in SeqOf(S, Len(s)) : InOrder(t, s, S)

\* The clients are removed from the server; s is what is subscribed to before.
Leave(gone, s) ==
  /\ clients' = Selected(clients, Clients \ gone)
  /\ subs' = Removed(s, gone)
  /\ conn' = [c \in Clients |-> IF c \in gone THEN "none" ELSE conn[c]]
Kept == UNCHANGED <<clients, subs, conn>>

\* The pass ends; its exception has left the communication.
EndPass == sockList' = <<>> /\ loop' = "head"

\* The main loop takes an AwlSimError: the CPU stops, all clients are told.
Error ==
  /\ mode' = "STOP"
  /\ EndPass
  /\ Send([c \in Clients |-> IF c \in Registered THEN <<Notice("EXCEPTION")>> ELSE <<>>])
  /\ \E broken \in Broken(Registered) : Leave(broken, subs)

\* The main loop takes a MaintenanceRequest and tells the first client.
Maintenance ==
  /\ mode' = "MAINTENANCE"
  /\ EndPass
  /\ Send(IF clients = <<>> THEN Nobody ELSE Only(Head(clients), Notice("MAINTREQ")))
  /\ Kept

(***************************************************************************)
(* The main loop                                                           *)
(***************************************************************************)

Readable(c) == up[c] # <<>> \/ conn[c] = "closed"
Backlog == {c \in Clients \ Registered : conn[c] # "none"}
Waiting == Backlog # {} \/ \E c \in Registered : Readable(c)

\* Reports to subscribers: of a cycle to those whose turn it is, if the flags
\* are set, and in a halted CPU to all of them.
Reports(dumps, reads) ==
  /\ Send([c \in Clients |-> (IF c \in dumps THEN <<Notice("CPUDUMP")>> ELSE <<>>)
                          \o (IF c \in reads THEN <<Notice("MEMORY")>> ELSE <<>>)])
  /\ \E broken \in Broken(dumps \cup reads) : Leave(broken, subs)

Report ==
  /\ Halted /\ loop = "head"
  /\ loop' = "wait"
  /\ Reports(subs.dumping, subs.reading)
  /\ UNCHANGED <<txSeqCount, call, foreign, up, sockList, mode>>

Cycle ==
  /\ mode = "RUN" /\ loop = "head"
  /\ \/ /\ \E dumps \in SUBSET subs.dumping, reads \in SUBSET subs.reading :
             /\ dumps # {} => subs.blockExit
             /\ reads # {} => subs.haveMem
             /\ Reports(dumps, reads)
        /\ loop' = "comm"
        /\ UNCHANGED <<sockList, mode>>
     \/ Error
     \/ Maintenance
  /\ UNCHANGED <<txSeqCount, call, foreign, up>>

\* Mutant: only the first readable connection is handled.
FirstReadable == Selected(clients, {c \in Clients : Readable(c) /\ clients # <<>> /\ c = Head(clients)})
ReadableClients == Selected(clients, {c \in Clients : Readable(c)})

\* One connection is accepted, the others are handled as select() has found them.
Accepted == IF Backlog = {} THEN {<<>>} ELSE {<<c>> : c \in Backlog}
Select ==
  /\ Alive /\ loop \in {"wait", "comm"} /\ sockList = <<>> /\ Waiting
  /\ \E accepted \in Accepted : clients' = clients \o accepted
  /\ sockList' = ReadableClients
  /\ loop' = "comm"
  /\ UNCHANGED <<conn, txSeqCount, call, foreign, up, down, mode, subs>>

Silence ==
  /\ Alive /\ loop = "comm" /\ sockList = <<>> /\ ~Waiting
  /\ loop' = "head"
  /\ UNCHANGED <<client, up, down, clients, sockList, mode, subs>>

(***************************************************************************)
(* One message of the client whose turn it is                              *)
(***************************************************************************)

Turn == Alive /\ loop = "comm" /\ sockList # <<>> /\ UNCHANGED <<txSeqCount, call, foreign>>
NextTurn(c) == c = Head(sockList) /\ sockList' = Tail(sockList) /\ UNCHANGED loop
Receives(c, ids) ==
  /\ c = Head(sockList) /\ c \in Registered
  /\ up[c] # <<>> /\ Head(up[c]).id \in ids
  /\ up' = [up EXCEPT ![c] = Tail(@)]

\* The answer, with the subscriptions s; if it cannot be sent, the client goes.
Reply(c, s) ==
  /\ Send(Only(c, Answer(Head(up[c]))))
  /\ \E broken \in Broken({c}) : Leave(broken, s)

\* The connection is not a client's any more: there is no entry in __sock2client.
Vanished(c) ==
  /\ Turn /\ c = Head(sockList) /\ c \notin Registered
  /\ mode' = "KeyError"
  /\ UNCHANGED <<conn, up, down, clients, sockList, loop, subs>>

RemoteDied(c) ==
  /\ Turn /\ NextTurn(c) /\ c \in Registered /\ up[c] = <<>>
  /\ Leave({c}, subs)
  /\ UNCHANGED <<up, down, mode>>

Query(c) ==
  /\ Turn /\ NextTurn(c) /\ Receives(c, {"PING", "GET_RUNSTATE"})
  /\ Reply(c, subs)
  /\ UNCHANGED mode

SetOption(c) ==
  /\ Turn /\ NextTurn(c) /\ Receives(c, {"OPT"})
  /\ \E on \in BOOLEAN : Reply(c, WithDump(subs, c, on))
  /\ UNCHANGED mode

RequestMemory(c) ==
  /\ Turn /\ NextTurn(c) /\ Receives(c, {"REQ_MEMORY"})
  /\ subs' = WithMemory(subs, c)
  /\ UNCHANGED <<conn, down, clients, mode>>

StopOrStay(c) ==
  /\ Turn /\ NextTurn(c) /\ Receives(c, {"STOP"} \cup (IF mode = "RUN" THEN {"RUN"} ELSE {}))
  /\ Reply(c, subs)
  /\ mode' = (IF Head(up[c]).id = "STOP" THEN "STOP" ELSE mode)

\* The startup of a halted CPU runs OB 100, which dumps at the end of blocks.
\* The reply to a client that was dropped meanwhile cannot be sent, and
\* removing it a second time fails.
Startup(c) ==
  /\ Turn /\ NextTurn(c) /\ Halted /\ Receives(c, {"RUN"})
  /\ \E dumps \in SUBSET subs.dumping :
       /\ dumps # {} => subs.blockExit
       /\ Send([d \in Clients |-> (IF d \in dumps THEN <<Notice("CPUDUMP")>> ELSE <<>>)
                               \o (IF d = c THEN <<Answer(Head(up[c]))>> ELSE <<>>)])
       /\ \E broken \in Broken(dumps) :
            IF c \in broken
            THEN mode' = "ValueError" /\ Leave(broken, subs)
            ELSE mode' = "RUN" /\ \E unsent \in Broken({c}) : Leave(broken \cup unsent, subs)

StartupFails(c) ==
  /\ Turn /\ Halted /\ Receives(c, {"RUN"})
  /\ Error \/ Maintenance

Serve(c) ==
  Vanished(c) \/ RemoteDied(c) \/ Query(c) \/ SetOption(c) \/ RequestMemory(c)
    \/ StopOrStay(c) \/ Startup(c) \/ StartupFails(c)

Server == Report \/ Cycle \/ Select \/ Silence \/ \E c \in Clients : Serve(c)

(***************************************************************************)
(* The client                                                              *)
(***************************************************************************)

Client(c) == Alive /\ UNCHANGED <<clients, sockList, loop, mode, subs>>

\* Mutant: the sequence number is not masked.
Unmasked(seq) == seq + 1
NextSeq(seq) == (seq + 1) % SeqNumbers

\* No message under way carries the sequence number that comes next.
SeqIsFree(c) ==
  /\ \A i \in DOMAIN up[c] : up[c][i].seq # txSeqCount[c]
  /\ \A i \in DOMAIN down[c] : down[c][i].to.id # "none" => down[c][i].to.seq # txSeqCount[c]

\* Mutant: the sequence number is not compared.
IsReplyToId(m, request) == m.to.id = request.id
\* Does the message end the call?
IsReplyTo(m, request) == m.to = request
Matches(m, request) == m.id = Replies[request.id] /\ IsReplyTo(m, request)

Forget(q) == [i \in DOMAIN q |-> [q[i] EXCEPT !.live = FALSE]]
Deaf(c, rest) ==
  /\ up' = [up EXCEPT ![c] = Forget(@)]
  /\ down' = [down EXCEPT ![c] = Forget(rest)]

Connect(c) ==
  /\ Client(c) /\ conn[c] = "none" /\ c \notin Registered
  /\ conn' = [conn EXCEPT ![c] = "ping"]
  /\ txSeqCount' = [txSeqCount EXCEPT ![c] = NextSeq(0)]
  /\ call' = [call EXCEPT ![c] = None]
  /\ up' = [up EXCEPT ![c] = <<Request("PING", 0, FALSE)>>]
  /\ down' = [down EXCEPT ![c] = <<>>]
  /\ UNCHANGED foreign

\* The first message, or time, decides about the connection, which stays open
\* in any case.  Of another message than PONG the header only is read.
Connected(c) ==
  /\ Client(c) /\ conn[c] = "ping"
  /\ conn' = [conn EXCEPT ![c] = "up"]
  /\ down' = [down EXCEPT ![c] = IF @ # <<>> /\ Head(@).id = "PONG" THEN Tail(@) ELSE @]
  /\ UNCHANGED <<txSeqCount, call, foreign, up>>

Transmit(c, r, live) ==
  /\ Client(c) /\ conn[c] = "up" /\ call[c] = None
  /\ Len(up[c]) < UpRoom /\ SeqIsFree(c)
  /\ up' = [up EXCEPT ![c] = Append(@, Request(r, txSeqCount[c], live))]
  /\ txSeqCount' = [txSeqCount EXCEPT ![c] = NextSeq(@)]
  /\ UNCHANGED <<conn, down>>

Call(c, r) ==
  /\ r # "REQ_MEMORY"
  /\ Transmit(c, r, TRUE)
  /\ call' = [call EXCEPT ![c] = [id |-> r, seq |-> txSeqCount[c]]]
  /\ UNCHANGED foreign

Post(c, r) ==
  /\ r \in Asynchronous
  /\ Transmit(c, r, FALSE)
  /\ UNCHANGED <<call, foreign>>

\* The message is the one the call waits for.
Return(c) ==
  /\ Client(c) /\ conn[c] = "up" /\ call[c] # None /\ down[c] # <<>>
  /\ Matches(Head(down[c]), call[c])
  /\ foreign' = (IF Head(down[c]).live THEN foreign ELSE foreign \cup {call[c].id})
  /\ call' = [call EXCEPT ![c] = None]
  /\ Deaf(c, Tail(down[c]))
  /\ UNCHANGED <<conn, txSeqCount>>

\* Any other message goes to its handler, which raises what it carries.
Raises(c, m) ==
  m.id = "EXCEPTION" \/ (m.id = "MAINTREQ" /\ call[c].id \notin IgnoresMaintenance)
Handle(c) ==
  /\ Client(c) /\ conn[c] = "up" /\ down[c] # <<>>
  /\ call[c] # None => ~Matches(Head(down[c]), call[c])
  /\ IF call[c] # None /\ Raises(c, Head(down[c]))
     THEN call' = [call EXCEPT ![c] = None] /\ Deaf(c, Tail(down[c]))
     ELSE down' = [down EXCEPT ![c] = Tail(@)] /\ UNCHANGED <<call, up>>
  /\ UNCHANGED <<conn, txSeqCount, foreign>>

Timeout(c) ==
  /\ Client(c) /\ call[c] # None
  /\ call' = [call EXCEPT ![c] = None]
  /\ Deaf(c, down[c])
  /\ UNCHANGED <<conn, txSeqCount, foreign>>

\* The client closes its end, or is gone; what it has sent may still arrive.
Close(c) ==
  /\ Client(c) /\ conn[c] \in {"ping", "up"}
  /\ conn' = [conn EXCEPT ![c] = "closed"]
  /\ up' \in {[up EXCEPT ![c] = Forget(@)], [up EXCEPT ![c] = <<>>]}
  /\ down' = [down EXCEPT ![c] = <<>>]
  /\ call' = [call EXCEPT ![c] = None]
  /\ txSeqCount' = [txSeqCount EXCEPT ![c] = 0]
  /\ UNCHANGED foreign

ProcessMessage(c) == Connected(c) \/ Return(c) \/ Handle(c)

\* The server process has ended with an uncaught exception.
Ended == ~Alive /\ UNCHANGED vars

Next ==
  \/ Server
  \/ \E c \in Clients : Connect(c) \/ ProcessMessage(c) \/ Timeout(c) \/ Close(c)
  \/ \E c \in Clients : \E r \in Requests[c] : Call(c, r) \/ Post(c, r)
  \/ Ended

\* The server never stops working, and clients go on processing messages, as
\* the loops of a GUI or of a call that waits do.
Spec == Init /\ [][Next]_vars /\ WF_vars(Server) /\ \A c \in Clients : WF_vars(ProcessMessage(c))

(***************************************************************************)
(* Properties                                                              *)
(***************************************************************************)

\* What a synchronous call returns is the answer to that very call, never the
\* late answer to an earlier one that has timed out or was aborted by an
\* exception: a call that succeeds has been carried out since it was made.
\* (The measurements and getCpuStats() are not among the calls, see the README.)
AnswersItsCall == foreign = {}

\* The flags the cycle tests stand for the subscriptions of the clients the
\* server has, whichever way a client has left: nobody misses a report, and no
\* report is made for nobody.
FlagsAgree ==
  /\ subs.dumping \cup subs.reading \subseteq Registered
  /\ subs.blockExit = (subs.dumping # {})
  /\ subs.haveMem = (subs.reading # {})

\* If requests and cycles cease to fail, no connection waits for the server
\* forever, to be answered or to be found dead, whatever the others send.
Failure == sockList' = <<>> /\ sockList # <<>> /\ loop' = "head"
Served ==
  <>[][~Failure]_vars =>
    \A c \in Clients :
      []<>(c \in Registered /\ Readable(c) => ~Alive \/ (sockList # <<>> /\ c = Head(sockList)))
=============================================================================
