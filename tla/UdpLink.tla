------------------------------ MODULE UdpLink ------------------------------
(***************************************************************************)
(* The switch between TCP and UDP: handleUdpReq() of ntserv and            *)
(* sendUdpReq() and handleUdpReply() of the client, over a TCP connection  *)
(* that keeps order and a UDP socket on each side, opened and closed at    *)
(* every switch, whose datagrams are lost, arrive late, in any order, or   *)
(* at a port that is closed (and then raise an error at the sender).       *)
(*                                                                         *)
(* Abstractions.  One packet per read().  25 updates pass before the timer *)
(* of the client runs out: it may do so at any time.  A datagram of the    *)
(* server is an update, or one with SWITCH_VERIFY in it, or the bare reply *)
(* of handleUdpReq(); a datagram of the client a command or COMM_VERIFY.   *)
(* COMM_MODE and COMM_UPDATE change what ntserv sends and not the link,    *)
(* and the sequence numbers decide which updates are used: left out.  A    *)
(* datagram is not duplicated.                                             *)
(***************************************************************************)
EXTENDS Naturals, Sequences, FiniteSets

CONSTANTS
  ClientPorts,    \* the ports the client may bind its socket to
  ServerPorts,    \* the ports the kernel may give to the socket of ntserv
  Closed,         \* the port of a socket that is not open, or not connected
  MayFail,        \* whether connUdpConn() of ntserv may fail
  MaxRequests,    \* bound: switches asked for by the user
  MaxDatagrams    \* bound: datagrams in flight in a direction

ASSUME UdpLinkAssumption ==
  /\ Closed \notin ClientPorts \cup ServerPorts
  /\ MayFail \in BOOLEAN
  /\ MaxRequests \in Nat /\ MaxDatagrams \in Nat

VARIABLES
  portSwap,   \* portSwap: ask for CONNMODE_PORT
  allowed,    \* udpAllowed, and the client is of UDPVERSION
  client,     \* mode, req, stat, timer: commMode, commModeReq, commStatus and
              \* commSwitchTimeout > 0; sock and peer: ports of udpSock; err:
              \* its pending error; waiting: inside recvUdpConn()
  server,     \* mode, port: commMode, udpClientPort; sock, peer, err as above;
              \* udpbuf: what the next datagram holds; blocked: inside read()
              \* of udpSock with nothing to read; swap: portswapflags; astray:
              \* history, doRead() has taken the TCP socket for udpSock
  requests,   \* CP_UDP_REQ packets on TCP
  buf,        \* SP_UDP_REPLY packets in buf[], not yet flushed
  replies,    \* SP_UDP_REPLY packets on TCP
  toServer,   \* datagrams in flight
  toClient,
  up,         \* the game goes on: ntserv is there
  asked,      \* requests of the user so far
  clean       \* history: the last request was made with nothing under way,
              \* and nothing has gone wrong since

config == <<portSwap, allowed>>
net == <<requests, buf, replies, toServer, toClient>>
vars == <<config, client, server, net, up, asked, clean>>

Request(what, port) == [what |-> what, port |-> port]
Reply(what, port) == [what |-> what, port |-> port]
Datagram(from, to, what) == [from |-> from, to |-> to, what |-> what]

Init ==
  /\ portSwap \in BOOLEAN /\ allowed \in BOOLEAN
  /\ client = [mode |-> "TCP", req |-> "TCP", stat |-> "CONNECTED", timer |-> FALSE,
               sock |-> Closed, peer |-> Closed, err |-> FALSE, waiting |-> FALSE]
  /\ server = [mode |-> "TCP", port |-> Closed, sock |-> Closed, peer |-> Closed,
               err |-> FALSE, udpbuf |-> "UPDATE", blocked |-> FALSE,
               swap |-> {}, astray |-> FALSE]
  /\ requests = <<>> /\ buf = <<>> /\ replies = <<>>
  /\ toServer = {} /\ toClient = {}
  /\ up = TRUE /\ asked = 0 /\ clean = TRUE

\* A socket takes what is sent to its port, once connected from its peer only.
Takes(s, d) == s.sock = d.to /\ s.peer \in {Closed, d.from}
CanWrite(s) == s.sock # Closed /\ s.peer # Closed /\ ~s.err
Close(s) == [s EXCEPT !.sock = Closed, !.peer = Closed, !.err = FALSE]

\* The datagrams in flight after one more is sent: a full network drops it.
With(flight, d) ==
  IF Cardinality(flight \cup {d}) <= MaxDatagrams THEN flight \cup {d} ELSE flight

SendToServer(d) == toServer' = With(toServer, d) /\ clean' = (clean /\ d \in toServer')
SendToClient(d) == toClient' = With(toClient, d) /\ clean' = (clean /\ d \in toClient')

-----------------------------------------------------------------------------
(* The client.                                                             *)

BackToTcp_NoReq(c) ==
  [Close(c) EXCEPT !.mode = "TCP", !.stat = "CONNECTED", !.timer = FALSE]
BackToTcp_NoStat(c) ==
  [Close(c) EXCEPT !.mode = "TCP", !.req = "TCP", !.timer = FALSE]

\* The client gives up UDP on its own: ntserv is not told.
BackToTcp(c) ==
  [Close(c) EXCEPT !.mode = "TCP", !.req = "TCP", !.stat = "CONNECTED", !.timer = FALSE]

\* sendServerPacket() of COMM_VERIFY: by UDP in TCP mode, by TCP in UDP mode.
SendVerify(c) ==
  \/ /\ c.mode = "UDP"
     /\ client' = c
     /\ requests' = Append(requests, Request("COMM_VERIFY", Closed))
     /\ UNCHANGED <<toServer, clean>>
  \/ /\ c.mode = "TCP" /\ CanWrite(c)
     /\ client' = c
     /\ SendToServer(Datagram(c.sock, c.peer, "COMM_VERIFY"))
     /\ UNCHANGED requests
  \/ /\ c.mode = "TCP" /\ ~CanWrite(c)
     /\ client' = BackToTcp(c)
     /\ clean' = FALSE
     /\ UNCHANGED <<requests, toServer>>

\* handleUdpReply(), by a client in the state c.
HandleUdpReply(c, reply) ==
  LET d == [c EXCEPT !.timer = FALSE] IN
  \/ /\ reply.what = "SWITCH_TCP_OK"
     /\ client' = IF c.mode = "TCP" THEN d
                  ELSE Close([d EXCEPT !.mode = "TCP", !.stat = "CONNECTED"])
     /\ UNCHANGED <<requests, toServer, clean>>
  \/ /\ reply.what = "SWITCH_UDP_OK"
     /\ c.mode = "UDP" \/ c.req # "UDP"
     /\ client' = d
     /\ UNCHANGED <<requests, toServer, clean>>
  \/ /\ reply.what = "SWITCH_UDP_OK"
     /\ c.mode = "TCP" /\ c.req = "UDP"
     /\ portSwap => c.sock # Closed
     /\ SendVerify([d EXCEPT !.stat = "VERIFY_UDP", !.timer = TRUE,
                             !.peer = IF portSwap THEN reply.port ELSE @])
  \/ \* connUdpConn() fails
     /\ reply.what = "SWITCH_UDP_OK"
     /\ c.mode = "TCP" /\ c.req = "UDP" /\ portSwap
     /\ client' = Close([d EXCEPT !.req = "TCP", !.stat = "CONNECTED"])
     /\ requests' = Append(requests, Request("COMM_TCP", Closed))
     /\ clean' = FALSE
     /\ UNCHANGED toServer
  \/ /\ reply.what = "SWITCH_DENIED"
     /\ client' = Close([d EXCEPT !.req = c.mode, !.stat = "CONNECTED"])
     /\ UNCHANGED <<requests, toServer, clean>>

\* Nothing is under way, and no datagram of the old connection can be taken
\* for one of the new: ntserv does not send to the port any more.
NothingUnderWay(port) ==
  /\ client.stat = "CONNECTED" /\ client.sock = Closed
  /\ requests = <<>> /\ buf = <<>> /\ replies = <<>>
  /\ toServer = {} /\ toClient = {}
  /\ port \notin {server.peer, server.port}

\* sendUdpReq(COMM_UDP).  A socket left open is used again, and without
\* portSwap the client waits for the first datagram.
RequestUdp ==
  /\ up /\ client.mode = "TCP" /\ client.req # "UDP" /\ ~client.waiting
  /\ asked < MaxRequests
  /\ asked' = asked + 1
  /\ \/ \E port \in (IF client.sock = Closed THEN ClientPorts ELSE {client.sock}) :
          /\ client' = [client EXCEPT !.req = "UDP", !.stat = "SWITCH_UDP", !.timer = TRUE,
                                      !.sock = port, !.waiting = ~portSwap]
          /\ requests' = Append(requests, Request("COMM_UDP", port))
          /\ clean' = NothingUnderWay(port)
     \/ \* openUdpConn() fails
        /\ client.sock = Closed
        /\ client' = [client EXCEPT !.req = "TCP", !.stat = "CONNECTED", !.timer = FALSE]
        /\ clean' = FALSE
        /\ UNCHANGED requests
  /\ UNCHANGED <<config, server, buf, replies, toServer, toClient, up>>

\* sendUdpReq(COMM_TCP).
RequestTcp ==
  /\ up /\ client.mode = "UDP" /\ client.req # "TCP"
  /\ asked < MaxRequests
  /\ asked' = asked + 1
  /\ client' = [client EXCEPT !.req = "TCP", !.stat = "SWITCH_TCP", !.timer = TRUE]
  /\ requests' = Append(requests, Request("COMM_TCP", Closed))
  /\ clean' = FALSE
  /\ UNCHANGED <<config, server, buf, replies, toServer, toClient, up>>

\* udpaction(UDP_FORCE_RESET).
ForceReset ==
  /\ up /\ ~client.waiting
  /\ asked < MaxRequests
  /\ asked' = asked + 1
  /\ requests' = IF client.req = "TCP" THEN requests
                 ELSE Append(requests, Request("COMM_TCP", Closed))
  /\ client' = BackToTcp(client)
  /\ clean' = FALSE
  /\ UNCHANGED <<config, server, buf, replies, toServer, toClient, up>>

\* recvUdpConn(): the first datagram says where to connect to, and is eaten.
RecvUdpConn ==
  /\ up /\ client.waiting
  /\ \E d \in toClient :
       /\ Takes(client, d)
       /\ client' = [client EXCEPT !.peer = d.from, !.waiting = FALSE]
       /\ toClient' = toClient \ {d}
  /\ UNCHANGED <<config, server, requests, buf, replies, toServer, up, asked, clean>>

\* recvUdpConn() fails, with the socket left open or (connect()) closed.
RecvUdpConnFails ==
  /\ up /\ client.waiting
  /\ LET c == [client EXCEPT !.req = "TCP", !.stat = "CONNECTED", !.timer = FALSE,
                             !.waiting = FALSE]
     IN client' \in {c, Close(c)}
  /\ requests' = Append(requests, Request("COMM_TCP", Closed))
  /\ clean' = FALSE
  /\ UNCHANGED <<config, server, buf, replies, toServer, toClient, up, asked>>

\* Any activity on udpSock ends the switch: readFromServer().
Activity ==
  IF client.stat = "VERIFY_UDP"
  THEN [client EXCEPT !.mode = "UDP", !.stat = "CONNECTED", !.timer = FALSE]
  ELSE client

ClientUdp ==
  /\ up /\ ~client.waiting
  /\ \E d \in toClient :
       /\ Takes(client, d)
       /\ toClient' = toClient \ {d}
       /\ \/ /\ d.what = "SWITCH_UDP_OK"
             /\ HandleUdpReply(Activity, Reply(d.what, d.from))
          \/ /\ d.what = "SWITCH_VERIFY"
             /\ client' = [Activity EXCEPT !.timer = FALSE]
             /\ UNCHANGED <<requests, toServer, clean>>
          \/ /\ d.what = "UPDATE"
             /\ client' = Activity
             /\ UNCHANGED <<requests, toServer, clean>>
  /\ UNCHANGED <<config, server, buf, replies, up, asked>>

\* read() of udpSock fails: doRead() connects it again, or gives up UDP.
ClientUdpError ==
  /\ up /\ ~client.waiting /\ client.err
  /\ client' \in {[Activity EXCEPT !.err = FALSE],
                  [BackToTcp(Activity) EXCEPT !.timer = Activity.timer]}
  /\ clean' = FALSE
  /\ UNCHANGED <<config, server, net, up, asked>>

ClientTcp ==
  /\ up /\ ~client.waiting /\ replies # <<>>
  /\ HandleUdpReply(client, Head(replies))
  /\ replies' = Tail(replies)
  /\ UNCHANGED <<config, server, buf, toClient, up, asked>>

\* dotimers().
Timeout ==
  /\ up /\ ~client.waiting /\ client.timer
  /\ client' = BackToTcp(client)
  /\ clean' = FALSE
  /\ UNCHANGED <<config, server, net, up, asked>>

\* sendServerPacket() of a command in UDP mode.
SendCommand ==
  /\ up /\ client.mode = "UDP"
  /\ \/ /\ CanWrite(client)
        /\ SendToServer(Datagram(client.sock, client.peer, "COMMAND"))
        /\ UNCHANGED client
     \/ /\ ~CanWrite(client)
        /\ client' = BackToTcp(client)
        /\ clean' = FALSE
        /\ UNCHANGED toServer
  /\ UNCHANGED <<config, server, requests, buf, replies, toClient, up, asked>>

-----------------------------------------------------------------------------
(* ntserv.                                                                 *)

CloseUdpConn_Flags(s) ==              \* a socket that was connected: so is the next
  IF s.sock = Closed THEN s ELSE Close(s)

\* closeUdpConn(): UDPRECEIVED stays, and without a socket all flags stay.
CloseUdpConn(s) ==
  IF s.sock = Closed THEN s
  ELSE [Close(s) EXCEPT !.swap = @ \ {"ENABLED", "CONNECTED"}, !.astray = FALSE]

SwitchOff_KeepsMode(s) == CloseUdpConn(s)
SwitchOff(s) == [CloseUdpConn(s) EXCEPT !.mode = "TCP"]

\* doRead() starts with portswapflags: it connects the socket it is to read to
\* the sender of the first datagram.  The flag left by an earlier connection
\* makes it do so with the TCP socket: then udpSock is not connected any more.
PortSwapDue(s) == s.swap = {"ENABLED", "UDPRECEIVED"}

ReadTcp(s) ==
  IF PortSwapDue(s) THEN [s EXCEPT !.swap = {"ENABLED", "CONNECTED"}, !.astray = TRUE] ELSE s

ReadUdp(s, from) ==
  LET r == [s EXCEPT !.swap = @ \cup {"UDPRECEIVED"}, !.blocked = FALSE]
  IN IF PortSwapDue(r) THEN [r EXCEPT !.swap = {"ENABLED", "CONNECTED"}, !.peer = from] ELSE r

\* The datagram or the error that select() reports on udpSock.
Readable == server.err \/ \E d \in toServer : Takes(server, d)

\* handleUdpReq() of COMM_UDP: a client that asks for UDP while in UDP mode
\* is not connected to us, so the old connection is dropped first.  When
\* select() had reported the old socket, the new one has its descriptor and
\* is read: ntserv blocks.
AcceptUdp(s, request, reported) ==
  LET enabled == IF portSwap THEN s.swap \cup {"ENABLED"} ELSE s.swap IN
  \E port \in ServerPorts :
    /\ server' = [s EXCEPT
                    !.port = request.port, !.sock = port,
                    !.peer = IF "ENABLED" \in enabled THEN Closed ELSE request.port,
                    !.udpbuf = "UPDATE", !.blocked = reported,
                    !.swap = IF reported THEN enabled \cup {"UDPRECEIVED"} ELSE enabled]
    /\ buf' = Append(buf, Reply("SWITCH_UDP_OK", port))
    /\ IF portSwap THEN UNCHANGED <<toClient, clean>>
       ELSE SendToClient(Datagram(port, request.port, "SWITCH_UDP_OK"))

\* UDP is not allowed, and an open socket stays, or connUdpConn() fails, and
\* the flag of the port swap stays.
DenyUdp(s, request) ==
  LET closed == [CloseUdpConn(s) EXCEPT !.port = request.port] IN
  /\ server' = IF ~allowed THEN [s EXCEPT !.port = request.port]
               ELSE IF portSwap THEN [closed EXCEPT !.swap = @ \cup {"ENABLED"}]
               ELSE closed
  /\ buf' = Append(buf, Reply("SWITCH_DENIED", Closed))
  /\ clean' = FALSE
  /\ UNCHANGED toClient

Verified_Stat(s) == [s EXCEPT !.mode = "VERIFY_UDP", !.udpbuf = "SWITCH_VERIFY"]
Verified(s) == [s EXCEPT !.mode = "UDP", !.udpbuf = "SWITCH_VERIFY"]

\* handleUdpReq(), by an ntserv in the state s.
HandleUdpReq(s, request, reported) ==
  \/ /\ request.what = "COMM_UDP"
     /\ \/ allowed /\ AcceptUdp(SwitchOff(s), request, reported)
        \/ (allowed => MayFail) /\ DenyUdp(IF s.mode = "UDP" THEN SwitchOff(s) ELSE s, request)
  \/ /\ request.what = "COMM_TCP"
     /\ server' = SwitchOff(s)
     /\ buf' = Append(buf, Reply("SWITCH_TCP_OK", Closed))
     /\ UNCHANGED <<toClient, clean>>
  \/ /\ request.what = "COMM_VERIFY"
     /\ server' = Verified(s)
     /\ UNCHANGED <<buf, toClient, clean>>

\* readFromClient(): TCP first, and then udpSock if select() had reported it.
ServerTcp ==
  /\ up /\ ~server.blocked /\ requests # <<>>
  /\ \E reported \in {FALSE, Readable} :
       HandleUdpReq(ReadTcp(server), Head(requests), reported)
  /\ requests' = Tail(requests)
  /\ UNCHANGED <<config, client, replies, toServer, up, asked>>

\* Other data on the TCP socket, when doRead() takes it for udpSock.  It
\* connects it to an address that recvfrom() has not filled in: this fails, or
\* the address happens to mean "disconnect", and the client is dead.
ServerTcpData ==
  /\ up /\ ~server.blocked /\ PortSwapDue(server)
  /\ server' = ReadTcp(server)
  /\ up' \in BOOLEAN
  /\ UNCHANGED <<config, client, net, asked, clean>>

ServerUdp ==
  /\ up /\ \E d \in toServer :
       /\ Takes(server, d)
       /\ toServer' = toServer \ {d}
       /\ LET s == ReadUdp(server, d.from)
          IN server' = IF d.what = "COMM_VERIFY" THEN Verified(s) ELSE s
  /\ UNCHANGED <<config, client, requests, buf, replies, toClient, up, asked, clean>>

\* read() of udpSock fails: doRead() connects it again, or marks the client dead.
ServerUdpError ==
  /\ up /\ server.err
  /\ LET s == [server EXCEPT !.swap = @ \cup {"UDPRECEIVED"}, !.err = FALSE, !.blocked = FALSE]
     IN \/ /\ server' = [s EXCEPT !.peer = server.port]
           /\ UNCHANGED up
        \/ /\ server' = SwitchOff(s)
           /\ up' = FALSE
  /\ clean' = FALSE
  /\ UNCHANGED <<config, client, net, asked>>

\* flushSockBuf().  A datagram goes out with every update of the UDP mode.
Flush ==
  /\ up /\ ~server.blocked
  /\ replies' = replies \o buf
  /\ buf' = <<>>
  /\ \/ /\ server.mode = "TCP"
        /\ UNCHANGED <<server, toClient, clean>>
     \/ /\ server.mode = "UDP" /\ CanWrite(server)
        /\ SendToClient(Datagram(server.sock, server.peer, server.udpbuf))
        /\ server' = [server EXCEPT !.udpbuf = "UPDATE"]
     \/ /\ server.mode = "UDP" /\ ~CanWrite(server)
        /\ server' = SwitchOff(server)
        /\ clean' = FALSE
        /\ UNCHANGED toClient
  /\ UNCHANGED <<config, client, requests, toServer, up, asked>>

\* The daemon ends an ntserv that does not show up (daemon.c:1078).
Ghostbust ==
  /\ up /\ server.blocked
  /\ up' = FALSE
  /\ UNCHANGED <<config, client, server, net, asked, clean>>

-----------------------------------------------------------------------------
(* The network.                                                            *)

Lose ==
  /\ up
  /\ \/ \E d \in toServer : toServer' = toServer \ {d} /\ UNCHANGED toClient
     \/ \E d \in toClient : toClient' = toClient \ {d} /\ UNCHANGED toServer
  /\ clean' = FALSE
  /\ UNCHANGED <<config, client, server, requests, buf, replies, up, asked>>

\* A datagram that no socket takes raises an error at the socket that sent it.
Refused(s, d) ==
  IF s.sock = d.from /\ s.peer = d.to THEN [s EXCEPT !.err = TRUE] ELSE s

Bounce ==
  /\ up
  /\ \/ \E d \in toServer :
          /\ ~Takes(server, d)
          /\ toServer' = toServer \ {d}
          /\ client' = Refused(client, d)
          /\ UNCHANGED <<server, toClient>>
     \/ \E d \in toClient :
          /\ ~Takes(client, d)
          /\ toClient' = toClient \ {d}
          /\ server' = Refused(server, d)
          /\ UNCHANGED <<client, toServer>>
  /\ clean' = FALSE
  /\ UNCHANGED <<config, requests, buf, replies, up, asked>>

-----------------------------------------------------------------------------
Next ==
  \/ RequestUdp \/ RequestTcp \/ ForceReset \/ RecvUdpConn \/ RecvUdpConnFails
  \/ ClientUdp \/ ClientUdpError \/ ClientTcp \/ Timeout \/ SendCommand
  \/ ServerTcp \/ ServerTcpData \/ ServerUdp \/ ServerUdpError \/ Flush \/ Ghostbust
  \/ Lose \/ Bounce

Spec == Init /\ [][Next]_vars

\* Both sides read what TCP brings, ntserv flushes at every update, the wait
\* of recvUdpConn() ends, and updates (critical packets, in UDP mode) reach
\* the client and run its timer down while ntserv lives.  Nothing is assumed
\* of UDP or of the user.
Fairness ==
  /\ WF_vars(ServerTcp) /\ WF_vars(Flush) /\ WF_vars(ClientTcp)
  /\ WF_vars(RecvUdpConnFails)
  /\ WF_vars(~server.blocked /\ Timeout)
  /\ WF_vars(Ghostbust)

FairSpec == Spec /\ Fairness

-----------------------------------------------------------------------------
Modes == {"TCP", "UDP"}
PortOr(ports) == ports \cup {Closed}
Requests == [what : {"COMM_UDP"}, port : ClientPorts]
            \cup [what : {"COMM_TCP", "COMM_VERIFY"}, port : {Closed}]
Replies == [what : {"SWITCH_TCP_OK", "SWITCH_UDP_OK", "SWITCH_DENIED"},
            port : PortOr(ServerPorts)]

FromClient == [from : ClientPorts, to : ServerPorts, what : {"COMM_VERIFY", "COMMAND"}]
FromServer == [from : ServerPorts, to : ClientPorts,
               what : {"SWITCH_UDP_OK", "SWITCH_VERIFY", "UPDATE"}]
ClientState == [mode : Modes, req : Modes,
                stat : {"CONNECTED", "SWITCH_UDP", "SWITCH_TCP", "VERIFY_UDP"},
                timer : BOOLEAN, sock : PortOr(ClientPorts), peer : PortOr(ServerPorts),
                err : BOOLEAN, waiting : BOOLEAN]
ServerState == [mode : Modes, port : PortOr(ClientPorts), sock : PortOr(ServerPorts),
                peer : PortOr(ClientPorts), err : BOOLEAN,
                udpbuf : {"UPDATE", "SWITCH_VERIFY"}, blocked : BOOLEAN,
                swap : SUBSET {"ENABLED", "CONNECTED", "UDPRECEIVED"}, astray : BOOLEAN]

TypeOK ==
  /\ portSwap \in BOOLEAN /\ allowed \in BOOLEAN
  /\ client \in ClientState
  /\ server \in ServerState
  /\ requests \in Seq(Requests)
  /\ buf \in Seq(Replies) /\ replies \in Seq(Replies)
  /\ toServer \subseteq FromClient
  /\ toClient \subseteq FromServer
  /\ up \in BOOLEAN /\ clean \in BOOLEAN
  /\ asked \in Nat

\* ntserv never writes its updates to a socket that is not there: the verify
\* request that puts it in UDP mode has come through an open udpSock, and
\* whatever closes that socket ends the mode (socket.c:2180).  The socket is
\* connected, too, unless doRead() has taken the TCP socket for it
\* (socket.c:942): then ntserv has no peer, and finds it at the next flush.
ServerModeHasSocket ==
  server.mode = "UDP" =>
    server.sock # Closed /\ (server.peer # Closed \/ server.astray)

\* A user who finds nothing under way may ask for a switch: sendUdpReq() does
\* not take the request for one in progress, whatever was lost, timed out or
\* answered late before.
IdleAccepts ==
  /\ client.stat = "CONNECTED"
  /\ requests = <<>> /\ buf = <<>> /\ replies = <<>>
  => client.req = client.mode

\* One request for UDP, made with nothing under way and followed by no loss,
\* error or impatience, brings both sides into UDP mode on one connection,
\* whatever each believed before ("drop out end and retry", socket.c:2263):
\* ntserv with the verify request, the client with what it gets then.  The
\* exception is TCP data that doRead() takes for the first datagram.
Recovers ==
  clean /\ ~server.astray /\ asked > 0 =>
    /\ client.stat = "VERIFY_UDP" /\ toServer = {} =>
         server.mode = "UDP" /\ server.peer = client.sock
    /\ client.stat = "CONNECTED" =>
         /\ client.mode = "UDP" /\ server.mode = "UDP"
         /\ client.sock = server.peer /\ client.peer = server.sock

\* A switch ends, in the one mode or the other: the reply that turns the
\* timer off (handleUdpReply()) never turns off the last thing that would
\* end it.
SwitchEnds == client.stat # "CONNECTED" ~> client.stat = "CONNECTED" \/ ~up
=============================================================================
