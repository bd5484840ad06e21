--------------------------- MODULE UdpLinkProofs ---------------------------
(***************************************************************************)
(* Proofs about the switch between TCP and UDP, for every set of ports,    *)
(* number of requests and size of the network.                             *)
(*                                                                         *)
(* ntserv is in UDP mode only with an open socket, and a connected one     *)
(* unless doRead() has taken the TCP socket for it.                        *)
(* handleUdpReq() takes COMM_VERIFY at its word, on whatever connection it *)
(* comes.  So the argument needs that the client never sends it by TCP     *)
(* (VerifyByUdpOnly); for the error of a socket, that the port of the      *)
(* client is known as long as a socket is open (PortKnown); and that a     *)
(* socket without a peer is flagged to be connected by its first datagram  *)
(* (SwapKnown).                                                            *)
(*                                                                         *)
(* A client that has finished may ask again, and one that has not finished *)
(* has something to come that will end its switch.  Both rest on TCP being *)
(* in order: what is under way there ends with what the client asked last. *)
(*                                                                         *)
(* A request that nothing disturbs succeeds: the invariant is the list of  *)
(* the stages of such a switch.                                            *)
(***************************************************************************)
EXTENDS UdpLink, TLAPS

SwitchRequests == [what : {"COMM_UDP"}, port : ClientPorts]
                  \cup [what : {"COMM_TCP"}, port : {Closed}]

VerifyByUdpOnly == requests \in Seq(SwitchRequests)
PortKnown ==
  IF server.sock = Closed THEN server.peer = Closed /\ ~server.err ELSE server.port # Closed
SwapKnown ==
  /\ "ENABLED" \in server.swap => portSwap
  /\ server.peer = Closed =>
       /\ server.sock # Closed => "ENABLED" \in server.swap
       /\ "CONNECTED" \in server.swap => server.astray

IInv == TypeOK /\ VerifyByUdpOnly /\ PortKnown /\ SwapKnown /\ ServerModeHasSocket

-----------------------------------------------------------------------------
(* Sequences.                                                              *)

LEMMA SeqFacts ==
  ASSUME NEW S, NEW s \in Seq(S), NEW e \in S
  PROVE  /\ Append(s, e) \in Seq(S)
         /\ s # <<>> => Head(s) \in S /\ Tail(s) \in Seq(S)
OBVIOUS

LEMMA Concatenated ==
  ASSUME NEW S, NEW s \in Seq(S), NEW t \in Seq(S)
  PROVE  s \o t \in Seq(S)
OBVIOUS

LEMMA SwitchRequestsAreRequests ==
  ASSUME NEW s \in Seq(SwitchRequests)
  PROVE  s \in Seq(Requests)
<1>1. SwitchRequests \subseteq Requests
  BY DEF SwitchRequests, Requests
<1> QED BY <1>1

-----------------------------------------------------------------------------
(* The client.                                                             *)

LEMMA CloseClient ==
  ASSUME NEW c \in ClientState
  PROVE  Close(c) \in ClientState /\ BackToTcp(c) \in ClientState
BY DEF Close, BackToTcp, ClientState, Modes, PortOr

LEMMA Sent ==
  ASSUME NEW flight, NEW S, flight \subseteq S, NEW d \in S
  PROVE  With(flight, d) \subseteq S
BY DEF With

LEMMA VerifySent ==
  ASSUME IInv, NEW c \in ClientState, c.mode = "TCP", SendVerify(c)
  PROVE  /\ client' \in ClientState
         /\ requests' = requests
         /\ toServer' \subseteq FromClient
         /\ clean' \in BOOLEAN
<1>1. CASE /\ CanWrite(c)
           /\ client' = c
           /\ SendToServer(Datagram(c.sock, c.peer, "COMM_VERIFY"))
           /\ UNCHANGED requests
  <2>1. Datagram(c.sock, c.peer, "COMM_VERIFY") \in FromClient
    BY <1>1 DEF CanWrite, ClientState, PortOr, Datagram, FromClient
  <2>2. toServer' \subseteq FromClient
    BY <1>1, <2>1, Sent DEF SendToServer, IInv, TypeOK
  <2> QED BY <1>1, <2>2 DEF SendToServer
<1>2. CASE /\ ~CanWrite(c)
           /\ client' = BackToTcp(c)
           /\ clean' = FALSE
           /\ UNCHANGED <<requests, toServer>>
  BY <1>2, CloseClient DEF IInv, TypeOK
<1> QED BY <1>1, <1>2 DEF SendVerify

LEMMA ReplyHandled ==
  ASSUME IInv, NEW c \in ClientState, NEW reply \in Replies, HandleUdpReply(c, reply)
  PROVE  /\ client' \in ClientState
         /\ requests' \in Seq(SwitchRequests)
         /\ toServer' \subseteq FromClient
         /\ clean' \in BOOLEAN
<1> DEFINE d == [c EXCEPT !.timer = FALSE]
<1>1. d \in ClientState /\ d.mode = c.mode
  BY DEF ClientState
<1> USE DEF IInv, TypeOK, VerifyByUdpOnly
<1>2. CASE /\ reply.what = "SWITCH_TCP_OK"
           /\ client' = IF c.mode = "TCP" THEN d
                        ELSE Close([d EXCEPT !.mode = "TCP", !.stat = "CONNECTED"])
           /\ UNCHANGED <<requests, toServer, clean>>
  <2>1. [d EXCEPT !.mode = "TCP", !.stat = "CONNECTED"] \in ClientState
    BY <1>1 DEF ClientState, Modes
  <2> QED BY <1>1, <1>2, <2>1, CloseClient
<1>3. CASE client' = d /\ UNCHANGED <<requests, toServer, clean>>
  BY <1>1, <1>3
<1>4. CASE /\ c.mode = "TCP"
           /\ SendVerify([d EXCEPT !.stat = "VERIFY_UDP", !.timer = TRUE,
                                   !.peer = IF portSwap THEN reply.port ELSE @])
  <2> DEFINE v == [d EXCEPT !.stat = "VERIFY_UDP", !.timer = TRUE,
                            !.peer = IF portSwap THEN reply.port ELSE @]
  <2>1. v \in ClientState /\ v.mode = "TCP"
    BY <1>1, <1>4 DEF ClientState, Replies
  <2>2. SendVerify(v)
    BY <1>4
  <2> HIDE DEF v
  <2> QED BY <2>1, <2>2, VerifySent
<1>5. CASE /\ client' = Close([d EXCEPT !.req = "TCP", !.stat = "CONNECTED"])
           /\ requests' = Append(requests, Request("COMM_TCP", Closed))
           /\ clean' = FALSE
           /\ UNCHANGED toServer
  <2>1. [d EXCEPT !.req = "TCP", !.stat = "CONNECTED"] \in ClientState
    BY <1>1 DEF ClientState, Modes
  <2>2. Request("COMM_TCP", Closed) \in SwitchRequests
    BY DEF Request, SwitchRequests
  <2> QED BY <1>5, <2>1, <2>2, CloseClient, SeqFacts
<1>6. CASE /\ client' = Close([d EXCEPT !.req = c.mode, !.stat = "CONNECTED"])
           /\ UNCHANGED <<requests, toServer, clean>>
  <2>1. [d EXCEPT !.req = c.mode, !.stat = "CONNECTED"] \in ClientState
    BY <1>1 DEF ClientState
  <2> QED BY <1>6, <2>1, CloseClient
<1> QED BY <1>2, <1>3, <1>4, <1>5, <1>6 DEF HandleUdpReply

-----------------------------------------------------------------------------
(* ntserv.                                                                 *)

\* What holds of the state of ntserv, s.
ServerOK(s) ==
  /\ s \in ServerState
  /\ IF s.sock = Closed THEN s.peer = Closed /\ ~s.err ELSE s.port # Closed
  /\ "ENABLED" \in s.swap => portSwap
  /\ s.peer = Closed => /\ s.sock # Closed => "ENABLED" \in s.swap
                        /\ "CONNECTED" \in s.swap => s.astray
  /\ s.mode = "UDP" => s.sock # Closed /\ (s.peer # Closed \/ s.astray)

LEMMA ClosedConn ==
  ASSUME NEW s, ServerOK(s), s.mode = "TCP" \/ s.sock # Closed
  PROVE  /\ CloseUdpConn(s) \in ServerState
         /\ CloseUdpConn(s).mode = s.mode
         /\ CloseUdpConn(s).sock = Closed /\ CloseUdpConn(s).peer = Closed
         /\ ~CloseUdpConn(s).err
         /\ "CONNECTED" \in CloseUdpConn(s).swap => CloseUdpConn(s).astray
         /\ "ENABLED" \in CloseUdpConn(s).swap => portSwap
<1>1. CASE s.sock = Closed
  BY <1>1 DEF ServerOK, CloseUdpConn
<1>2. CASE s.sock # Closed
  <2> DEFINE c == Close(s)
  <2>1. /\ c \in ServerState /\ c.mode = s.mode /\ c.sock = Closed /\ c.peer = Closed
        /\ ~c.err /\ c.swap = s.swap
    BY DEF ServerOK, Close, ServerState, PortOr
  <2>2. CloseUdpConn(s) = [c EXCEPT !.swap = @ \ {"ENABLED", "CONNECTED"}, !.astray = FALSE]
    BY <1>2 DEF CloseUdpConn
  <2> HIDE DEF c
  <2> DEFINE kept == c.swap \ {"ENABLED", "CONNECTED"}
  <2>3. /\ kept \in SUBSET {"ENABLED", "CONNECTED", "UDPRECEIVED"}
        /\ "ENABLED" \notin kept /\ "CONNECTED" \notin kept
    BY <2>1 DEF ServerState
  <2>4. CloseUdpConn(s) = [c EXCEPT !.swap = kept, !.astray = FALSE]
    BY <2>2
  <2> HIDE DEF kept
  <2> QED BY <2>1, <2>3, <2>4 DEF ServerState
<1> QED BY <1>1, <1>2

LEMMA SwitchedOff ==
  ASSUME NEW s, ServerOK(s)
  PROVE  /\ ServerOK(SwitchOff(s))
         /\ SwitchOff(s).mode = "TCP" /\ SwitchOff(s).sock = Closed /\ ~SwitchOff(s).err
<1> DEFINE c == CloseUdpConn(s)
<1>1. /\ c \in ServerState /\ c.sock = Closed /\ c.peer = Closed /\ ~c.err
      /\ "CONNECTED" \in c.swap => c.astray
      /\ "ENABLED" \in c.swap => portSwap
  BY ClosedConn DEF ServerOK, ServerState, Modes
<1>2. SwitchOff(s) = [c EXCEPT !.mode = "TCP"]
  BY DEF SwitchOff
<1> HIDE DEF c
<1> QED BY <1>1, <1>2 DEF ServerOK, ServerState, Modes

LEMMA TcpRead ==
  ASSUME NEW s, ServerOK(s)
  PROVE  /\ ServerOK(ReadTcp(s))
         /\ ReadTcp(s).mode = s.mode /\ ReadTcp(s).sock = s.sock /\ ReadTcp(s).peer = s.peer
         /\ ReadTcp(s).err = s.err /\ ReadTcp(s).port = s.port
         /\ ReadTcp(s).udpbuf = s.udpbuf
         /\ s.astray => ReadTcp(s).astray
<1>1. CASE ~PortSwapDue(s)
  BY <1>1 DEF ReadTcp
<1>2. CASE PortSwapDue(s)
  <2>1. ReadTcp(s) = [s EXCEPT !.swap = {"ENABLED", "CONNECTED"}, !.astray = TRUE]
    BY <1>2 DEF ReadTcp
  <2>2. {"ENABLED", "CONNECTED"} \in SUBSET {"ENABLED", "CONNECTED", "UDPRECEIVED"}
    OBVIOUS
  <2>3. portSwap
    BY <1>2 DEF PortSwapDue, ServerOK
  <2> DEFINE t == ReadTcp(s)
  <2>4. /\ t \in ServerState /\ t.mode = s.mode /\ t.sock = s.sock /\ t.peer = s.peer
        /\ t.err = s.err /\ t.port = s.port /\ t.udpbuf = s.udpbuf /\ t.astray
        /\ t.swap = {"ENABLED", "CONNECTED"}
    BY <2>1, <2>2 DEF ServerOK, ServerState
  <2> HIDE DEF t
  <2>5. ServerOK(t)
    BY <2>3, <2>4 DEF ServerOK
  <2> QED BY <2>4, <2>5 DEF t
<1> QED BY <1>1, <1>2

\* A socket without a peer is connected by the datagram it reads.
LEMMA UdpRead ==
  ASSUME NEW s, ServerOK(s), NEW from \in ClientPorts, s.sock # Closed
  PROVE  /\ ServerOK(ReadUdp(s, from))
         /\ ReadUdp(s, from).mode = s.mode /\ ReadUdp(s, from).sock = s.sock
         /\ ReadUdp(s, from).err = s.err /\ ReadUdp(s, from).astray = s.astray
         /\ ReadUdp(s, from).peer \in {s.peer, from}
         /\ ReadUdp(s, from).peer # Closed \/ s.astray
<1> DEFINE r == [s EXCEPT !.swap = @ \cup {"UDPRECEIVED"}, !.blocked = FALSE]
<1>0. from # Closed
  BY UdpLinkAssumption
<1>1. /\ r \in ServerState /\ r.mode = s.mode /\ r.sock = s.sock /\ r.err = s.err
      /\ r.astray = s.astray /\ r.peer = s.peer /\ r.port = s.port
      /\ r.swap = s.swap \cup {"UDPRECEIVED"}
  BY DEF ServerOK, ServerState
<1>2. ReadUdp(s, from) = IF PortSwapDue(r)
                         THEN [r EXCEPT !.swap = {"ENABLED", "CONNECTED"}, !.peer = from]
                         ELSE r
  BY DEF ReadUdp
<1> HIDE DEF r
<1>3. CASE PortSwapDue(r)
  <2>1. {"ENABLED", "CONNECTED"} \in SUBSET {"ENABLED", "CONNECTED", "UDPRECEIVED"}
    OBVIOUS
  <2>2. from \in PortOr(ClientPorts)
    BY DEF PortOr
  <2>3. ReadUdp(s, from) = [r EXCEPT !.swap = {"ENABLED", "CONNECTED"}, !.peer = from]
    BY <1>2, <1>3
  <2>4. /\ ReadUdp(s, from) \in ServerState
        /\ ReadUdp(s, from).mode = s.mode /\ ReadUdp(s, from).sock = s.sock
        /\ ReadUdp(s, from).err = s.err /\ ReadUdp(s, from).astray = s.astray
        /\ ReadUdp(s, from).peer = from /\ ReadUdp(s, from).port = s.port
    BY <1>1, <2>1, <2>2, <2>3 DEF ServerState
  <2>5. portSwap
    BY <1>1, <1>3 DEF PortSwapDue, ServerOK
  <2>6. s.port # Closed
    BY DEF ServerOK
  <2> QED BY <1>0, <2>4, <2>5, <2>6 DEF ServerOK
<1>4. CASE ~PortSwapDue(r)
  <2>1. ReadUdp(s, from) = r
    BY <1>2, <1>4
  <2>2. ASSUME s.peer = Closed PROVE s.astray
    <3>1. "ENABLED" \in s.swap /\ ("CONNECTED" \in s.swap => s.astray)
      BY <2>2 DEF ServerOK
    <3>2. CASE "CONNECTED" \in s.swap
      BY <3>1, <3>2
    <3>3. CASE "CONNECTED" \notin s.swap
      <4>1. s.swap \subseteq {"ENABLED", "CONNECTED", "UDPRECEIVED"}
        BY DEF ServerOK, ServerState
      <4>2. r.swap = {"ENABLED", "UDPRECEIVED"}
        BY <1>1, <3>1, <3>3, <4>1
      <4> QED BY <1>4, <4>2 DEF PortSwapDue
    <3> QED BY <3>2, <3>3
  <2>3. ServerOK(r)
    BY <1>1, <2>2 DEF ServerOK
  <2> QED BY <1>1, <2>1, <2>2, <2>3
<1> QED BY <1>3, <1>4

LEMMA RequestHandled ==
  ASSUME IInv, NEW s, ServerOK(s), NEW request \in SwitchRequests, NEW reported \in BOOLEAN,
         HandleUdpReq(s, request, reported)
  PROVE  /\ ServerOK(server')
         /\ buf' \in Seq(Replies)
         /\ toClient' \subseteq FromServer
         /\ clean' \in BOOLEAN
<1> USE DEF IInv, TypeOK
<1>1. request.what # "COMM_VERIFY"
  BY DEF SwitchRequests
<1>2. CASE request.what = "COMM_UDP" /\ AcceptUdp(SwitchOff(s), request, reported)
  <2> DEFINE o == SwitchOff(s)
             enabled == IF portSwap THEN o.swap \cup {"ENABLED"} ELSE o.swap
             received == IF reported THEN enabled \cup {"UDPRECEIVED"} ELSE enabled
  <2>1. request.port \in ClientPorts /\ request.port # Closed
    BY <1>2, UdpLinkAssumption DEF SwitchRequests
  <2>2. PICK port \in ServerPorts :
          /\ server' = [o EXCEPT
                          !.port = request.port, !.sock = port,
                          !.peer = IF "ENABLED" \in enabled THEN Closed ELSE request.port,
                          !.udpbuf = "UPDATE", !.blocked = reported, !.swap = received]
          /\ buf' = Append(buf, Reply("SWITCH_UDP_OK", port))
          /\ IF portSwap THEN UNCHANGED <<toClient, clean>>
             ELSE SendToClient(Datagram(port, request.port, "SWITCH_UDP_OK"))
    BY <1>2 DEF AcceptUdp
  <2>3. /\ o \in ServerState /\ o.mode = "TCP" /\ ~o.err
        /\ "CONNECTED" \in o.swap => o.astray
        /\ "ENABLED" \in enabled => portSwap
    BY SwitchedOff DEF ServerOK
  <2>4. ServerOK(server')
    <3> HIDE DEF o
    <3>0. port # Closed /\ port \in PortOr(ServerPorts) /\ request.port \in PortOr(ClientPorts)
      BY <2>1, UdpLinkAssumption DEF PortOr
    <3>1. /\ received \in SUBSET {"ENABLED", "CONNECTED", "UDPRECEIVED"}
          /\ "ENABLED" \in received <=> "ENABLED" \in enabled
          /\ "CONNECTED" \in received => "CONNECTED" \in o.swap
      BY <2>3 DEF ServerState
    <3> HIDE DEF received, enabled
    <3>2. /\ server' \in ServerState /\ server'.mode = "TCP" /\ server'.sock = port
          /\ server'.port = request.port /\ server'.swap = received /\ server'.astray = o.astray
          /\ server'.peer = IF "ENABLED" \in enabled THEN Closed ELSE request.port
      BY <2>2, <2>3, <3>0, <3>1 DEF ServerState, PortOr
    <3> QED BY <2>1, <2>3, <3>0, <3>1, <3>2 DEF ServerOK
  <2>5. Reply("SWITCH_UDP_OK", port) \in Replies
    BY DEF Reply, Replies, PortOr
  <2>6. Datagram(port, request.port, "SWITCH_UDP_OK") \in FromServer
    BY <2>1 DEF Datagram, FromServer
  <2>7. toClient' \subseteq FromServer
    BY <2>2, <2>6, Sent DEF SendToClient
  <2>8. clean' \in BOOLEAN
    BY <2>2 DEF SendToClient
  <2> QED BY <2>2, <2>4, <2>5, <2>7, <2>8, SeqFacts
<1>3. CASE /\ request.what = "COMM_UDP"
           /\ DenyUdp(IF s.mode = "UDP" THEN SwitchOff(s) ELSE s, request)
  <2> DEFINE t == IF s.mode = "UDP" THEN SwitchOff(s) ELSE s
             c == CloseUdpConn(t)
             closed == [c EXCEPT !.port = request.port]
  <2>1. request.port \in ClientPorts /\ request.port # Closed
    BY <1>3, UdpLinkAssumption DEF SwitchRequests
  <2>2. ServerOK(t) /\ t.mode = "TCP"
    BY SwitchedOff DEF ServerOK, ServerState, Modes
  <2> HIDE DEF t
  <2>3. /\ c \in ServerState /\ c.mode = "TCP" /\ c.sock = Closed /\ c.peer = Closed /\ ~c.err
        /\ "CONNECTED" \in c.swap => c.astray
        /\ "ENABLED" \in c.swap => portSwap
    BY <2>2, ClosedConn
  <2> HIDE DEF c
  <2>4. ServerOK([t EXCEPT !.port = request.port])
    BY <2>1, <2>2 DEF ServerOK, ServerState, PortOr
  <2>5. /\ closed \in ServerState /\ closed.mode = "TCP" /\ closed.sock = Closed
        /\ closed.peer = Closed /\ ~closed.err /\ closed.swap = c.swap
        /\ closed.astray = c.astray
    BY <2>1, <2>3 DEF ServerState, PortOr
  <2> HIDE DEF closed
  <2>6. /\ ServerOK(closed)
        /\ portSwap => ServerOK([closed EXCEPT !.swap = @ \cup {"ENABLED"}])
    <3>1. ServerOK(closed)
      BY <2>3, <2>5 DEF ServerOK
    <3>2. closed.swap \cup {"ENABLED"} \in SUBSET {"ENABLED", "CONNECTED", "UDPRECEIVED"}
      BY <2>5 DEF ServerState
    <3> QED BY <2>3, <2>5, <3>1, <3>2 DEF ServerOK, ServerState
  <2>7. Reply("SWITCH_DENIED", Closed) \in Replies
    BY DEF Reply, Replies, PortOr
  <2>8. /\ server' = IF ~allowed THEN [t EXCEPT !.port = request.port]
                     ELSE IF portSwap THEN [closed EXCEPT !.swap = @ \cup {"ENABLED"}]
                     ELSE closed
        /\ buf' = Append(buf, Reply("SWITCH_DENIED", Closed))
        /\ clean' = FALSE
        /\ UNCHANGED toClient
    BY <1>3 DEF DenyUdp, t, closed, c
  <2> QED BY <2>4, <2>6, <2>7, <2>8, SeqFacts
<1>4. CASE /\ server' = SwitchOff(s)
           /\ buf' = Append(buf, Reply("SWITCH_TCP_OK", Closed))
           /\ UNCHANGED <<toClient, clean>>
  <2>1. Reply("SWITCH_TCP_OK", Closed) \in Replies
    BY DEF Reply, Replies, PortOr
  <2> QED BY <1>4, <2>1, SwitchedOff, SeqFacts
<1> QED BY <1>1, <1>2, <1>3, <1>4 DEF HandleUdpReq

\* The invariant, with the state of ntserv in one piece.
LEMMA IInvParts ==
  IInv <=> /\ portSwap \in BOOLEAN /\ allowed \in BOOLEAN
           /\ client \in ClientState
           /\ ServerOK(server)
           /\ requests \in Seq(SwitchRequests)
           /\ buf \in Seq(Replies) /\ replies \in Seq(Replies)
           /\ toServer \subseteq FromClient
           /\ toClient \subseteq FromServer
           /\ up \in BOOLEAN /\ clean \in BOOLEAN
           /\ asked \in Nat
BY SwitchRequestsAreRequests
   DEF IInv, TypeOK, VerifyByUdpOnly, PortKnown, SwapKnown, ServerModeHasSocket, ServerOK

-----------------------------------------------------------------------------
(* Every step.                                                             *)

LEMMA InitInvariant == Init => IInv
<1>1. <<>> \in Seq(SwitchRequests) /\ <<>> \in Seq(Replies)
  OBVIOUS
<1> SUFFICES ASSUME Init PROVE IInv
  OBVIOUS
<1>2. client \in ClientState
  BY DEF Init, ClientState, Modes, PortOr
<1>3. ServerOK(server)
  BY DEF Init, ServerOK, ServerState, Modes, PortOr
<1> QED BY <1>1, <1>2, <1>3, IInvParts DEF Init

\* The steps of the client leave ntserv alone.
LEMMA ClientStep ==
  ASSUME IInv,
         \/ RequestUdp \/ RequestTcp \/ ForceReset \/ RecvUdpConn \/ RecvUdpConnFails
         \/ ClientUdp \/ ClientUdpError \/ ClientTcp \/ Timeout \/ SendCommand
  PROVE  IInv'
<1> DEFINE Kept == /\ client' \in ClientState
                   /\ requests' \in Seq(SwitchRequests)
                   /\ replies' \in Seq(Replies)
                   /\ toServer' \subseteq FromClient
                   /\ toClient' \subseteq FromServer
                   /\ clean' \in BOOLEAN
                   /\ asked' \in Nat
                   /\ UNCHANGED <<config, server, buf, up>>
<1>1. SUFFICES Kept
  BY IInvParts DEF ServerOK, config, IInv, TypeOK, VerifyByUdpOnly, PortKnown,
                   SwapKnown, ServerModeHasSocket, SwitchRequests, Requests
<1>0. /\ client \in ClientState
      /\ ServerOK(server)
      /\ requests \in Seq(SwitchRequests)
      /\ buf \in Seq(Replies) /\ replies \in Seq(Replies)
      /\ toServer \subseteq FromClient
      /\ toClient \subseteq FromServer
      /\ clean \in BOOLEAN
      /\ asked \in Nat
  BY IInvParts
<1>a. asked + 1 \in Nat
  BY <1>0
<1> USE <1>0 DEF config, net
<1>2. Request("COMM_TCP", Closed) \in SwitchRequests
  BY DEF Request, SwitchRequests
<1>3. CASE RequestUdp
  <2>1. asked' \in Nat /\ UNCHANGED <<config, server, buf, replies, toServer, toClient, up>>
    BY <1>3, <1>a DEF RequestUdp
  <2>2. CASE \E port \in (IF client.sock = Closed THEN ClientPorts ELSE {client.sock}) :
                /\ client' = [client EXCEPT !.req = "UDP", !.stat = "SWITCH_UDP",
                               !.timer = TRUE, !.sock = port, !.waiting = ~portSwap]
                /\ requests' = Append(requests, Request("COMM_UDP", port))
                /\ clean' = NothingUnderWay(port)
    <3>1. PICK port \in (IF client.sock = Closed THEN ClientPorts ELSE {client.sock}) :
                /\ client' = [client EXCEPT !.req = "UDP", !.stat = "SWITCH_UDP",
                               !.timer = TRUE, !.sock = port, !.waiting = ~portSwap]
                /\ requests' = Append(requests, Request("COMM_UDP", port))
                /\ clean' = NothingUnderWay(port)
      BY <2>2
    <3>2. port \in ClientPorts
      BY <3>1 DEF ClientState, PortOr
    <3>3. client' \in ClientState
      BY <3>1, <3>2 DEF ClientState, Modes, PortOr
    <3>4. Request("COMM_UDP", port) \in SwitchRequests
      BY <3>2 DEF Request, SwitchRequests
    <3>5. clean' \in BOOLEAN
      BY <3>1 DEF NothingUnderWay
    <3> QED BY <2>1, <3>1, <3>3, <3>4, <3>5, SeqFacts
  <2>3. CASE /\ client' = [client EXCEPT !.req = "TCP", !.stat = "CONNECTED", !.timer = FALSE]
             /\ clean' = FALSE
             /\ UNCHANGED requests
    BY <2>1, <2>3 DEF ClientState, Modes
  <2> QED BY <1>3, <2>2, <2>3 DEF RequestUdp
<1>4. CASE RequestTcp
  <2>1. client' \in ClientState
    BY <1>4 DEF RequestTcp, ClientState, Modes
  <2> QED BY <1>2, <1>4, <1>a, <2>1, SeqFacts DEF RequestTcp
<1>5. CASE ForceReset
  BY <1>2, <1>5, <1>a, CloseClient, SeqFacts DEF ForceReset
<1>6. CASE RecvUdpConn
  <2>1. client' \in ClientState
    BY <1>6 DEF RecvUdpConn, ClientState, PortOr, FromServer
  <2> QED BY <1>6, <2>1 DEF RecvUdpConn
<1>7. CASE RecvUdpConnFails
  <2> DEFINE c == [client EXCEPT !.req = "TCP", !.stat = "CONNECTED", !.timer = FALSE,
                                 !.waiting = FALSE]
  <2>1. c \in ClientState
    BY DEF ClientState, Modes
  <2>2. client' \in {c, Close(c)}
    BY <1>7 DEF RecvUdpConnFails
  <2> QED BY <1>2, <1>7, <2>1, <2>2, CloseClient, SeqFacts DEF RecvUdpConnFails
<1>8. Activity \in ClientState
  BY DEF Activity, ClientState, Modes
<1>9. CASE ClientUdp
  <2>1. PICK d \in toClient :
         /\ toClient' = toClient \ {d}
         /\ \/ d.what = "SWITCH_UDP_OK" /\ HandleUdpReply(Activity, Reply(d.what, d.from))
            \/ /\ client' = [Activity EXCEPT !.timer = FALSE]
               /\ UNCHANGED <<requests, toServer, clean>>
            \/ /\ client' = Activity
               /\ UNCHANGED <<requests, toServer, clean>>
    BY <1>9 DEF ClientUdp
  <2>2. UNCHANGED <<config, server, buf, replies, up, asked>>
    BY <1>9 DEF ClientUdp
  <2>3. CASE d.what = "SWITCH_UDP_OK" /\ HandleUdpReply(Activity, Reply(d.what, d.from))
    <3>1. Reply(d.what, d.from) \in Replies
      BY <2>3 DEF Reply, Replies, FromServer, PortOr
    <3> QED BY <1>8, <2>1, <2>2, <2>3, <3>1, ReplyHandled
  <2>4. [Activity EXCEPT !.timer = FALSE] \in ClientState
    BY <1>8 DEF ClientState
  <2> QED BY <1>8, <2>1, <2>2, <2>3, <2>4
<1>10. CASE ClientUdpError
  <2>1. [Activity EXCEPT !.err = FALSE] \in ClientState
    BY <1>8 DEF ClientState
  <2>2. [BackToTcp(Activity) EXCEPT !.timer = Activity.timer] \in ClientState
    BY <1>8, CloseClient DEF ClientState
  <2> QED BY <1>10, <2>1, <2>2 DEF ClientUdpError
<1>11. CASE ClientTcp
  <2>1. Head(replies) \in Replies /\ Tail(replies) \in Seq(Replies)
    BY <1>11, SeqFacts DEF ClientTcp
  <2> QED BY <1>11, <2>1, ReplyHandled DEF ClientTcp
<1>12. CASE Timeout
  BY <1>12, CloseClient DEF Timeout
<1>13. CASE SendCommand
  <2>1. CASE /\ CanWrite(client)
             /\ SendToServer(Datagram(client.sock, client.peer, "COMMAND"))
             /\ UNCHANGED client
    <3>1. Datagram(client.sock, client.peer, "COMMAND") \in FromClient
      BY <2>1 DEF CanWrite, ClientState, PortOr, Datagram, FromClient
    <3>2. toServer' \subseteq FromClient /\ clean' \in BOOLEAN
      BY <2>1, <3>1, Sent DEF SendToServer
    <3> QED BY <1>13, <2>1, <3>2 DEF SendCommand
  <2> QED BY <1>13, <2>1, CloseClient DEF SendCommand
<1> QED BY <1>3, <1>4, <1>5, <1>6, <1>7, <1>9, <1>10, <1>11, <1>12, <1>13

\* The steps of ntserv, and of the network, leave the requests what they are.
LEMMA ServerStep ==
  ASSUME IInv,
         \/ ServerTcp \/ ServerTcpData \/ ServerUdp \/ ServerUdpError \/ Flush
         \/ Ghostbust \/ Lose \/ Bounce
  PROVE  IInv'
<1> DEFINE Kept == /\ client' \in ClientState
                   /\ ServerOK(server')
                   /\ requests' \in Seq(SwitchRequests)
                   /\ buf' \in Seq(Replies) /\ replies' \in Seq(Replies)
                   /\ toServer' \subseteq FromClient
                   /\ toClient' \subseteq FromServer
                   /\ up' \in BOOLEAN /\ clean' \in BOOLEAN
                   /\ UNCHANGED <<config, asked>>
<1>0. /\ client \in ClientState
      /\ ServerOK(server)
      /\ requests \in Seq(SwitchRequests)
      /\ buf \in Seq(Replies) /\ replies \in Seq(Replies)
      /\ toServer \subseteq FromClient
      /\ toClient \subseteq FromServer
      /\ up \in BOOLEAN /\ clean \in BOOLEAN
  BY IInvParts
<1>1. SUFFICES Kept
  BY IInvParts, SwitchRequestsAreRequests
     DEF config, IInv, TypeOK, VerifyByUdpOnly, PortKnown, SwapKnown, ServerModeHasSocket, ServerOK
<1> USE <1>0 DEF config, net
<1>2. server \in ServerState /\ ServerOK(SwitchOff(server))
  BY SwitchedOff DEF ServerOK
<1>3. CASE ServerTcp
  <2>1. Head(requests) \in SwitchRequests /\ Tail(requests) \in Seq(SwitchRequests)
    BY <1>3, SeqFacts DEF ServerTcp
  <2>2. Readable \in BOOLEAN
    BY <1>2 DEF Readable, ServerState
  <2>3. PICK reported \in BOOLEAN : HandleUdpReq(ReadTcp(server), Head(requests), reported)
    BY <1>3, <2>2 DEF ServerTcp
  <2>4. /\ ServerOK(server')
        /\ buf' \in Seq(Replies)
        /\ toClient' \subseteq FromServer
        /\ clean' \in BOOLEAN
    BY <2>1, <2>3, TcpRead, RequestHandled
  <2> QED BY <1>3, <2>1, <2>4 DEF ServerTcp
<1>10. CASE ServerTcpData
  BY <1>10, TcpRead DEF ServerTcpData
<1>4. CASE ServerUdp
  <2>1. PICK d \in toServer :
          /\ Takes(server, d)
          /\ toServer' = toServer \ {d}
          /\ LET s == ReadUdp(server, d.from)
             IN server' = IF d.what = "COMM_VERIFY" THEN Verified(s) ELSE s
    BY <1>4 DEF ServerUdp
  <2> DEFINE s == ReadUdp(server, d.from)
  <2>2. d.from \in ClientPorts /\ server.sock # Closed
    BY <2>1, UdpLinkAssumption DEF Takes, FromClient
  <2>3. ServerOK(s) /\ s.sock = server.sock /\ (s.peer # Closed \/ s.astray)
    BY <2>2, UdpRead
  <2>4. server' = IF d.what = "COMM_VERIFY" THEN Verified(s) ELSE s
    BY <2>1
  <2> HIDE DEF s
  <2>5. ServerOK(Verified(s))
    BY <2>2, <2>3 DEF ServerOK, Verified, ServerState, Modes
  <2> QED BY <1>4, <2>1, <2>3, <2>4, <2>5 DEF ServerUdp
<1>5. CASE ServerUdpError
  <2> DEFINE s == [server EXCEPT !.swap = @ \cup {"UDPRECEIVED"}, !.err = FALSE, !.blocked = FALSE]
  <2>1. server.err /\ server.sock # Closed /\ server.port # Closed
    BY <1>5 DEF ServerUdpError, ServerOK
  <2>2. /\ s \in ServerState /\ s.sock = server.sock /\ s.port = server.port
        /\ s.mode = server.mode /\ s.peer = server.peer /\ s.astray = server.astray
        /\ s.swap = server.swap \cup {"UDPRECEIVED"}
    BY <1>2 DEF ServerState
  <2>3. \/ server' = [s EXCEPT !.peer = server.port] /\ UNCHANGED up
        \/ server' = SwitchOff(s) /\ up' = FALSE
    BY <1>5 DEF ServerUdpError
  <2> HIDE DEF s
  <2>4. ServerOK(s)
    BY <2>1, <2>2 DEF ServerOK
  <2>5. ServerOK([s EXCEPT !.peer = server.port])
    BY <2>1, <2>2 DEF ServerOK, ServerState
  <2> QED BY <1>5, <2>3, <2>4, <2>5, SwitchedOff DEF ServerUdpError
<1>6. CASE Flush
  <2>1. replies \o buf \in Seq(Replies) /\ <<>> \in Seq(Replies)
    BY Concatenated
  <2>2. CASE server.mode = "TCP" /\ UNCHANGED <<server, toClient, clean>>
    BY <1>6, <2>1, <2>2 DEF Flush
  <2>3. CASE /\ CanWrite(server)
             /\ SendToClient(Datagram(server.sock, server.peer, server.udpbuf))
             /\ server' = [server EXCEPT !.udpbuf = "UPDATE"]
    <3>1. Datagram(server.sock, server.peer, server.udpbuf) \in FromServer
      BY <1>2, <2>3 DEF CanWrite, ServerState, PortOr, Datagram, FromServer
    <3>2. toClient' \subseteq FromServer /\ clean' \in BOOLEAN
      BY <2>3, <3>1, Sent DEF SendToClient
    <3>3. ServerOK(server')
      BY <1>2, <2>3 DEF ServerOK, ServerState
    <3> QED BY <1>6, <2>1, <3>2, <3>3 DEF Flush
  <2>4. CASE server' = SwitchOff(server) /\ clean' = FALSE /\ UNCHANGED toClient
    BY <1>2, <1>6, <2>1, <2>4 DEF Flush
  <2> QED BY <1>6, <2>2, <2>3, <2>4 DEF Flush
<1>7. CASE Ghostbust
  BY <1>7 DEF Ghostbust
<1>8. CASE Lose
  BY <1>8 DEF Lose
<1>9. CASE Bounce
  <2>1. ASSUME NEW d PROVE Refused(client, d) \in ClientState
    BY DEF Refused, ClientState
  <2>2. ASSUME NEW d \in toClient PROVE ServerOK(Refused(server, d))
    <3>1. d.from # Closed
      BY UdpLinkAssumption DEF FromServer
    <3> QED BY <1>2, <3>1 DEF Refused, ServerOK, ServerState
  <2> QED BY <1>9, <2>1, <2>2 DEF Bounce
<1> QED BY <1>3, <1>4, <1>5, <1>6, <1>7, <1>8, <1>9, <1>10

LEMMA StepInvariant == IInv /\ [Next]_vars => IInv'
<1> SUFFICES ASSUME IInv, [Next]_vars PROVE IInv'
  OBVIOUS
<1>1. CASE UNCHANGED vars
  BY <1>1 DEF vars, config, net, IInv, TypeOK, VerifyByUdpOnly, PortKnown, SwapKnown, ServerModeHasSocket
<1>2. CASE Next
  BY <1>2, ClientStep, ServerStep DEF Next
<1> QED BY <1>1, <1>2

LEMMA Invariant == Spec => []IInv
BY InitInvariant, StepInvariant, PTL DEF Spec

\* The types, for every set of ports and however many requests: handleUdpReq()
\* and handleUdpReply() only ever put a mode, a status and a port where one
\* belongs.
THEOREM UdpLinkTypeOK == Spec => []TypeOK
<1>1. IInv => TypeOK
  BY DEF IInv
<1> QED BY <1>1, Invariant, PTL

\* Whatever is lost, late, refused or asked for again: as long as ntserv is in
\* UDP mode it has an open socket to send its updates to (socket.c:2180), and a
\* connected one unless doRead() has taken the TCP socket for it (socket.c:942).
THEOREM ServerNeverMute == Spec => []ServerModeHasSocket
<1>1. IInv => ServerModeHasSocket
  BY DEF IInv
<1> QED BY <1>1, Invariant, PTL

\* The reason: COMM_VERIFY, which handleUdpReq() obeys without asking where it
\* came from, never comes by TCP (socket.c of the client, 1754).
THEOREM VerifyComesByUdp == Spec => []VerifyByUdpOnly
<1>1. IInv => VerifyByUdpOnly
  BY DEF IInv
<1> QED BY <1>1, Invariant, PTL

\* What is under way on TCP ends with the last request of the client, or with
\* the answer to it.
LastIs(s, answers) == s # <<>> => s[Len(s)].what \in answers
UdpAnswers == {"SWITCH_UDP_OK", "SWITCH_DENIED"}

LastOnTcp(asks, answers) ==
  /\ LastIs(requests, asks)
  /\ requests = <<>> => LastIs(buf, answers)
  /\ requests = <<>> /\ buf = <<>> => LastIs(replies, answers)
NothingOnTcp == requests = <<>> /\ buf = <<>> /\ replies = <<>>

\* While the client wants UDP, the last thing it asked for is UDP.
LastForUdp == client.req = "UDP" => LastOnTcp({"COMM_UDP"}, UdpAnswers)

\* What ntserv answers: connUdpConn() does not fail.
Answers == [what : {"SWITCH_TCP_OK", IF allowed THEN "SWITCH_UDP_OK" ELSE "SWITCH_DENIED"},
            port : PortOr(ServerPorts)]
AnswersFit ==
  /\ buf \in Seq(Answers) /\ replies \in Seq(Answers)
  /\ ~allowed => \A d \in toClient : d.what # "SWITCH_UDP_OK"

\* The two modes of a client in the state c, its status, and its wait for the
\* first datagram.
StatusFits(c) ==
  /\ c.stat = "VERIFY_UDP" => c.mode = "TCP" /\ c.req = "UDP"
  /\ c.mode = "UDP" /\ c.req = "TCP" => c.stat = "SWITCH_TCP"
  /\ c.waiting => c.mode = "TCP"
  /\ ~allowed => c.mode = "TCP" /\ c.stat # "VERIFY_UDP"

\* A client back in TCP mode by a late answer still has one to come, that
\* will make it give up UDP.
AnswerComes ==
  client.stat = "CONNECTED" /\ client.mode = "TCP" /\ client.req = "UDP" =>
    ~NothingOnTcp

IdleInv == LastForUdp /\ AnswersFit /\ StatusFits(client) /\ AnswerComes

\* The same for a client that is asking for a switch, or verifying it.
TcpAnswers == {"SWITCH_TCP_OK"}
LastForStatus ==
  /\ client.stat \in {"SWITCH_UDP", "VERIFY_UDP"} => LastOnTcp({"COMM_UDP"}, UdpAnswers)
  /\ client.stat = "SWITCH_TCP" => LastOnTcp({"COMM_TCP"}, TcpAnswers)

\* What a client in the state c is and wants, by its status.
AskingFits(c) ==
  /\ c.stat \in {"SWITCH_UDP", "VERIFY_UDP"} => c.mode = "TCP" /\ c.req = "UDP"
  /\ c.stat = "SWITCH_TCP" => c.mode = "UDP" /\ c.req = "TCP"
  /\ c.stat = "CONNECTED" /\ c.mode = "TCP" /\ c.req = "UDP" => c.sock = Closed

\* A client that is asking has its answer to come.  One that verifies has the
\* timer on, or it was turned off by a late answer and there is one more.
StillComes ==
  client.stat # "CONNECTED" /\ ~(client.stat = "VERIFY_UDP" /\ client.timer) =>
    ~NothingOnTcp

EndsInv == LastForStatus /\ AskingFits(client) /\ StillComes

\* A switch that is not over has something that will end it: the timer, a
\* request that ntserv has to answer or an answer that the client has to read.
NeverStranded == client.stat # "CONNECTED" => client.timer \/ ~NothingOnTcp

\* A client without a socket has no peer and no error.
ClientSocket == client.sock = Closed => client.peer = Closed /\ ~client.err

\* The stages of one undisturbed switch.
Ok == Reply("SWITCH_UDP_OK", server.sock)
ForUs == {d \in toClient : d.to = client.sock}

Asked ==
  /\ client.stat = "SWITCH_UDP" /\ client.mode = "TCP" /\ client.peer = Closed
  /\ client.waiting = ~portSwap
  /\ requests = <<Request("COMM_UDP", client.sock)>> /\ buf = <<>> /\ replies = <<>>
  /\ server.peer # client.sock
  /\ toServer = {} /\ ForUs = {}

Answered ==
  /\ client.stat = "SWITCH_UDP" /\ client.mode = "TCP"
  /\ requests = <<>>
  /\ (buf = <<>> /\ replies = <<Ok>>) \/ (buf = <<Ok>> /\ replies = <<>>)
  /\ server.mode = "TCP" /\ ~server.err
  /\ server.peer = IF portSwap THEN Closed ELSE client.sock
  /\ IF client.waiting
     THEN /\ ~portSwap /\ client.peer = Closed
          /\ ForUs \subseteq {Datagram(server.sock, client.sock, "SWITCH_UDP_OK")}
     ELSE /\ client.peer = IF portSwap THEN Closed ELSE server.sock
          /\ ForUs = {}
  /\ toServer = {}

\* Both ends of the connection are in place.
Joined ==
  /\ client.peer = server.sock /\ ~client.waiting /\ ~server.err
  /\ requests = <<>> /\ buf = <<>> /\ replies = <<>>

Verifying ==
  /\ client.stat = "VERIFY_UDP" /\ client.mode = "TCP"
  /\ Joined
  /\ server.mode = "TCP" /\ server.peer \in {Closed, client.sock}
  /\ toServer = {Datagram(client.sock, server.sock, "COMM_VERIFY")} /\ ForUs = {}

\* ntserv is in UDP mode, and the client is, or will be with the next datagram.
Switched ==
  /\ \/ client.stat = "VERIFY_UDP" /\ client.mode = "TCP" /\ toServer = {}
     \/ client.stat = "CONNECTED" /\ client.mode = "UDP"
  /\ Joined
  /\ server.mode = "UDP" /\ server.peer = client.sock
  /\ \A d \in toServer : d.from = client.sock /\ d.to = server.sock /\ d.what = "COMMAND"
  /\ \A d \in ForUs : d.from = server.sock /\ d.what # "SWITCH_UDP_OK"

Stages ==
  /\ client.req = "UDP" /\ client.sock # Closed /\ ~client.err
  /\ Asked \/ (server.sock # Closed /\ (Answered \/ Verifying \/ Switched))

\* Or doRead() has taken the TCP socket for udpSock, and nothing is asked for.
Astray == server.astray /\ requests = <<>>

Undisturbed == clean /\ asked > 0 => Stages \/ Astray
-----------------------------------------------------------------------------
(* Sequences and their last elements.                                      *)

LEMMA EmptyIfLength ==
  ASSUME NEW S, NEW s \in Seq(S)
  PROVE  s = <<>> <=> Len(s) = 0
OBVIOUS

LEMMA LastOfAppend ==
  ASSUME NEW S, NEW s \in Seq(S), NEW e \in S, NEW A, e.what \in A
  PROVE  LastIs(Append(s, e), A) /\ Append(s, e) # <<>>
<1>1. Len(Append(s, e)) = Len(s) + 1 /\ Append(s, e)[Len(s) + 1] = e
  OBVIOUS
<1> QED BY <1>1 DEF LastIs

LEMMA LastOfTail ==
  ASSUME NEW S, NEW s \in Seq(S), s # <<>>, NEW A, LastIs(s, A)
  PROVE  /\ LastIs(Tail(s), A)
         /\ Tail(s) = <<>> => Head(s).what \in A
<1>1. /\ Len(s) \in Nat \ {0} /\ Tail(s) \in Seq(S) /\ Len(Tail(s)) = Len(s) - 1
      /\ Head(s) = s[1]
  OBVIOUS
<1>a. ASSUME NEW i \in 1..(Len(s) - 1) PROVE Tail(s)[i] = s[i + 1]
  BY <1>a
<1>2. CASE Len(s) = 1
  <2>1. Len(Tail(s)) = 0 /\ Head(s) = s[Len(s)]
    BY <1>1, <1>2
  <2>2. Tail(s) = <<>>
    BY <1>1, <2>1, EmptyIfLength
  <2> QED BY <2>1, <2>2 DEF LastIs
<1>3. CASE Len(s) > 1
  <2>1. Len(Tail(s)) > 0 /\ Len(s) - 1 \in 1..(Len(s) - 1) /\ (Len(s) - 1) + 1 = Len(s)
    BY <1>1, <1>3
  <2>2. Tail(s)[Len(Tail(s))] = s[Len(s)]
    BY <1>1, <1>a, <2>1
  <2>3. Tail(s) # <<>>
    <3>1. Len(Tail(s)) # 0
      BY <1>1, <2>1
    <3> QED BY <1>1, <3>1, EmptyIfLength
  <2> QED BY <2>2, <2>3 DEF LastIs
<1> QED BY <1>1, <1>2, <1>3

LEMMA LastOfConcat ==
  ASSUME NEW S, NEW s \in Seq(S), NEW t \in Seq(S)
  PROVE  /\ t = <<>> => s \o t = s
         /\ t # <<>> => s \o t # <<>> /\ (s \o t)[Len(s \o t)] = t[Len(t)]
<1>1. CASE t = <<>>
  BY <1>1
<1>2. CASE t # <<>>
  <2>1. Len(s) \in Nat /\ Len(t) \in Nat \ {0} /\ Len(s \o t) = Len(s) + Len(t)
    BY <1>2
  <2>2. (s \o t)[Len(s) + Len(t)] = t[Len(t)]
    BY <2>1
  <2>3. s \o t # <<>>
    BY <2>1
  <2> QED BY <1>2, <2>1, <2>2, <2>3
<1> QED BY <1>1, <1>2

LEMMA EmptyConcat ==
  ASSUME NEW S, NEW s \in Seq(S)
  PROVE  <<>> \o s = s /\ s \o <<>> = s
OBVIOUS

-----------------------------------------------------------------------------
(* What is under way on TCP.                                               *)

LEMMA LastAfterRead ==
  ASSUME NEW S, replies \in Seq(S), replies # <<>>, NEW asks, NEW answers,
         LastOnTcp(asks, answers), replies' = Tail(replies), UNCHANGED <<requests, buf>>
  PROVE  /\ LastOnTcp(asks, answers)'
         /\ NothingOnTcp' => Head(replies).what \in answers
<1>1. ASSUME requests = <<>>, buf = <<>>
      PROVE  /\ LastIs(replies', answers)
             /\ replies' = <<>> => Head(replies).what \in answers
  <2>1. LastIs(replies, answers)
    BY <1>1 DEF LastOnTcp
  <2> QED BY <2>1, LastOfTail
<1> QED BY <1>1 DEF LastOnTcp, NothingOnTcp, LastIs

LEMMA LastAfterAnswer ==
  ASSUME NEW S, requests \in Seq(S), requests # <<>>, NEW asks, NEW answers,
         LastOnTcp(asks, answers), requests' = Tail(requests), buf' # <<>>,
         Head(requests).what \in asks => LastIs(buf', answers)
  PROVE  LastOnTcp(asks, answers)'
<1>1. /\ LastIs(requests', asks)
      /\ requests' = <<>> => Head(requests).what \in asks
  BY LastOfTail DEF LastOnTcp
<1> QED BY <1>1 DEF LastOnTcp

LEMMA LastAfterFlush ==
  ASSUME NEW S, replies \in Seq(S), buf \in Seq(S), NEW asks, NEW answers,
         LastOnTcp(asks, answers), replies' = replies \o buf, buf' = <<>>, UNCHANGED requests
  PROVE  LastOnTcp(asks, answers)'
<1>1. CASE buf = <<>>
  <2>1. replies' = replies
    BY <1>1, LastOfConcat
  <2> QED BY <1>1, <2>1 DEF LastOnTcp, LastIs
<1>2. CASE buf # <<>>
  <2>1. replies'[Len(replies')] = buf[Len(buf)]
    BY <1>2, LastOfConcat
  <2> QED BY <1>2, <2>1 DEF LastOnTcp, LastIs
<1> QED BY <1>1, <1>2

LEMMA NothingFlushed ==
  ASSUME NEW S, replies \in Seq(S), buf \in Seq(S), replies' = replies \o buf,
         UNCHANGED requests, NothingOnTcp'
  PROVE  NothingOnTcp
<1>1. requests = <<>> /\ replies \o buf = <<>>
  BY DEF NothingOnTcp
<1>2. buf = <<>>
  BY <1>1, LastOfConcat
<1>3. replies \o buf = replies
  BY <1>2, LastOfConcat
<1> QED BY <1>1, <1>2, <1>3 DEF NothingOnTcp

\* ntserv answers every request with one answer of the kind of the request.
LEMMA OneAnswer ==
  ASSUME NEW s, NEW request \in SwitchRequests, NEW reported,
         buf \in Seq(Replies), HandleUdpReq(s, request, reported)
  PROVE  /\ buf' # <<>>
         /\ request.what = "COMM_UDP" => LastIs(buf', UdpAnswers)
         /\ request.what = "COMM_TCP" => LastIs(buf', TcpAnswers)
<1>1. PICK r \in Replies :
        /\ buf' = Append(buf, r)
        /\ request.what = "COMM_UDP" => r.what \in UdpAnswers
        /\ request.what = "COMM_TCP" => r.what \in TcpAnswers
  <2>1. CASE request.what = "COMM_UDP" /\ AcceptUdp(SwitchOff(s), request, reported)
    <3>1. PICK port \in ServerPorts : buf' = Append(buf, Reply("SWITCH_UDP_OK", port))
      BY <2>1 DEF AcceptUdp
    <3> QED BY <2>1, <3>1 DEF Reply, Replies, PortOr, UdpAnswers
  <2>2. CASE /\ request.what = "COMM_UDP"
             /\ DenyUdp(IF s.mode = "UDP" THEN SwitchOff(s) ELSE s, request)
    BY <2>2 DEF DenyUdp, Reply, Replies, PortOr, UdpAnswers
  <2>3. CASE request.what = "COMM_TCP" /\ buf' = Append(buf, Reply("SWITCH_TCP_OK", Closed))
    BY <2>3 DEF Reply, Replies, PortOr, TcpAnswers
  <2> QED BY <2>1, <2>2, <2>3 DEF HandleUdpReq, SwitchRequests
<1>2. ASSUME NEW A, r.what \in A PROVE LastIs(buf', A) /\ buf' # <<>>
  BY <1>1, <1>2, LastOfAppend
<1>3. buf' # <<>>
  BY <1>2
<1> QED BY <1>1, <1>2, <1>3

-----------------------------------------------------------------------------
(* IdleAccepts.                                                            *)

LEMMA IdleInit == Init => IdleInv
<1>1. <<>> \in Seq(Answers)
  OBVIOUS
<1> QED BY <1>1
     DEF Init, IdleInv, LastForUdp, LastOnTcp, AnswersFit, StatusFits, AnswerComes, LastIs

\* An answer makes the client want TCP, or leaves what it wants and asked for;
\* only a late SWITCH_TCP_OK leaves it wanting UDP with nothing done about it.
LEMMA ReplyKeepsWish ==
  ASSUME NEW c \in ClientState, StatusFits(c), NEW reply \in Answers,
         HandleUdpReply(c, reply)
  PROVE  /\ StatusFits(client')
         /\ client'.req = "UDP" => c.req = "UDP" /\ requests' = requests
         /\ client'.stat = "CONNECTED" /\ client'.mode = "TCP" /\ client'.req = "UDP"
              => reply.what = "SWITCH_TCP_OK"
<1> DEFINE d == [c EXCEPT !.timer = FALSE]
<1>1. /\ d \in ClientState /\ d.mode = c.mode /\ d.req = c.req /\ d.stat = c.stat
      /\ d.waiting = c.waiting
      /\ d.mode \in Modes /\ d.req \in Modes
  BY DEF ClientState
<1>2. StatusFits(d)
  BY <1>1 DEF StatusFits
<1>3. CASE /\ reply.what = "SWITCH_TCP_OK"
           /\ client' = IF c.mode = "TCP" THEN d
                        ELSE Close([d EXCEPT !.mode = "TCP", !.stat = "CONNECTED"])
           /\ UNCHANGED <<requests, toServer, clean>>
  <2>1. CASE c.mode = "TCP"
    BY <1>1, <1>2, <1>3, <2>1
  <2>2. CASE c.mode # "TCP"
    <3>1. client' = Close([d EXCEPT !.mode = "TCP", !.stat = "CONNECTED"])
      BY <1>3, <2>2
    <3>2. client'.mode = "TCP" /\ client'.stat = "CONNECTED" /\ client'.req = c.req
      BY <1>1, <3>1 DEF Close, ClientState
    <3> QED BY <1>3, <3>2 DEF StatusFits
  <2> QED BY <2>1, <2>2
<1>4. CASE /\ reply.what = "SWITCH_UDP_OK"
           /\ c.mode = "UDP" \/ c.req # "UDP"
           /\ client' = d
           /\ UNCHANGED <<requests, toServer, clean>>
  BY <1>1, <1>2, <1>4
<1>5. CASE /\ reply.what = "SWITCH_UDP_OK"
           /\ c.mode = "TCP" /\ c.req = "UDP"
           /\ SendVerify([d EXCEPT !.stat = "VERIFY_UDP", !.timer = TRUE,
                                   !.peer = IF portSwap THEN reply.port ELSE @])
  <2> DEFINE v == [d EXCEPT !.stat = "VERIFY_UDP", !.timer = TRUE,
                            !.peer = IF portSwap THEN reply.port ELSE @]
  <2>1. /\ v.mode = "TCP" /\ v.req = "UDP" /\ v.stat = "VERIFY_UDP"
        /\ BackToTcp(v).mode = "TCP" /\ BackToTcp(v).req = "TCP"
        /\ BackToTcp(v).stat = "CONNECTED"
    BY <1>1, <1>5 DEF ClientState, BackToTcp, Close
  <2>2. allowed
    BY <1>5 DEF Answers
  <2>3. SendVerify(v)
    BY <1>5
  <2> HIDE DEF v
  <2>4. (client' = v /\ requests' = requests) \/ client' = BackToTcp(v)
    BY <2>1, <2>3 DEF SendVerify
  <2> QED BY <1>5, <2>1, <2>2, <2>4 DEF StatusFits
<1>6. CASE /\ c.mode = "TCP"
           /\ client' = Close([d EXCEPT !.req = "TCP", !.stat = "CONNECTED"])
  <2>1. client'.mode = "TCP" /\ client'.req = "TCP" /\ client'.stat = "CONNECTED"
    BY <1>1, <1>6 DEF Close, ClientState
  <2> QED BY <2>1 DEF StatusFits
<1>7. CASE /\ reply.what = "SWITCH_DENIED"
           /\ client' = Close([d EXCEPT !.req = c.mode, !.stat = "CONNECTED"])
  <2>1. ~allowed
    BY <1>7 DEF Answers
  <2>2. c.mode = "TCP"
    BY <2>1 DEF StatusFits
  <2>3. client'.mode = "TCP" /\ client'.req = "TCP" /\ client'.stat = "CONNECTED"
    BY <1>1, <1>7, <2>2 DEF Close, ClientState
  <2> QED BY <2>3 DEF StatusFits
<1> QED BY <1>3, <1>4, <1>5, <1>6, <1>7 DEF HandleUdpReply

\* The user asks, or the client waits: nothing else changes for the answers.
LEMMA IdleAsks ==
  ASSUME IInv, IdleInv,
         RequestUdp \/ RequestTcp \/ ForceReset \/ RecvUdpConn \/ RecvUdpConnFails
  PROVE  IdleInv'
<1>0. /\ client \in ClientState /\ requests \in Seq(SwitchRequests)
      /\ buf \in Seq(Replies) /\ replies \in Seq(Replies)
  BY DEF IInv, TypeOK, VerifyByUdpOnly
<1>1. /\ LastForUdp /\ AnswerComes /\ StatusFits(client)
      /\ buf \in Seq(Answers) /\ replies \in Seq(Answers)
      /\ ~allowed => \A d \in toClient : d.what # "SWITCH_UDP_OK"
  BY DEF IdleInv, AnswersFit
<1>2. UNCHANGED <<allowed, buf, replies>> /\ toClient' \subseteq toClient
  BY DEF RequestUdp, RequestTcp, ForceReset, RecvUdpConn, RecvUdpConnFails, config
<1>3. Answers' = Answers
  BY <1>2 DEF Answers
<1>4. SUFFICES LastForUdp' /\ AnswerComes' /\ StatusFits(client)'
  BY <1>1, <1>2, <1>3 DEF IdleInv, AnswersFit
<1>5. ASSUME client'.req = "TCP", client'.mode = "UDP" => client'.stat = "SWITCH_TCP",
             client'.stat # "VERIFY_UDP", client'.waiting => client'.mode = "TCP",
             allowed \/ client'.mode = "TCP"
      PROVE  LastForUdp' /\ AnswerComes' /\ StatusFits(client)'
  BY <1>2, <1>5 DEF LastForUdp, AnswerComes, StatusFits
<1>6. CASE RequestUdp
  <2>1. CASE client' = [client EXCEPT !.req = "TCP", !.stat = "CONNECTED", !.timer = FALSE]
    <3>1. client'.req = "TCP" /\ client'.mode = "TCP" /\ client'.stat = "CONNECTED"
      BY <1>0, <1>6, <2>1 DEF RequestUdp, ClientState
    <3> QED BY <3>1, <1>5
  <2>2. CASE \E port \in (IF client.sock = Closed THEN ClientPorts ELSE {client.sock}) :
                /\ client' = [client EXCEPT !.req = "UDP", !.stat = "SWITCH_UDP",
                               !.timer = TRUE, !.sock = port, !.waiting = ~portSwap]
                /\ requests' = Append(requests, Request("COMM_UDP", port))
    <3>1. PICK port \in ClientPorts :
                /\ client' = [client EXCEPT !.req = "UDP", !.stat = "SWITCH_UDP",
                               !.timer = TRUE, !.sock = port, !.waiting = ~portSwap]
                /\ requests' = Append(requests, Request("COMM_UDP", port))
      BY <1>0, <2>2 DEF ClientState, PortOr
    <3>2. client'.req = "UDP" /\ client'.mode = "TCP" /\ client'.stat = "SWITCH_UDP"
      BY <1>0, <1>6, <3>1 DEF RequestUdp, ClientState
    <3>3. /\ Request("COMM_UDP", port) \in SwitchRequests
          /\ Request("COMM_UDP", port).what \in {"COMM_UDP"}
      BY DEF Request, SwitchRequests
    <3>4. LastIs(requests', {"COMM_UDP"}) /\ requests' # <<>>
      BY <1>0, <3>1, <3>3, LastOfAppend
    <3> QED BY <3>2, <3>4 DEF LastForUdp, LastOnTcp, NothingOnTcp, AnswerComes, StatusFits, LastIs
  <2> QED BY <1>6, <2>1, <2>2 DEF RequestUdp
<1>7. CASE RequestTcp
  <2>1. /\ client'.req = "TCP" /\ client'.mode = "UDP" /\ client'.stat = "SWITCH_TCP"
        /\ client'.waiting = client.waiting
    BY <1>0, <1>7 DEF RequestTcp, ClientState
  <2>2. allowed
    BY <1>1, <1>7 DEF RequestTcp, StatusFits
  <2> QED BY <1>1, <1>7, <2>1, <2>2, <1>5 DEF RequestTcp, StatusFits
<1>8. CASE ForceReset
  <2>1. client'.req = "TCP" /\ client'.mode = "TCP" /\ client'.stat = "CONNECTED"
    BY <1>0, <1>8 DEF ForceReset, BackToTcp, Close, ClientState
  <2> QED BY <2>1, <1>5
<1>9. CASE RecvUdpConn
  <2>1. /\ client'.req = client.req /\ client'.mode = client.mode /\ client'.stat = client.stat
        /\ client'.waiting = FALSE
    BY <1>0, <1>9 DEF RecvUdpConn, ClientState
  <2>2. UNCHANGED <<requests, buf, replies>>
    BY <1>9 DEF RecvUdpConn
  <2> QED BY <1>1, <1>2, <2>1, <2>2
       DEF LastForUdp, LastOnTcp, NothingOnTcp, AnswerComes, StatusFits, LastIs
<1>10. CASE RecvUdpConnFails
  <2> DEFINE c == [client EXCEPT !.req = "TCP", !.stat = "CONNECTED", !.timer = FALSE,
                                 !.waiting = FALSE]
  <2>1. client' \in {c, Close(c)}
    BY <1>10 DEF RecvUdpConnFails
  <2>2. client'.req = "TCP" /\ client'.mode = client.mode /\ client'.stat = "CONNECTED"
    BY <1>0, <2>1 DEF Close, ClientState
  <2>3. client.mode = "TCP"
    BY <1>0, <1>1, <1>10 DEF RecvUdpConnFails, StatusFits
  <2> QED BY <2>2, <2>3, <1>5
<1> QED BY <1>6, <1>7, <1>8, <1>9, <1>10

\* The client reads, times out or sends.
LEMMA IdleReads ==
  ASSUME IInv, IdleInv,
         ClientUdp \/ ClientUdpError \/ ClientTcp \/ Timeout \/ SendCommand
  PROVE  IdleInv'
<1>0. /\ client \in ClientState /\ requests \in Seq(SwitchRequests)
      /\ buf \in Seq(Replies) /\ replies \in Seq(Replies) /\ toClient \subseteq FromServer
  BY DEF IInv, TypeOK, VerifyByUdpOnly
<1>1. /\ LastForUdp /\ AnswerComes /\ StatusFits(client)
      /\ buf \in Seq(Answers) /\ replies \in Seq(Answers)
      /\ ~allowed => \A d \in toClient : d.what # "SWITCH_UDP_OK"
  BY DEF IdleInv, AnswersFit
<1>2. UNCHANGED <<allowed, buf>> /\ toClient' \subseteq toClient
  BY DEF ClientUdp, ClientUdpError, ClientTcp, Timeout, SendCommand, config, net
<1>3. Answers' = Answers
  BY <1>2 DEF Answers
<1>4. SUFFICES LastForUdp' /\ AnswerComes' /\ StatusFits(client)' /\ replies' \in Seq(Answers)
  BY <1>1, <1>2, <1>3 DEF IdleInv, AnswersFit
<1>5. ASSUME client'.req = "TCP", client'.mode = "TCP", client'.stat # "VERIFY_UDP",
             UNCHANGED replies
      PROVE  LastForUdp' /\ AnswerComes' /\ StatusFits(client)' /\ replies' \in Seq(Answers)
  BY <1>1, <1>5 DEF LastForUdp, AnswerComes, StatusFits
<1>6. ASSUME client'.req = client.req, client'.mode = client.mode, client'.stat = client.stat,
             client'.waiting = client.waiting, UNCHANGED <<requests, replies>>
      PROVE  LastForUdp' /\ AnswerComes' /\ StatusFits(client)' /\ replies' \in Seq(Answers)
  BY <1>1, <1>2, <1>6 DEF LastForUdp, LastOnTcp, NothingOnTcp, AnswerComes, StatusFits, LastIs
<1>7. ASSUME ~client.waiting
      PROVE  /\ Activity \in ClientState /\ StatusFits(Activity)
             /\ Activity.req = client.req /\ Activity.waiting = client.waiting
             /\ Activity = client \/ Activity.mode = "UDP"
  <2>1. CASE client.stat = "VERIFY_UDP"
    <3>1. allowed /\ client.req = "UDP"
      BY <1>1, <2>1 DEF StatusFits
    <3>2. /\ Activity \in ClientState /\ Activity.mode = "UDP" /\ Activity.req = client.req
          /\ Activity.stat = "CONNECTED" /\ Activity.waiting = client.waiting
      BY <1>0, <2>1 DEF Activity, ClientState, Modes
    <3> QED BY <1>7, <3>1, <3>2 DEF StatusFits
  <2>2. CASE client.stat # "VERIFY_UDP"
    BY <1>0, <1>1, <2>2 DEF Activity
  <2> QED BY <2>1, <2>2
<1>8. ASSUME NEW c \in {Activity, [Activity EXCEPT !.timer = FALSE],
                        [Activity EXCEPT !.err = FALSE]},
             ~client.waiting, client' = c, UNCHANGED <<requests, replies>>
      PROVE  LastForUdp' /\ AnswerComes' /\ StatusFits(client)' /\ replies' \in Seq(Answers)
  <2>1. /\ client'.req = Activity.req /\ client'.mode = Activity.mode
        /\ client'.stat = Activity.stat /\ client'.waiting = Activity.waiting
    BY <1>7, <1>8 DEF ClientState
  <2>2. CASE Activity = client
    BY <1>6, <1>8, <2>1, <2>2
  <2>3. CASE Activity.mode = "UDP"
    BY <1>1, <1>2, <1>7, <1>8, <2>1, <2>3
       DEF LastForUdp, LastOnTcp, NothingOnTcp, AnswerComes, StatusFits, LastIs
  <2> QED BY <1>7, <1>8, <2>2, <2>3
<1>9. CASE ClientUdp
  <2>1. PICK d \in toClient :
          \/ d.what = "SWITCH_UDP_OK" /\ HandleUdpReply(Activity, Reply(d.what, d.from))
          \/ /\ client' \in {Activity, [Activity EXCEPT !.timer = FALSE]}
             /\ UNCHANGED requests
    BY <1>9 DEF ClientUdp
  <2>2. UNCHANGED replies
    BY <1>9 DEF ClientUdp
  <2>3. CASE d.what = "SWITCH_UDP_OK" /\ HandleUdpReply(Activity, Reply(d.what, d.from))
    <3>1. allowed
      BY <1>1, <2>3
    <3>2. Reply(d.what, d.from) \in Answers /\ Reply(d.what, d.from).what = "SWITCH_UDP_OK"
      BY <1>0, <2>3, <3>1 DEF Reply, Answers, FromServer, PortOr
    <3>3. /\ StatusFits(client')
          /\ client'.req = "UDP" => client.req = "UDP" /\ requests' = requests
          /\ ~(client'.stat = "CONNECTED" /\ client'.mode = "TCP" /\ client'.req = "UDP")
      BY <1>7, <1>9, <2>3, <3>2, ReplyKeepsWish DEF ClientUdp
    <3> QED BY <1>1, <1>2, <2>2, <3>3
         DEF LastForUdp, LastOnTcp, NothingOnTcp, AnswerComes, StatusFits, LastIs
  <2>4. CASE client' \in {Activity, [Activity EXCEPT !.timer = FALSE]} /\ UNCHANGED requests
    BY <1>8, <1>9, <2>2, <2>4 DEF ClientUdp
  <2> QED BY <2>1, <2>3, <2>4
<1>10. CASE ClientUdpError
  <2>1. CASE client' = [Activity EXCEPT !.err = FALSE]
    BY <1>8, <1>10, <2>1 DEF ClientUdpError, net
  <2>2. CASE client' = [BackToTcp(Activity) EXCEPT !.timer = Activity.timer]
    <3>1. client'.req = "TCP" /\ client'.mode = "TCP" /\ client'.stat = "CONNECTED"
      BY <1>7, <1>10, <2>2 DEF ClientUdpError, BackToTcp, Close, ClientState
    <3> QED BY <1>5, <1>10, <3>1 DEF ClientUdpError, net
  <2> QED BY <1>10, <2>1, <2>2 DEF ClientUdpError
<1>11. CASE ClientTcp
  <2>1. /\ replies # <<>> /\ replies' = Tail(replies)
        /\ HandleUdpReply(client, Head(replies))
    BY <1>11 DEF ClientTcp
  <2>2. Head(replies) \in Answers /\ Tail(replies) \in Seq(Answers)
    BY <1>1, <2>1, SeqFacts
  <2>3. /\ StatusFits(client')
        /\ client'.req = "UDP" => client.req = "UDP" /\ requests' = requests
        /\ client'.stat = "CONNECTED" /\ client'.mode = "TCP" /\ client'.req = "UDP"
              => Head(replies).what = "SWITCH_TCP_OK"
    BY <1>0, <1>1, <2>1, <2>2, ReplyKeepsWish
  <2>4. CASE client'.req # "UDP"
    BY <1>2, <2>1, <2>2, <2>3, <2>4 DEF LastForUdp, AnswerComes, StatusFits
  <2>5. CASE client'.req = "UDP"
    <3>1. client.req = "UDP" /\ requests' = requests
      BY <2>3, <2>5
    <3>2. /\ LastOnTcp({"COMM_UDP"}, UdpAnswers)'
          /\ NothingOnTcp' => Head(replies).what \in UdpAnswers
      BY <1>0, <1>1, <1>2, <2>1, <3>1, LastAfterRead DEF LastForUdp
    <3>3. LastForUdp'
      BY <3>2 DEF LastForUdp
    <3>4. AnswerComes'
      BY <2>3, <3>2 DEF AnswerComes, UdpAnswers
    <3> QED BY <1>2, <2>1, <2>2, <2>3, <3>3, <3>4 DEF StatusFits
  <2> QED BY <2>4, <2>5
<1>12. CASE Timeout
  <2>1. client'.req = "TCP" /\ client'.mode = "TCP" /\ client'.stat = "CONNECTED"
    BY <1>0, <1>12 DEF Timeout, BackToTcp, Close, ClientState
  <2> QED BY <1>5, <1>12, <2>1 DEF Timeout, net
<1>13. CASE SendCommand
  <2>1. CASE UNCHANGED client
    BY <1>6, <1>13, <2>1 DEF SendCommand
  <2>2. CASE client' = BackToTcp(client)
    <3>1. client'.req = "TCP" /\ client'.mode = "TCP" /\ client'.stat = "CONNECTED"
      BY <1>0, <2>2 DEF BackToTcp, Close, ClientState
    <3> QED BY <1>5, <1>13, <3>1 DEF SendCommand
  <2> QED BY <1>13, <2>1, <2>2 DEF SendCommand
<1> QED BY <1>9, <1>10, <1>11, <1>12, <1>13

\* ntserv denies UDP if it does not allow it, and then only.
LEMMA RequestAnswered ==
  ASSUME ~MayFail, NEW s, NEW request \in SwitchRequests, NEW reported,
         buf \in Seq(Answers), HandleUdpReq(s, request, reported)
  PROVE  /\ buf' \in Seq(Answers)
         /\ ~allowed => UNCHANGED toClient
<1>1. ASSUME NEW r \in Answers, buf' = Append(buf, r)
      PROVE  buf' \in Seq(Answers)
  BY <1>1
<1>2. CASE request.what = "COMM_UDP" /\ allowed /\ AcceptUdp(SwitchOff(s), request, reported)
  <2>1. PICK port \in ServerPorts : buf' = Append(buf, Reply("SWITCH_UDP_OK", port))
    BY <1>2 DEF AcceptUdp
  <2>2. Reply("SWITCH_UDP_OK", port) \in Answers
    BY <1>2 DEF Reply, Answers, PortOr
  <2> QED BY <1>1, <1>2, <2>1, <2>2
<1>3. CASE /\ request.what = "COMM_UDP" /\ ~allowed
           /\ DenyUdp(IF s.mode = "UDP" THEN SwitchOff(s) ELSE s, request)
  <2>1. buf' = Append(buf, Reply("SWITCH_DENIED", Closed)) /\ UNCHANGED toClient
    BY <1>3 DEF DenyUdp
  <2>2. Reply("SWITCH_DENIED", Closed) \in Answers
    BY <1>3 DEF Reply, Answers, PortOr
  <2> QED BY <1>1, <2>1, <2>2
<1>4. CASE /\ request.what = "COMM_TCP"
           /\ buf' = Append(buf, Reply("SWITCH_TCP_OK", Closed))
           /\ UNCHANGED toClient
  <2>1. Reply("SWITCH_TCP_OK", Closed) \in Answers
    BY DEF Reply, Answers, PortOr
  <2> QED BY <1>1, <1>4, <2>1
<1>5. request.what # "COMM_VERIFY"
  BY DEF SwitchRequests
<1> QED BY <1>2, <1>3, <1>4, <1>5 DEF HandleUdpReq

\* ntserv and the network.
LEMMA IdleServes ==
  ASSUME ~MayFail, IInv, IdleInv,
         \/ ServerTcp \/ ServerTcpData \/ ServerUdp \/ ServerUdpError \/ Flush
         \/ Ghostbust \/ Lose \/ Bounce
  PROVE  IdleInv'
<1>0. /\ client \in ClientState /\ server \in ServerState /\ requests \in Seq(SwitchRequests)
      /\ buf \in Seq(Replies) /\ replies \in Seq(Replies) /\ toClient \subseteq FromServer
  BY DEF IInv, TypeOK, VerifyByUdpOnly
<1>1. /\ LastForUdp /\ AnswerComes /\ StatusFits(client)
      /\ buf \in Seq(Answers) /\ replies \in Seq(Answers)
      /\ ~allowed => \A d \in toClient : d.what # "SWITCH_UDP_OK"
  BY DEF IdleInv, AnswersFit
<1>2. /\ UNCHANGED allowed
      /\ client'.req = client.req /\ client'.mode = client.mode /\ client'.stat = client.stat
      /\ client'.waiting = client.waiting
  <2>1. ASSUME NEW d
        PROVE  /\ Refused(client, d).req = client.req /\ Refused(client, d).mode = client.mode
               /\ Refused(client, d).stat = client.stat
               /\ Refused(client, d).waiting = client.waiting
    BY <1>0 DEF Refused, ClientState
  <2>2. UNCHANGED allowed /\ (UNCHANGED client \/ \E d : client' = Refused(client, d))
    BY DEF ServerTcp, ServerTcpData, ServerUdp, ServerUdpError, Flush, Ghostbust, Lose, Bounce,
           config
  <2> QED BY <2>1, <2>2
<1>3. Answers' = Answers /\ StatusFits(client)'
  BY <1>1, <1>2 DEF Answers, StatusFits
<1>4. SUFFICES /\ LastForUdp' /\ AnswerComes'
               /\ buf' \in Seq(Answers) /\ replies' \in Seq(Answers)
               /\ ~allowed => \A d \in toClient' : d.what # "SWITCH_UDP_OK"
  BY <1>2, <1>3 DEF IdleInv, AnswersFit
<1>5. ASSUME UNCHANGED <<requests, buf, replies>>, toClient' \subseteq toClient
      PROVE  /\ LastForUdp' /\ AnswerComes'
             /\ buf' \in Seq(Answers) /\ replies' \in Seq(Answers)
             /\ ~allowed => \A d \in toClient' : d.what # "SWITCH_UDP_OK"
  BY <1>1, <1>2, <1>5 DEF LastForUdp, LastOnTcp, NothingOnTcp, AnswerComes, LastIs
<1>6. CASE ServerTcp
  <2>1. /\ requests # <<>> /\ requests' = Tail(requests) /\ UNCHANGED replies
        /\ \E reported : HandleUdpReq(ReadTcp(server), Head(requests), reported)
    BY <1>6 DEF ServerTcp
  <2>2. Head(requests) \in SwitchRequests /\ Tail(requests) \in Seq(SwitchRequests)
    BY <1>0, <2>1, SeqFacts
  <2>3. buf' \in Seq(Answers) /\ (~allowed => UNCHANGED toClient)
    BY <1>1, <2>1, <2>2, RequestAnswered
  <2>4. buf' # <<>> /\ (Head(requests).what = "COMM_UDP" => LastIs(buf', UdpAnswers))
    BY <1>0, <2>1, <2>2, OneAnswer
  <2>5. LastForUdp'
    BY <1>0, <1>1, <1>2, <2>1, <2>4, LastAfterAnswer DEF LastForUdp
  <2>6. AnswerComes'
    BY <2>4 DEF AnswerComes, NothingOnTcp
  <2> QED BY <1>1, <2>1, <2>3, <2>5, <2>6
<1>7. CASE ServerTcpData \/ ServerUdp \/ ServerUdpError \/ Ghostbust \/ Lose \/ Bounce
  BY <1>5, <1>7 DEF ServerTcpData, ServerUdp, ServerUdpError, Ghostbust, Lose, Bounce, net
<1>8. CASE Flush
  <2>1. UNCHANGED requests /\ replies' = replies \o buf /\ buf' = <<>>
    BY <1>8 DEF Flush
  <2>2. replies' \in Seq(Answers) /\ buf' \in Seq(Answers)
    BY <1>1, <2>1, Concatenated
  <2>3. \A d \in toClient' : d \in toClient \/ d.what # "SWITCH_UDP_OK"
    <3>1. server.udpbuf # "SWITCH_UDP_OK"
      BY <1>0 DEF ServerState
    <3>2. \/ UNCHANGED toClient
          \/ toClient' = With(toClient, Datagram(server.sock, server.peer, server.udpbuf))
      BY <1>8 DEF Flush, SendToClient
    <3> QED BY <3>1, <3>2 DEF With, Datagram
  <2>4. LastForUdp'
    BY <1>0, <1>1, <1>2, <2>1, LastAfterFlush DEF LastForUdp
  <2>5. NothingOnTcp' => NothingOnTcp
    BY <1>0, <2>1, NothingFlushed
  <2>6. AnswerComes'
    BY <1>1, <1>2, <2>5 DEF AnswerComes
  <2> QED BY <1>1, <2>2, <2>3, <2>4, <2>6
<1> QED BY <1>6, <1>7, <1>8

LEMMA IdleNext == ~MayFail /\ IInv /\ IdleInv /\ [Next]_vars => IdleInv'
<1> SUFFICES ASSUME ~MayFail, IInv, IdleInv, [Next]_vars PROVE IdleInv'
  OBVIOUS
<1>1. CASE UNCHANGED vars
  BY <1>1 DEF vars, config, net, IdleInv, LastForUdp, AnswersFit, StatusFits, AnswerComes,
              Answers, LastOnTcp, NothingOnTcp, LastIs
<1>2. CASE Next
  BY <1>2, IdleAsks, IdleReads, IdleServes DEF Next
<1> QED BY <1>1, <1>2

\* Who finds nothing under way may ask for a switch, as long as connUdpConn()
\* of ntserv does not fail: sendUdpReq() never takes a request that is over for
\* one in progress.
THEOREM IdleMayAsk ==
  ASSUME ~MayFail
  PROVE  Spec => []IdleAccepts
<1>1. IInv /\ IdleInv => IdleAccepts
  BY DEF IInv, TypeOK, ClientState, Modes, IdleInv, StatusFits, AnswerComes,
         NothingOnTcp, IdleAccepts
<1>2. ~MayFail
  OBVIOUS
<1> QED
  BY <1>1, <1>2, IdleInit, IdleNext, Invariant, PTL DEF Spec

-----------------------------------------------------------------------------
(* The safety half of SwitchEnds.                                          *)

LEMMA EndsInit == Init => EndsInv
BY DEF Init, EndsInv, LastForStatus, AskingFits, StillComes

\* An answer ends the switch, makes the client verify it, or is a late one,
\* not of the kind the client waits for.
LEMMA ReplyEnds ==
  ASSUME NEW c \in ClientState, AskingFits(c), NEW reply \in Replies,
         HandleUdpReply(c, reply)
  PROVE  /\ AskingFits(client')
         /\ \/ client'.stat = "CONNECTED"
            \/ /\ client'.stat = "VERIFY_UDP" /\ client'.timer
               /\ c.stat \in {"SWITCH_UDP", "VERIFY_UDP"}
               /\ requests' = requests
            \/ /\ client'.stat = c.stat /\ requests' = requests
               /\ c.stat \in {"SWITCH_UDP", "VERIFY_UDP"} => reply.what \notin UdpAnswers
               /\ c.stat = "SWITCH_TCP" => reply.what \notin TcpAnswers
<1> DEFINE d == [c EXCEPT !.timer = FALSE]
<1>1. /\ d \in ClientState /\ d.mode = c.mode /\ d.req = c.req /\ d.stat = c.stat
      /\ d.sock = c.sock /\ d.peer = c.peer /\ d.err = c.err
  BY DEF ClientState
<1>2. AskingFits(d)
  BY <1>1 DEF AskingFits
<1>3. c.mode \in Modes /\ c.req \in Modes
  BY DEF ClientState
<1>4. CASE /\ reply.what = "SWITCH_TCP_OK"
           /\ client' = IF c.mode = "TCP" THEN d
                        ELSE Close([d EXCEPT !.mode = "TCP", !.stat = "CONNECTED"])
           /\ UNCHANGED <<requests, toServer, clean>>
  <2>1. CASE c.mode = "TCP"
    <3>1. client' = d
      BY <1>4, <2>1
    <3> QED BY <1>1, <1>2, <1>4, <2>1, <3>1 DEF AskingFits, UdpAnswers
  <2>2. CASE c.mode # "TCP"
    <3>1. client' = Close([d EXCEPT !.mode = "TCP", !.stat = "CONNECTED"])
      BY <1>4, <2>2
    <3>2. client'.mode = "TCP" /\ client'.stat = "CONNECTED" /\ client'.sock = Closed
      BY <1>1, <3>1 DEF Close, ClientState
    <3> QED BY <3>2 DEF AskingFits
  <2> QED BY <2>1, <2>2
<1>5. CASE /\ reply.what = "SWITCH_UDP_OK"
           /\ c.mode = "UDP" \/ c.req # "UDP"
           /\ client' = d
           /\ UNCHANGED <<requests, toServer, clean>>
  BY <1>1, <1>2, <1>5 DEF AskingFits, TcpAnswers
<1>6. CASE /\ reply.what = "SWITCH_UDP_OK"
           /\ c.mode = "TCP" /\ c.req = "UDP"
           /\ SendVerify([d EXCEPT !.stat = "VERIFY_UDP", !.timer = TRUE,
                                   !.peer = IF portSwap THEN reply.port ELSE @])
  <2> DEFINE v == [d EXCEPT !.stat = "VERIFY_UDP", !.timer = TRUE,
                            !.peer = IF portSwap THEN reply.port ELSE @]
  <2>1. /\ v.mode = "TCP" /\ v.req = "UDP" /\ v.stat = "VERIFY_UDP" /\ v.timer
        /\ v.sock = c.sock
        /\ BackToTcp(v).mode = "TCP" /\ BackToTcp(v).req = "TCP"
        /\ BackToTcp(v).stat = "CONNECTED"
    BY <1>1, <1>6 DEF ClientState, BackToTcp, Close
  <2>2. SendVerify(v)
    BY <1>6
  <2> HIDE DEF v
  <2>3. (client' = v /\ requests' = requests /\ v.sock # Closed) \/ client' = BackToTcp(v)
    BY <2>1, <2>2 DEF SendVerify, CanWrite
  <2>4. c.sock # Closed => c.stat \in {"SWITCH_UDP", "VERIFY_UDP"}
    <3>1. c.stat \in {"CONNECTED", "SWITCH_UDP", "SWITCH_TCP", "VERIFY_UDP"}
      BY DEF ClientState
    <3> QED BY <1>6, <3>1 DEF AskingFits
  <2> QED BY <2>1, <2>3, <2>4 DEF AskingFits
<1>7. CASE /\ c.mode = "TCP"
           /\ client' = Close([d EXCEPT !.req = "TCP", !.stat = "CONNECTED"])
  <2>1. client'.mode = "TCP" /\ client'.req = "TCP" /\ client'.stat = "CONNECTED"
    BY <1>1, <1>7 DEF Close, ClientState
  <2> QED BY <2>1 DEF AskingFits
<1>8. CASE client' = Close([d EXCEPT !.req = c.mode, !.stat = "CONNECTED"])
  <2>1. client'.mode = c.mode /\ client'.req = c.mode /\ client'.stat = "CONNECTED"
    BY <1>1, <1>8 DEF Close, ClientState
  <2> QED BY <2>1 DEF AskingFits
<1> QED BY <1>4, <1>5, <1>6, <1>7, <1>8 DEF HandleUdpReply

LEMMA EndsClient ==
  ASSUME IInv, EndsInv,
         \/ RequestUdp \/ RequestTcp \/ ForceReset \/ RecvUdpConn \/ RecvUdpConnFails
         \/ ClientUdp \/ ClientUdpError \/ ClientTcp \/ Timeout \/ SendCommand
  PROVE  EndsInv'
<1>0. /\ client \in ClientState /\ requests \in Seq(SwitchRequests)
      /\ buf \in Seq(Replies) /\ replies \in Seq(Replies) /\ toClient \subseteq FromServer
      /\ Closed \notin ClientPorts
  BY UdpLinkAssumption DEF IInv, TypeOK, VerifyByUdpOnly
<1>1. LastForStatus /\ AskingFits(client) /\ StillComes
  BY DEF EndsInv
<1>2. UNCHANGED buf
  BY DEF RequestUdp, RequestTcp, ForceReset, RecvUdpConn, RecvUdpConnFails,
         ClientUdp, ClientUdpError, ClientTcp, Timeout, SendCommand, net
<1>3. ASSUME client'.stat = "CONNECTED", client'.req = "TCP" \/ client'.mode = "UDP"
      PROVE  EndsInv'
  BY <1>3 DEF EndsInv, LastForStatus, AskingFits, StillComes
<1>4. ASSUME client'.stat = client.stat, client'.mode = client.mode, client'.req = client.req,
             client'.sock = client.sock,
             client'.timer = client.timer \/ client.stat # "VERIFY_UDP",
             UNCHANGED <<requests, replies>>
      PROVE  EndsInv'
  BY <1>1, <1>2, <1>4 DEF EndsInv, LastForStatus, AskingFits, StillComes, LastOnTcp, LastIs,
                          NothingOnTcp
<1>5. CASE RequestUdp
  <2>1. CASE client' = [client EXCEPT !.req = "TCP", !.stat = "CONNECTED", !.timer = FALSE]
    BY <1>0, <1>3, <2>1 DEF ClientState
  <2>2. CASE \E port \in (IF client.sock = Closed THEN ClientPorts ELSE {client.sock}) :
                /\ client' = [client EXCEPT !.req = "UDP", !.stat = "SWITCH_UDP",
                               !.timer = TRUE, !.sock = port, !.waiting = ~portSwap]
                /\ requests' = Append(requests, Request("COMM_UDP", port))
    <3>1. PICK port \in ClientPorts :
                /\ client' = [client EXCEPT !.req = "UDP", !.stat = "SWITCH_UDP",
                               !.timer = TRUE, !.sock = port, !.waiting = ~portSwap]
                /\ requests' = Append(requests, Request("COMM_UDP", port))
      BY <1>0, <2>2 DEF ClientState, PortOr
    <3>2. client'.req = "UDP" /\ client'.mode = "TCP" /\ client'.stat = "SWITCH_UDP"
      BY <1>0, <1>5, <3>1 DEF RequestUdp, ClientState
    <3>3. /\ Request("COMM_UDP", port) \in SwitchRequests
          /\ Request("COMM_UDP", port).what \in {"COMM_UDP"}
      BY DEF Request, SwitchRequests
    <3>4. LastIs(requests', {"COMM_UDP"}) /\ requests' # <<>>
      BY <1>0, <3>1, <3>3, LastOfAppend
    <3> QED BY <3>2, <3>4 DEF EndsInv, LastForStatus, AskingFits, StillComes, LastOnTcp, LastIs,
                              NothingOnTcp
  <2> QED BY <1>5, <2>1, <2>2 DEF RequestUdp
<1>6. CASE RequestTcp
  <2>1. client'.req = "TCP" /\ client'.mode = "UDP" /\ client'.stat = "SWITCH_TCP"
    BY <1>0, <1>6 DEF RequestTcp, ClientState
  <2>2. /\ Request("COMM_TCP", Closed) \in SwitchRequests
        /\ Request("COMM_TCP", Closed).what \in {"COMM_TCP"}
    BY DEF Request, SwitchRequests
  <2>3. LastIs(requests', {"COMM_TCP"}) /\ requests' # <<>>
    BY <1>0, <1>6, <2>2, LastOfAppend DEF RequestTcp
  <2> QED BY <2>1, <2>3 DEF EndsInv, LastForStatus, AskingFits, StillComes, LastOnTcp, LastIs,
                            NothingOnTcp
<1>7. /\ BackToTcp(client).stat = "CONNECTED" /\ BackToTcp(client).req = "TCP"
      /\ BackToTcp(client).mode = "TCP"
  BY <1>0 DEF BackToTcp, Close, ClientState
<1>8. CASE ForceReset \/ Timeout
  BY <1>3, <1>7, <1>8 DEF ForceReset, Timeout
<1>9. CASE RecvUdpConn
  BY <1>0, <1>4, <1>9 DEF RecvUdpConn, ClientState
<1>10. CASE RecvUdpConnFails
  <2> DEFINE c == [client EXCEPT !.req = "TCP", !.stat = "CONNECTED", !.timer = FALSE,
                                 !.waiting = FALSE]
  <2>1. client' \in {c, Close(c)}
    BY <1>10 DEF RecvUdpConnFails
  <2>2. client'.req = "TCP" /\ client'.stat = "CONNECTED"
    BY <1>0, <2>1 DEF Close, ClientState
  <2> QED BY <1>3, <2>2
<1>11. /\ Activity \in ClientState /\ Activity.sock = client.sock
       /\ \/ Activity = client /\ client.stat # "VERIFY_UDP"
          \/ Activity.stat = "CONNECTED" /\ Activity.mode = "UDP"
  BY <1>0 DEF Activity, ClientState, Modes
<1>12. ASSUME NEW c \in {Activity, [Activity EXCEPT !.timer = FALSE],
                         [Activity EXCEPT !.err = FALSE]},
              client' = c, UNCHANGED <<requests, replies>>
       PROVE  EndsInv'
  <2>1. /\ client'.req = Activity.req /\ client'.mode = Activity.mode
        /\ client'.stat = Activity.stat /\ client'.sock = Activity.sock
    BY <1>11, <1>12 DEF ClientState
  <2> QED BY <1>3, <1>4, <1>11, <1>12, <2>1
<1>13. CASE ClientUdp
  <2>1. PICK d \in toClient :
          /\ Takes(client, d)
          /\ \/ d.what = "SWITCH_UDP_OK" /\ HandleUdpReply(Activity, Reply(d.what, d.from))
             \/ /\ client' \in {Activity, [Activity EXCEPT !.timer = FALSE]}
                /\ UNCHANGED requests
    BY <1>13 DEF ClientUdp
  <2>2. UNCHANGED replies
    BY <1>13 DEF ClientUdp
  <2>3. CASE d.what = "SWITCH_UDP_OK" /\ HandleUdpReply(Activity, Reply(d.what, d.from))
    <3>1. Reply(d.what, d.from) \in Replies /\ Reply(d.what, d.from).what \in UdpAnswers
      BY <1>0, <2>3 DEF Reply, Replies, FromServer, PortOr, UdpAnswers
    <3>2. AskingFits(Activity)
      BY <1>1, <1>11 DEF AskingFits
    <3>3. /\ AskingFits(client')
          /\ \/ client'.stat = "CONNECTED"
             \/ /\ client'.stat = "VERIFY_UDP" /\ client'.timer
                /\ Activity.stat \in {"SWITCH_UDP", "VERIFY_UDP"}
                /\ requests' = requests
             \/ /\ client'.stat = Activity.stat /\ requests' = requests
                /\ Activity.stat \notin {"SWITCH_UDP", "VERIFY_UDP"}
      BY <1>11, <2>3, <3>1, <3>2, ReplyEnds
    <3>4. CASE client'.stat = "CONNECTED"
      BY <3>3, <3>4 DEF EndsInv, LastForStatus, StillComes
    <3>5. CASE /\ client'.stat = "VERIFY_UDP" /\ client'.timer
               /\ Activity.stat \in {"SWITCH_UDP", "VERIFY_UDP"}
               /\ requests' = requests
      BY <1>1, <1>2, <1>11, <2>2, <3>3, <3>5
         DEF EndsInv, LastForStatus, StillComes, LastOnTcp, LastIs
    <3>6. CASE /\ client'.stat = Activity.stat /\ requests' = requests
               /\ Activity.stat \notin {"SWITCH_UDP", "VERIFY_UDP"}
               /\ client'.stat # "CONNECTED"
      BY <1>1, <1>2, <1>11, <2>2, <3>3, <3>6
         DEF EndsInv, LastForStatus, StillComes, LastOnTcp, LastIs, NothingOnTcp
    <3> QED BY <3>3, <3>4, <3>5, <3>6
  <2>4. CASE client' \in {Activity, [Activity EXCEPT !.timer = FALSE]} /\ UNCHANGED requests
    BY <1>12, <2>2, <2>4
  <2> QED BY <2>1, <2>3, <2>4
<1>14. CASE ClientUdpError
  <2>1. CASE client' = [Activity EXCEPT !.err = FALSE]
    BY <1>12, <1>14, <2>1 DEF ClientUdpError, net
  <2>2. CASE client' = [BackToTcp(Activity) EXCEPT !.timer = Activity.timer]
    <3>1. client'.req = "TCP" /\ client'.stat = "CONNECTED"
      BY <1>11, <2>2 DEF BackToTcp, Close, ClientState
    <3> QED BY <1>3, <3>1
  <2> QED BY <1>14, <2>1, <2>2 DEF ClientUdpError
<1>15. CASE ClientTcp
  <2>1. /\ replies # <<>> /\ replies' = Tail(replies)
        /\ HandleUdpReply(client, Head(replies))
    BY <1>15 DEF ClientTcp
  <2>2. Head(replies) \in Replies
    BY <1>0, <2>1, SeqFacts
  <2>3. /\ AskingFits(client')
        /\ \/ client'.stat = "CONNECTED"
           \/ /\ client'.stat = "VERIFY_UDP" /\ client'.timer
              /\ client.stat \in {"SWITCH_UDP", "VERIFY_UDP"}
              /\ requests' = requests
           \/ /\ client'.stat = client.stat /\ requests' = requests
              /\ client.stat \in {"SWITCH_UDP", "VERIFY_UDP"} =>
                   Head(replies).what \notin UdpAnswers
              /\ client.stat = "SWITCH_TCP" => Head(replies).what \notin TcpAnswers
    BY <1>0, <1>1, <2>1, <2>2, ReplyEnds
  <2>4. ASSUME NEW asks, NEW answers, requests' = requests, LastOnTcp(asks, answers)
        PROVE  /\ LastOnTcp(asks, answers)'
               /\ NothingOnTcp' => Head(replies).what \in answers
    BY <1>0, <1>2, <2>1, <2>4, LastAfterRead
  <2>5. CASE client'.stat = "CONNECTED"
    BY <2>3, <2>5 DEF EndsInv, LastForStatus, StillComes
  <2>6. CASE /\ client'.stat = "VERIFY_UDP" /\ client'.timer
             /\ client.stat \in {"SWITCH_UDP", "VERIFY_UDP"}
             /\ requests' = requests
    <3>1. LastOnTcp({"COMM_UDP"}, UdpAnswers)'
      BY <1>1, <2>4, <2>6 DEF LastForStatus
    <3> QED BY <2>3, <2>6, <3>1 DEF EndsInv, LastForStatus, StillComes
  <2>7. CASE /\ client'.stat = client.stat /\ requests' = requests
             /\ client.stat \in {"SWITCH_UDP", "VERIFY_UDP"}
             /\ Head(replies).what \notin UdpAnswers
    <3>1. LastOnTcp({"COMM_UDP"}, UdpAnswers)' /\ ~NothingOnTcp'
      BY <1>1, <2>4, <2>7 DEF LastForStatus
    <3> QED BY <2>3, <2>7, <3>1 DEF EndsInv, LastForStatus, StillComes
  <2>8. CASE /\ client'.stat = client.stat /\ requests' = requests
             /\ client.stat = "SWITCH_TCP"
             /\ Head(replies).what \notin TcpAnswers
    <3>1. LastOnTcp({"COMM_TCP"}, TcpAnswers)' /\ ~NothingOnTcp'
      BY <1>1, <2>4, <2>8 DEF LastForStatus
    <3> QED BY <2>3, <2>8, <3>1 DEF EndsInv, LastForStatus, StillComes
  <2>9. client.stat \in {"CONNECTED", "SWITCH_UDP", "SWITCH_TCP", "VERIFY_UDP"}
    BY <1>0 DEF ClientState
  <2> QED BY <2>3, <2>5, <2>6, <2>7, <2>8, <2>9
<1>16. CASE SendCommand
  <2>1. CASE UNCHANGED client
    BY <1>4, <1>16, <2>1 DEF SendCommand
  <2>2. CASE client' = BackToTcp(client)
    BY <1>3, <1>7, <2>2
  <2> QED BY <1>16, <2>1, <2>2 DEF SendCommand
<1> QED BY <1>5, <1>6, <1>8, <1>9, <1>10, <1>13, <1>14, <1>15, <1>16

LEMMA EndsServer ==
  ASSUME IInv, EndsInv,
         \/ ServerTcp \/ ServerTcpData \/ ServerUdp \/ ServerUdpError \/ Flush
         \/ Ghostbust \/ Lose \/ Bounce
  PROVE  EndsInv'
<1>0. /\ client \in ClientState /\ requests \in Seq(SwitchRequests)
      /\ buf \in Seq(Replies) /\ replies \in Seq(Replies)
  BY DEF IInv, TypeOK, VerifyByUdpOnly
<1>1. LastForStatus /\ AskingFits(client) /\ StillComes
  BY DEF EndsInv
<1>2. /\ client'.req = client.req /\ client'.mode = client.mode /\ client'.stat = client.stat
      /\ client'.sock = client.sock /\ client'.timer = client.timer
  <2>1. ASSUME NEW d
        PROVE  /\ Refused(client, d).req = client.req /\ Refused(client, d).mode = client.mode
               /\ Refused(client, d).stat = client.stat
               /\ Refused(client, d).sock = client.sock
               /\ Refused(client, d).timer = client.timer
    BY <1>0 DEF Refused, ClientState
  <2>2. UNCHANGED client \/ \E d : client' = Refused(client, d)
    BY DEF ServerTcp, ServerTcpData, ServerUdp, ServerUdpError, Flush, Ghostbust, Lose, Bounce
  <2> QED BY <2>1, <2>2
<1>3. AskingFits(client)'
  BY <1>1, <1>2 DEF AskingFits
<1>4. CASE ServerTcp
  <2>1. /\ requests # <<>> /\ requests' = Tail(requests)
        /\ \E reported : HandleUdpReq(ReadTcp(server), Head(requests), reported)
    BY <1>4 DEF ServerTcp
  <2>2. Head(requests) \in SwitchRequests
    BY <1>0, <2>1, SeqFacts
  <2>3. /\ buf' # <<>>
        /\ Head(requests).what = "COMM_UDP" => LastIs(buf', UdpAnswers)
        /\ Head(requests).what = "COMM_TCP" => LastIs(buf', TcpAnswers)
    BY <1>0, <2>1, <2>2, OneAnswer
  <2>4. LastOnTcp({"COMM_UDP"}, UdpAnswers) => LastOnTcp({"COMM_UDP"}, UdpAnswers)'
    BY <1>0, <2>1, <2>3, LastAfterAnswer
  <2>5. LastOnTcp({"COMM_TCP"}, TcpAnswers) => LastOnTcp({"COMM_TCP"}, TcpAnswers)'
    BY <1>0, <2>1, <2>3, LastAfterAnswer
  <2> QED BY <1>1, <1>2, <1>3, <2>3, <2>4, <2>5
          DEF EndsInv, LastForStatus, StillComes, NothingOnTcp
<1>5. CASE Flush
  <2>1. UNCHANGED requests /\ replies' = replies \o buf /\ buf' = <<>>
    BY <1>5 DEF Flush
  <2>2. LastOnTcp({"COMM_UDP"}, UdpAnswers) => LastOnTcp({"COMM_UDP"}, UdpAnswers)'
    BY <1>0, <2>1, LastAfterFlush
  <2>3. LastOnTcp({"COMM_TCP"}, TcpAnswers) => LastOnTcp({"COMM_TCP"}, TcpAnswers)'
    BY <1>0, <2>1, LastAfterFlush
  <2>4. NothingOnTcp' => NothingOnTcp
    BY <1>0, <2>1, NothingFlushed
  <2> QED BY <1>1, <1>2, <1>3, <2>2, <2>3, <2>4 DEF EndsInv, LastForStatus, StillComes
<1>6. CASE ServerTcpData \/ ServerUdp \/ ServerUdpError \/ Ghostbust \/ Lose \/ Bounce
  <2>1. UNCHANGED <<requests, buf, replies>>
    BY <1>6 DEF ServerTcpData, ServerUdp, ServerUdpError, Ghostbust, Lose, Bounce, net
  <2> QED BY <1>1, <1>2, <1>3, <2>1
          DEF EndsInv, LastForStatus, StillComes, LastOnTcp, LastIs, NothingOnTcp
<1> QED BY <1>4, <1>5, <1>6

LEMMA EndsNext == IInv /\ EndsInv /\ [Next]_vars => EndsInv'
<1> SUFFICES ASSUME IInv, EndsInv, [Next]_vars PROVE EndsInv'
  OBVIOUS
<1>1. CASE UNCHANGED vars
  BY <1>1 DEF vars, net, EndsInv, LastForStatus, AskingFits, StillComes, LastOnTcp, LastIs,
              NothingOnTcp
<1>2. CASE Next
  BY <1>2, EndsClient, EndsServer DEF Next
<1> QED BY <1>1, <1>2

\* The answer that turns the timer of the client off (handleUdpReply()) never
\* turns off the last thing that would end the switch: the safety half of
\* SwitchEnds, whether or not connUdpConn() of ntserv fails.
THEOREM SwitchNotStranded == Spec => []NeverStranded
<1>1. EndsInv => NeverStranded
  BY DEF EndsInv, StillComes, NeverStranded
<1> QED
  BY <1>1, EndsInit, EndsNext, Invariant, PTL DEF Spec

-----------------------------------------------------------------------------
(* Recovers.                                                               *)

LEMMA SocketInit == Init => ClientSocket
BY DEF Init, ClientSocket

LEMMA ReplySocket ==
  ASSUME NEW c \in ClientState, c.sock = Closed => c.peer = Closed /\ ~c.err,
         NEW reply \in Replies, HandleUdpReply(c, reply)
  PROVE  ClientSocket'
<1> DEFINE d == [c EXCEPT !.timer = FALSE]
           v == [d EXCEPT !.stat = "VERIFY_UDP", !.timer = TRUE,
                          !.peer = IF portSwap THEN reply.port ELSE @]
<1>1. /\ d \in ClientState /\ d.mode = c.mode
      /\ d.sock = c.sock /\ d.peer = c.peer /\ d.err = c.err
  BY DEF ClientState
<1>2. ASSUME NEW s \in ClientState
      PROVE  /\ Close(s).peer = Closed /\ ~Close(s).err
             /\ BackToTcp(s).peer = Closed /\ ~BackToTcp(s).err
  BY DEF Close, BackToTcp, ClientState
<1>3. /\ v \in ClientState /\ v.mode = c.mode /\ v.sock = c.sock /\ v.err = c.err
      /\ v.peer = c.peer \/ portSwap
  BY <1>1 DEF ClientState, Replies
<1>4. /\ [d EXCEPT !.mode = "TCP", !.stat = "CONNECTED"] \in ClientState
      /\ [d EXCEPT !.req = "TCP", !.stat = "CONNECTED"] \in ClientState
      /\ [d EXCEPT !.req = c.mode, !.stat = "CONNECTED"] \in ClientState
  BY <1>1 DEF ClientState, Modes
<1>5. \/ client' = d
      \/ (portSwap => c.sock # Closed) /\ SendVerify(v)
      \/ client' = Close([d EXCEPT !.mode = "TCP", !.stat = "CONNECTED"])
      \/ client' = Close([d EXCEPT !.req = "TCP", !.stat = "CONNECTED"])
      \/ client' = Close([d EXCEPT !.req = c.mode, !.stat = "CONNECTED"])
  BY Zenon DEF HandleUdpReply
<1> HIDE DEF d, v
<1>6. CASE client' = d
  BY <1>1, <1>6 DEF ClientSocket
<1>7. CASE (portSwap => c.sock # Closed) /\ SendVerify(v)
  <2>1. client' = v \/ client' = BackToTcp(v)
    BY <1>7 DEF SendVerify
  <2> QED BY <1>2, <1>3, <1>7, <2>1 DEF ClientSocket
<1>8. CASE \/ client' = Close([d EXCEPT !.mode = "TCP", !.stat = "CONNECTED"])
           \/ client' = Close([d EXCEPT !.req = "TCP", !.stat = "CONNECTED"])
           \/ client' = Close([d EXCEPT !.req = c.mode, !.stat = "CONNECTED"])
  BY <1>2, <1>4, <1>8 DEF ClientSocket
<1> QED BY <1>5, <1>6, <1>7, <1>8

LEMMA SocketNext == IInv /\ ClientSocket /\ [Next]_vars => ClientSocket'
<1> SUFFICES ASSUME IInv, ClientSocket, [Next]_vars PROVE ClientSocket'
  OBVIOUS
<1>0. /\ client \in ClientState /\ replies \in Seq(Replies)
      /\ toClient \subseteq FromServer /\ toServer \subseteq FromClient
      /\ Closed \notin ClientPorts
  BY UdpLinkAssumption DEF IInv, TypeOK
<1>1. ASSUME NEW s \in ClientState
      PROVE  /\ Close(s).peer = Closed /\ ~Close(s).err
             /\ BackToTcp(s).peer = Closed /\ ~BackToTcp(s).err
             /\ [BackToTcp(s) EXCEPT !.timer = s.timer].peer = Closed
             /\ ~[BackToTcp(s) EXCEPT !.timer = s.timer].err
  BY DEF Close, BackToTcp, ClientState
<1>2. /\ Activity \in ClientState /\ Activity.sock = client.sock
      /\ Activity.peer = client.peer /\ Activity.err = client.err
  BY <1>0 DEF Activity, ClientState, Modes
<1>3. ASSUME client'.sock = client.sock \/ client'.sock # Closed,
             client'.peer = client.peer, client'.err = client.err
      PROVE  ClientSocket'
  BY <1>3 DEF ClientSocket
<1>4. CASE UNCHANGED client
  BY <1>4 DEF ClientSocket
<1>5. CASE RequestUdp
  <2>1. CASE client' = [client EXCEPT !.req = "TCP", !.stat = "CONNECTED", !.timer = FALSE]
    BY <1>0, <1>3, <2>1 DEF ClientState
  <2>2. CASE \E port \in (IF client.sock = Closed THEN ClientPorts ELSE {client.sock}) :
                client' = [client EXCEPT !.req = "UDP", !.stat = "SWITCH_UDP",
                               !.timer = TRUE, !.sock = port, !.waiting = ~portSwap]
    BY <1>0, <1>3, <2>2 DEF ClientState
  <2> QED BY <1>5, <2>1, <2>2 DEF RequestUdp
<1>6. CASE RequestTcp
  BY <1>0, <1>3, <1>6 DEF RequestTcp, ClientState
<1>7. CASE ForceReset \/ Timeout \/ SendCommand
  BY <1>0, <1>1, <1>4, <1>7 DEF ForceReset, Timeout, SendCommand, ClientSocket
<1>8. CASE RecvUdpConn
  <2>1. client'.sock \in ClientPorts
    BY <1>0, <1>8 DEF RecvUdpConn, Takes, FromServer, ClientState
  <2> QED BY <1>0, <2>1 DEF ClientSocket
<1>9. CASE RecvUdpConnFails
  <2> DEFINE c == [client EXCEPT !.req = "TCP", !.stat = "CONNECTED", !.timer = FALSE,
                                 !.waiting = FALSE]
  <2>1. /\ c \in ClientState /\ c.sock = client.sock /\ c.peer = client.peer
        /\ c.err = client.err
    BY <1>0 DEF ClientState, Modes
  <2>2. client' \in {c, Close(c)}
    BY <1>9 DEF RecvUdpConnFails
  <2> HIDE DEF c
  <2> QED BY <1>1, <1>3, <2>1, <2>2 DEF ClientSocket
<1>10. CASE ClientUdp
  <2>1. PICK d \in toClient :
          \/ HandleUdpReply(Activity, Reply(d.what, d.from)) /\ d.what = "SWITCH_UDP_OK"
          \/ client' \in {Activity, [Activity EXCEPT !.timer = FALSE]}
    BY <1>10 DEF ClientUdp
  <2>2. CASE HandleUdpReply(Activity, Reply(d.what, d.from)) /\ d.what = "SWITCH_UDP_OK"
    <3>1. Reply(d.what, d.from) \in Replies
      BY <1>0, <2>2 DEF Reply, Replies, FromServer, PortOr
    <3>2. Activity.sock = Closed => Activity.peer = Closed /\ ~Activity.err
      BY <1>2 DEF ClientSocket
    <3> QED BY <1>2, <2>2, <3>1, <3>2, ReplySocket
  <2>3. CASE client' \in {Activity, [Activity EXCEPT !.timer = FALSE]}
    BY <1>2, <1>3, <2>3 DEF ClientState
  <2> QED BY <2>1, <2>2, <2>3
<1>11. CASE ClientUdpError
  <2>1. CASE client' = [Activity EXCEPT !.err = FALSE]
    BY <1>2, <2>1 DEF ClientState, ClientSocket
  <2>2. CASE client' = [BackToTcp(Activity) EXCEPT !.timer = Activity.timer]
    BY <1>1, <1>2, <2>2 DEF ClientSocket
  <2> QED BY <1>11, <2>1, <2>2 DEF ClientUdpError
<1>12. CASE ClientTcp
  <2>1. Head(replies) \in Replies /\ HandleUdpReply(client, Head(replies))
    BY <1>0, <1>12, SeqFacts DEF ClientTcp
  <2> QED BY <1>0, <2>1, ReplySocket DEF ClientSocket
<1>13. CASE Bounce
  <2>1. UNCHANGED client \/ \E d \in toServer : client' = Refused(client, d)
    BY <1>13 DEF Bounce
  <2>2. ASSUME NEW d \in toServer, client' = Refused(client, d)
        PROVE  ClientSocket'
    BY <1>0, <2>2 DEF Refused, ClientState, ClientSocket, FromClient
  <2> QED BY <1>4, <2>1, <2>2
<1>14. CASE \/ ServerTcp \/ ServerTcpData \/ ServerUdp \/ ServerUdpError \/ Flush
            \/ Ghostbust \/ Lose
  BY <1>4, <1>14 DEF ServerTcp, ServerTcpData, ServerUdp, ServerUdpError, Flush, Ghostbust, Lose
<1> QED BY <1>4, <1>5, <1>6, <1>7, <1>8, <1>9, <1>10, <1>11, <1>12, <1>13, <1>14
        DEF Next, vars

\* A step that lets the switch go undisturbed is a new request, or one of
\* these, and the switch was undisturbed before.
LEMMA Undisturbing ==
  ASSUME IInv, Undisturbed, Next, clean', asked' > 0
  PROVE  \/ RequestUdp
         \/ /\ Stages \/ Astray
            /\ UNCHANGED config
            /\ \/ RecvUdpConn \/ ClientUdp \/ ClientTcp \/ SendCommand
               \/ ServerTcp \/ ServerTcpData \/ ServerUdp \/ Flush \/ Ghostbust
<1>1. CASE RequestUdp
  BY <1>1
<1>2. CASE \/ RequestTcp \/ ForceReset \/ RecvUdpConnFails \/ ClientUdpError \/ Timeout
           \/ ServerUdpError \/ Lose \/ Bounce
  BY <1>2 DEF RequestTcp, ForceReset, RecvUdpConnFails, ClientUdpError, Timeout,
              ServerUdpError, Lose, Bounce
<1>3. ASSUME NEW c, NEW r, HandleUdpReply(c, r) PROVE clean
  BY <1>3 DEF HandleUdpReply, SendVerify, SendToServer
<1>4. ASSUME NEW s, NEW q, NEW b, HandleUdpReq(s, q, b) PROVE clean
  BY <1>4 DEF HandleUdpReq, AcceptUdp, DenyUdp, SendToClient
<1>5. CASE \/ RecvUdpConn \/ ClientUdp \/ ClientTcp \/ SendCommand
           \/ ServerTcp \/ ServerTcpData \/ ServerUdp \/ Flush \/ Ghostbust
  <2>1. clean
    BY <1>3, <1>4, <1>5 DEF RecvUdpConn, ClientUdp, ClientTcp, SendCommand, ServerTcp,
                            ServerTcpData, ServerUdp, Flush, Ghostbust, SendToServer, SendToClient
  <2>2. asked' = asked /\ UNCHANGED config
    BY <1>5 DEF RecvUdpConn, ClientUdp, ClientTcp, SendCommand, ServerTcp,
                ServerTcpData, ServerUdp, Flush, Ghostbust
  <2> QED BY <1>5, <2>1, <2>2 DEF Undisturbed
<1> QED BY <1>1, <1>2, <1>5 DEF Next

\* An answer that disturbs nothing asks for nothing.
LEMMA UnaskedReply ==
  ASSUME IInv, NEW c \in ClientState, NEW reply, HandleUdpReply(c, reply), clean'
  PROVE  requests' = requests
<1> DEFINE v == [[c EXCEPT !.timer = FALSE]
                   EXCEPT !.stat = "VERIFY_UDP", !.timer = TRUE,
                          !.peer = IF portSwap THEN reply.port ELSE @]
<1>1. requests' = requests \/ (c.mode = "TCP" /\ SendVerify(v))
  BY DEF HandleUdpReply
<1>2. v.mode = c.mode
  BY DEF ClientState
<1> HIDE DEF v
<1> QED BY <1>1, <1>2 DEF SendVerify

LEMMA StageAsked ==
  ASSUME IInv, ClientSocket, RequestUdp, clean'
  PROVE  Stages'
<1>0. client \in ClientState /\ Closed \notin ClientPorts /\ portSwap \in BOOLEAN
  BY UdpLinkAssumption DEF IInv, TypeOK
<1>1. PICK port \in (IF client.sock = Closed THEN ClientPorts ELSE {client.sock}) :
          /\ client' = [client EXCEPT !.req = "UDP", !.stat = "SWITCH_UDP", !.timer = TRUE,
                                      !.sock = port, !.waiting = ~portSwap]
          /\ requests' = Append(requests, Request("COMM_UDP", port))
          /\ clean' = NothingUnderWay(port)
  BY DEF RequestUdp
<1>2. /\ client.mode = "TCP"
      /\ UNCHANGED <<config, server, buf, replies, toServer, toClient, up>>
  BY DEF RequestUdp
<1>3. /\ client.sock = Closed /\ client.peer = Closed /\ ~client.err
      /\ requests = <<>> /\ buf = <<>> /\ replies = <<>> /\ toServer = {} /\ toClient = {}
      /\ server.peer # port
  BY <1>1 DEF NothingUnderWay, ClientSocket
<1>4. port \in ClientPorts
  BY <1>1, <1>3
<1>5. /\ client'.req = "UDP" /\ client'.stat = "SWITCH_UDP" /\ client'.mode = "TCP"
      /\ client'.sock = port /\ client'.peer = Closed /\ ~client'.err
      /\ client'.waiting = ~portSwap
  BY <1>0, <1>1, <1>2, <1>3 DEF ClientState
<1>6. requests' = <<Request("COMM_UDP", port)>>
  BY <1>1, <1>3
<1>7. Asked'
  BY <1>2, <1>3, <1>5, <1>6 DEF Asked, ForUs, config, Request
<1> QED BY <1>0, <1>4, <1>5, <1>7 DEF Stages

LEMMA StageRecvUdpConn ==
  ASSUME IInv, Stages, UNCHANGED config, RecvUdpConn
  PROVE  Stages'
<1>0. client \in ClientState
  BY DEF IInv, TypeOK
<1>1. PICK d \in toClient :
        /\ Takes(client, d)
        /\ client' = [client EXCEPT !.peer = d.from, !.waiting = FALSE]
        /\ toClient' = toClient \ {d}
  BY DEF RecvUdpConn
<1>2. client.waiting /\ d \in ForUs
  BY <1>1 DEF RecvUdpConn, Takes, ForUs
<1>3. Answered /\ server.sock # Closed
  BY <1>2 DEF Stages, Asked, Verifying, Switched, Joined
<1>4. /\ ~portSwap /\ d = Datagram(server.sock, client.sock, "SWITCH_UDP_OK")
      /\ ForUs \ {d} = {}
  BY <1>2, <1>3 DEF Answered
<1>5. /\ client'.req = client.req /\ client'.sock = client.sock /\ client'.err = client.err
      /\ client'.stat = client.stat /\ client'.mode = client.mode
      /\ client'.peer = server.sock /\ ~client'.waiting
  BY <1>0, <1>1, <1>4 DEF ClientState, Datagram
<1>6. UNCHANGED <<server, requests, buf, replies, toServer>> /\ UNCHANGED portSwap
  BY DEF RecvUdpConn, config
<1>7. ForUs' = {}
  BY <1>1, <1>4, <1>5 DEF ForUs
<1>8. Ok' = Ok
  BY <1>6 DEF Ok
<1>9. Answered'
  BY <1>3, <1>4, <1>5, <1>6, <1>7, <1>8 DEF Answered
<1> QED BY <1>3, <1>5, <1>6, <1>9 DEF Stages

LEMMA StageClientUdp ==
  ASSUME IInv, Stages, UNCHANGED config, ClientUdp
  PROVE  Stages'
<1>0. client \in ClientState
  BY DEF IInv, TypeOK
<1>1. PICK d \in toClient :
        /\ Takes(client, d)
        /\ toClient' = toClient \ {d}
        /\ \/ d.what = "SWITCH_UDP_OK"
           \/ /\ client' \in {Activity, [Activity EXCEPT !.timer = FALSE]}
              /\ UNCHANGED <<requests, toServer>>
  BY DEF ClientUdp
<1>2. ~client.waiting /\ d \in ForUs
  BY <1>1 DEF ClientUdp, Takes, ForUs
<1>3. Switched /\ server.sock # Closed
  BY <1>2 DEF Stages, Asked, Answered, Verifying
<1>4. d.what # "SWITCH_UDP_OK"
  BY <1>2, <1>3 DEF Switched
<1>5. /\ Activity \in ClientState /\ Activity.stat = "CONNECTED" /\ Activity.mode = "UDP"
      /\ Activity.req = client.req /\ Activity.sock = client.sock
      /\ Activity.peer = client.peer /\ Activity.err = client.err
      /\ Activity.waiting = client.waiting
  BY <1>0, <1>3 DEF Activity, ClientState, Modes, Switched
<1>6. /\ client'.stat = "CONNECTED" /\ client'.mode = "UDP"
      /\ client'.req = client.req /\ client'.sock = client.sock
      /\ client'.peer = client.peer /\ client'.err = client.err
      /\ client'.waiting = client.waiting
  BY <1>1, <1>4, <1>5 DEF ClientState
<1>7. UNCHANGED <<server, requests, buf, replies, toServer>>
  BY <1>1, <1>4 DEF ClientUdp
<1>8. \A x \in ForUs' : x \in ForUs
  BY <1>1, <1>6 DEF ForUs
<1>9. Joined'
  BY <1>3, <1>6, <1>7 DEF Switched, Joined
<1>10. Switched'
  BY <1>3, <1>6, <1>7, <1>8, <1>9 DEF Switched
<1> QED BY <1>3, <1>6, <1>7, <1>10 DEF Stages

LEMMA StageClientTcp ==
  ASSUME IInv, Stages, UNCHANGED config, ClientTcp, clean'
  PROVE  Stages'
<1>0. client \in ClientState /\ server \in ServerState
  BY DEF IInv, TypeOK
<1>1. ~client.waiting /\ replies # <<>>
  BY DEF ClientTcp
<1>2. Answered /\ server.sock # Closed
  BY <1>1 DEF Stages, Asked, Verifying, Switched, Joined
<1>3. replies = <<Ok>> /\ buf = <<>>
  BY <1>1, <1>2 DEF Answered
<1>4. /\ HandleUdpReply(client, Ok) /\ replies' = <<>>
      /\ UNCHANGED <<server, buf, toClient>>
  BY <1>3 DEF ClientTcp
<1> DEFINE v == [[client EXCEPT !.timer = FALSE]
                   EXCEPT !.stat = "VERIFY_UDP", !.timer = TRUE,
                          !.peer = IF portSwap THEN Ok.port ELSE @]
<1>5. SendVerify(v)
  BY <1>2, <1>4 DEF HandleUdpReply, Answered, Stages, Ok, Reply
<1>6. /\ v.mode = "TCP" /\ v.stat = "VERIFY_UDP" /\ v.req = "UDP"
      /\ v.sock = client.sock /\ v.sock # Closed /\ ~v.err /\ ~v.waiting
      /\ v.peer = server.sock
  BY <1>0, <1>1, <1>2 DEF ClientState, Answered, Stages, Ok, Reply
<1> HIDE DEF v
<1>7. CanWrite(v)
  BY <1>2, <1>6 DEF CanWrite
<1>8. /\ client' = v /\ requests' = requests
      /\ toServer' = With(toServer, Datagram(client.sock, server.sock, "COMM_VERIFY"))
      /\ Datagram(client.sock, server.sock, "COMM_VERIFY") \in toServer'
  BY <1>5, <1>6, <1>7 DEF SendVerify, SendToServer
<1>9. /\ toServer' = {Datagram(client.sock, server.sock, "COMM_VERIFY")}
      /\ requests' = <<>> /\ ForUs' = {}
  BY <1>1, <1>2, <1>4, <1>6, <1>8 DEF Answered, With, ForUs
<1>10. Joined'
  BY <1>2, <1>3, <1>4, <1>6, <1>8, <1>9 DEF Joined, Answered
<1>11. Verifying'
  BY <1>2, <1>4, <1>6, <1>8, <1>9, <1>10 DEF Verifying, Answered
<1> QED BY <1>2, <1>4, <1>6, <1>8, <1>11 DEF Stages

LEMMA StageSendCommand ==
  ASSUME IInv, Stages, UNCHANGED config, SendCommand, clean'
  PROVE  Stages'
<1>1. Switched /\ server.sock # Closed /\ client.stat = "CONNECTED" /\ client.mode = "UDP"
  BY DEF SendCommand, Stages, Asked, Answered, Verifying, Switched
<1>2. /\ toServer' = With(toServer, Datagram(client.sock, client.peer, "COMMAND"))
      /\ UNCHANGED <<client, server, requests, buf, replies, toClient>>
  BY DEF SendCommand, SendToServer
<1>3. ForUs' = ForUs
  BY <1>2 DEF ForUs
<1>4. Joined'
  BY <1>1, <1>2 DEF Switched, Joined
<1>5. \A d \in toServer' : d.from = client.sock /\ d.to = server.sock /\ d.what = "COMMAND"
  BY <1>1, <1>2 DEF Switched, Joined, With, Datagram
<1>6. Switched'
  BY <1>1, <1>2, <1>3, <1>4, <1>5 DEF Switched
<1> QED BY <1>1, <1>2, <1>6 DEF Stages

LEMMA StageServerTcp ==
  ASSUME IInv, Stages, UNCHANGED config, ServerTcp, clean'
  PROVE  Stages'
<1>0. client \in ClientState /\ server \in ServerState /\ Closed \notin ServerPorts
  BY UdpLinkAssumption DEF IInv, TypeOK
<1> DEFINE request == Request("COMM_UDP", client.sock)
           o == SwitchOff(ReadTcp(server))
           enabled == IF portSwap THEN o.swap \cup {"ENABLED"} ELSE o.swap
<1>1. Asked
  BY DEF ServerTcp, Stages, Answered, Verifying, Switched, Joined
<1>2. PICK reported : HandleUdpReq(ReadTcp(server), request, reported)
  BY <1>1 DEF ServerTcp, Asked
<1>3. requests' = <<>> /\ UNCHANGED <<client, replies, toServer, portSwap>>
  BY <1>1 DEF ServerTcp, Asked, config
<1>4. AcceptUdp(o, request, reported)
  BY <1>2 DEF HandleUdpReq, DenyUdp, Request
<1>5. PICK port \in ServerPorts :
        /\ server' = [o EXCEPT
                        !.port = request.port, !.sock = port,
                        !.peer = IF "ENABLED" \in enabled THEN Closed ELSE request.port,
                        !.udpbuf = "UPDATE", !.blocked = reported,
                        !.swap = IF reported THEN enabled \cup {"UDPRECEIVED"} ELSE enabled]
        /\ buf' = Append(buf, Reply("SWITCH_UDP_OK", port))
        /\ IF portSwap THEN UNCHANGED <<toClient, clean>>
           ELSE SendToClient(Datagram(port, request.port, "SWITCH_UDP_OK"))
  BY <1>4 DEF AcceptUdp
<1>6. /\ o \in ServerState /\ o.mode = "TCP" /\ ~o.err
      /\ "ENABLED" \in enabled <=> portSwap
  BY IInvParts, TcpRead, SwitchedOff DEF ServerOK
<1>7. /\ server'.sock = port /\ server'.mode = "TCP" /\ ~server'.err
      /\ server'.peer = IF portSwap THEN Closed ELSE client.sock
  <2> HIDE DEF o, enabled
  <2> QED BY <1>5, <1>6 DEF ServerState, Request
<1>8. buf' = <<Reply("SWITCH_UDP_OK", port)>>
  BY <1>1, <1>5 DEF Asked
<1>9. IF portSwap THEN ForUs' = {}
      ELSE ForUs' \subseteq {Datagram(port, client.sock, "SWITCH_UDP_OK")}
  BY <1>1, <1>3, <1>5 DEF Asked, ForUs, SendToClient, With, Request
<1>10. Ok' = Reply("SWITCH_UDP_OK", port)
  BY <1>7 DEF Ok
<1>11. Answered'
  BY <1>1, <1>3, <1>7, <1>8, <1>9, <1>10 DEF Asked, Answered
<1> QED BY <1>0, <1>3, <1>7, <1>11 DEF Stages

LEMMA StageServerUdp ==
  ASSUME IInv, Stages, UNCHANGED config, ServerUdp, ~server.astray
  PROVE  Stages'
<1>0. ServerOK(server) /\ toServer \subseteq FromClient
  BY IInvParts
<1>1. PICK d \in toServer :
        /\ toServer' = toServer \ {d}
        /\ LET s == ReadUdp(server, d.from)
           IN server' = IF d.what = "COMM_VERIFY" THEN Verified(s) ELSE s
  BY DEF ServerUdp
<1>2. UNCHANGED <<client, requests, buf, replies, toClient>>
  BY DEF ServerUdp
<1>3. server.sock # Closed /\ (Verifying \/ Switched)
  BY <1>1 DEF Stages, Asked, Answered
<1>4. d.from = client.sock
  BY <1>1, <1>3 DEF Verifying, Switched, Datagram
<1> DEFINE s == ReadUdp(server, d.from)
<1>a. /\ s \in ServerState /\ s.sock = server.sock /\ s.err = server.err /\ s.mode = server.mode
      /\ s.peer = client.sock
  <2>1. d.from \in ClientPorts
    BY <1>0, <1>1 DEF FromClient
  <2>2. server.peer \in {Closed, client.sock}
    BY <1>3 DEF Verifying, Switched
  <2> QED BY <1>0, <1>3, <1>4, <2>1, <2>2, UdpRead DEF ServerOK
<1>b. server' = IF d.what = "COMM_VERIFY" THEN Verified(s) ELSE s
  BY <1>1
<1> HIDE DEF s
<1>5. ForUs' = ForUs
  BY <1>2 DEF ForUs
<1>6. /\ server'.sock = server.sock /\ server'.err = server.err
      /\ server'.peer = client.sock
      /\ server'.mode = IF d.what = "COMM_VERIFY" THEN "UDP" ELSE server.mode
  BY <1>a, <1>b DEF Verified, ServerState
<1>7. Joined'
  BY <1>2, <1>3, <1>6 DEF Verifying, Switched, Joined
<1>8. CASE Verifying
  <2>1. d.what = "COMM_VERIFY" /\ toServer' = {}
    BY <1>1, <1>8 DEF Verifying, Datagram
  <2>2. /\ client'.stat = "VERIFY_UDP" /\ client'.mode = "TCP"
        /\ server'.mode = "UDP" /\ server'.peer = client'.sock /\ ForUs' = {}
    BY <1>2, <1>5, <1>6, <1>8, <2>1 DEF Verifying
  <2>3. Switched'
    BY <1>7, <2>1, <2>2 DEF Switched
  <2> QED BY <1>2, <1>3, <1>6, <2>3 DEF Stages
<1>9. CASE Switched
  <2>1. d.what # "COMM_VERIFY" /\ toServer' \subseteq toServer
    BY <1>1, <1>9 DEF Switched
  <2>2. Switched'
    BY <1>2, <1>5, <1>6, <1>7, <1>9, <2>1 DEF Switched
  <2> QED BY <1>2, <1>3, <1>6, <2>2 DEF Stages
<1> QED BY <1>3, <1>8, <1>9

LEMMA StageFlush ==
  ASSUME IInv, Stages, UNCHANGED config, Flush, clean'
  PROVE  Stages'
<1>0. server \in ServerState
  BY DEF IInv, TypeOK
<1>1. /\ replies' = replies \o buf /\ buf' = <<>>
      /\ UNCHANGED <<client, requests, toServer, portSwap>>
  BY DEF Flush, config
<1>2. \/ server.mode = "TCP" /\ UNCHANGED <<server, toClient>>
      \/ /\ server.mode = "UDP" /\ CanWrite(server)
         /\ toClient' = With(toClient, Datagram(server.sock, server.peer, server.udpbuf))
         /\ server' = [server EXCEPT !.udpbuf = "UPDATE"]
  BY DEF Flush, SendToClient
<1>3. /\ server'.mode = server.mode /\ server'.sock = server.sock
      /\ server'.peer = server.peer /\ server'.err = server.err
  BY <1>0, <1>2 DEF ServerState
<1>4. Ok' = Ok
  BY <1>3 DEF Ok
<1>5. server.peer # client.sock \/ server.mode = "TCP" => ForUs' = ForUs
  BY <1>1, <1>2 DEF ForUs, With, Datagram
<1>6. CASE Asked
  <2>1. replies' = <<>> /\ ForUs' = {}
    BY <1>1, <1>5, <1>6 DEF Asked
  <2>2. Asked'
    BY <1>1, <1>3, <1>6, <2>1 DEF Asked, Request
  <2> QED BY <1>1, <2>2 DEF Stages
<1>7. CASE server.sock # Closed /\ Answered
  <2>1. replies' = <<Ok>>
    <3>1. buf \in Seq(Replies) /\ replies \in Seq(Replies)
      BY DEF IInv, TypeOK
    <3> QED BY <1>1, <1>7, <3>1, EmptyConcat DEF Answered
  <2>2. ForUs' = ForUs
    BY <1>5, <1>7 DEF Answered
  <2>3. Answered'
    BY <1>1, <1>3, <1>4, <1>7, <2>1, <2>2 DEF Answered
  <2> QED BY <1>1, <1>3, <1>7, <2>3 DEF Stages
<1>8. CASE server.sock # Closed /\ Verifying
  <2>1. replies' = <<>> /\ ForUs' = ForUs
    BY <1>1, <1>5, <1>8 DEF Verifying, Joined
  <2>2. Verifying'
    BY <1>1, <1>3, <1>8, <2>1 DEF Verifying, Joined
  <2> QED BY <1>1, <1>3, <1>8, <2>2 DEF Stages
<1>9. CASE server.sock # Closed /\ Switched
  <2>1. replies' = <<>>
    BY <1>1, <1>9 DEF Switched, Joined
  <2>2. \A d \in ForUs' : d \in ForUs \/ (d.from = server.sock /\ d.what = server.udpbuf)
    BY <1>1, <1>2 DEF ForUs, With, Datagram
  <2>3. server.udpbuf # "SWITCH_UDP_OK"
    BY <1>0 DEF ServerState
  <2>4. Joined'
    BY <1>1, <1>3, <1>9, <2>1 DEF Switched, Joined
  <2>5. Switched'
    BY <1>1, <1>3, <1>9, <2>2, <2>3, <2>4 DEF Switched
  <2> QED BY <1>1, <1>3, <1>9, <2>5 DEF Stages
<1> QED BY <1>6, <1>7, <1>8, <1>9 DEF Stages

\* The portswap block of doRead() touches nothing that the stages speak of.
LEMMA StageServerTcpData ==
  ASSUME IInv, Stages, ServerTcpData
  PROVE  Stages'
<1>1. ServerOK(server)
  BY IInvParts
<1>2. /\ server'.mode = server.mode /\ server'.sock = server.sock
      /\ server'.peer = server.peer /\ server'.err = server.err
  BY <1>1, TcpRead DEF ServerTcpData
<1>3. /\ UNCHANGED <<client, requests, buf, replies, toServer, toClient>> /\ UNCHANGED portSwap
  BY DEF ServerTcpData, config, net
<1> QED BY <1>2, <1>3 DEF Stages, Asked, Answered, Verifying, Switched, Joined, ForUs, Ok

\* With the TCP socket taken for udpSock, ntserv has no peer until a request
\* or an error closes the socket.
LEMMA AstrayStays ==
  ASSUME IInv, Astray, clean',
         \/ RecvUdpConn \/ ClientUdp \/ ClientTcp \/ SendCommand
         \/ ServerTcp \/ ServerTcpData \/ ServerUdp \/ Flush \/ Ghostbust
  PROVE  Astray'
<1>0. /\ ServerOK(server) /\ client \in ClientState /\ replies \in Seq(Replies)
      /\ toServer \subseteq FromClient
  BY IInvParts
<1>1. ASSUME NEW c \in ClientState, NEW r, HandleUdpReply(c, r) PROVE requests' = requests
  BY <1>1, UnaskedReply
<1>2. CASE RecvUdpConn \/ SendCommand \/ Ghostbust
  BY <1>2 DEF RecvUdpConn, SendCommand, Ghostbust, Astray, net
<1>3. CASE ClientUdp
  <2>1. Activity \in ClientState
    BY <1>0 DEF Activity, ClientState, Modes
  <2> QED BY <1>1, <1>3, <2>1 DEF ClientUdp, Astray
<1>4. CASE ClientTcp
  BY <1>0, <1>1, <1>4 DEF ClientTcp, Astray
<1>5. CASE ServerTcp
  BY <1>5 DEF ServerTcp, Astray
<1>6. CASE ServerTcpData
  BY <1>0, <1>6, TcpRead DEF ServerTcpData, Astray, net
<1>7. CASE ServerUdp
  <2>1. PICK d \in toServer :
          /\ Takes(server, d)
          /\ LET s == ReadUdp(server, d.from)
             IN server' = IF d.what = "COMM_VERIFY" THEN Verified(s) ELSE s
    BY <1>7 DEF ServerUdp
  <2> DEFINE s == ReadUdp(server, d.from)
  <2>2. d.from \in ClientPorts /\ server.sock # Closed
    BY <1>0, <2>1, UdpLinkAssumption DEF Takes, FromClient
  <2>3. s \in ServerState /\ s.astray
    BY <1>0, <2>2, UdpRead DEF ServerOK, Astray
  <2>4. server' = IF d.what = "COMM_VERIFY" THEN Verified(s) ELSE s
    BY <2>1
  <2> HIDE DEF s
  <2>5. server'.astray
    BY <2>3, <2>4 DEF Verified, ServerState
  <2> QED BY <1>7, <2>5 DEF ServerUdp, Astray
<1>8. CASE Flush
  <2>1. UNCHANGED requests /\ (UNCHANGED server \/ server' = [server EXCEPT !.udpbuf = "UPDATE"])
    BY <1>8 DEF Flush
  <2> QED BY <1>0, <2>1 DEF Astray, ServerOK, ServerState
<1> QED BY <1>2, <1>3, <1>4, <1>5, <1>6, <1>7, <1>8

LEMMA RecoverNext == IInv /\ ClientSocket /\ Undisturbed /\ [Next]_vars => Undisturbed'
<1> SUFFICES ASSUME IInv, ClientSocket, Undisturbed, [Next]_vars, clean', asked' > 0
             PROVE  (Stages \/ Astray)'
  BY DEF Undisturbed
<1>1. CASE UNCHANGED <<config, client, server, net>> /\ Stages
  BY <1>1 DEF config, net, Stages, Asked, Answered, Verifying, Switched, Joined, ForUs, Ok
<1>2. CASE UNCHANGED vars
  BY <1>1, <1>2 DEF vars, Undisturbed, Astray, net
<1>3. CASE Next
  <2>1. CASE RequestUdp
    BY <2>1, StageAsked
  <2> DEFINE Steps == \/ RecvUdpConn \/ ClientUdp \/ ClientTcp \/ SendCommand
                      \/ ServerTcp \/ ServerTcpData \/ ServerUdp \/ Flush \/ Ghostbust
  <2>2. CASE Stages /\ UNCHANGED config /\ Steps
    <3>1. CASE \/ RecvUdpConn \/ ClientUdp \/ ClientTcp \/ SendCommand
               \/ ServerTcp \/ ServerTcpData \/ Flush
      BY <2>2, <3>1, StageRecvUdpConn, StageClientUdp, StageClientTcp, StageSendCommand,
         StageServerTcp, StageServerTcpData, StageFlush
    <3>2. CASE Ghostbust
      BY <1>1, <2>2, <3>2 DEF Ghostbust
    <3>3. CASE ServerUdp /\ ~server.astray
      BY <2>2, <3>3, StageServerUdp
    <3>4. CASE ServerUdp /\ server.astray
      <4>1. Astray
        BY <2>2, <3>4 DEF Stages, Asked, Answered, Verifying, Switched, Joined, Astray, ServerUdp
      <4> QED BY <3>4, <4>1, AstrayStays
    <3> QED BY <2>2, <3>1, <3>2, <3>3, <3>4
  <2>3. CASE Astray /\ Steps
    BY <2>3, AstrayStays
  <2> QED BY <1>3, <2>1, <2>2, <2>3, Undisturbing
<1> QED BY <1>2, <1>3

LEMMA RecoverInit == Init => Undisturbed
BY DEF Init, Undisturbed

\* One request for UDP that nothing disturbs brings both sides into UDP mode on
\* one connection, whatever each of them believed before: handleUdpReq() drops
\* the old connection of a client that asks again.  TCP data that doRead()
\* takes for the first datagram (socket.c:942) disturbs it.
THEOREM RequestRecovers == Spec => []Recovers
<1>1. IInv /\ Undisturbed => Recovers
  <2> SUFFICES ASSUME Stages PROVE Recovers
    BY DEF Undisturbed, Astray, Recovers
  <2>1. CASE Asked \/ Answered
    BY <2>1 DEF Asked, Answered, Recovers
  <2>2. CASE Verifying
    BY <2>2 DEF Verifying, Recovers
  <2>3. CASE Switched
    BY <2>3 DEF Switched, Joined, Recovers
  <2> QED BY <2>1, <2>2, <2>3 DEF Stages
<1> QED
  BY <1>1, SocketInit, SocketNext, RecoverInit, RecoverNext, Invariant, PTL DEF Spec
=============================================================================
