------------------------------ MODULE Datagram ------------------------------
(***************************************************************************)
(* How a tube addresses and encodes its packets and how the loop of the    *)
(* other end reads them: sockets, addresses and packet information         *)
(* (src/src/tube.c, src/src/ls_pktinfo.c, src/src/ls_sockaddr.c), header,  *)
(* flags and buffer sizes (src/src/spud.c), for a client that opens tubes  *)
(* and a responder with several addresses.                                 *)
(*                                                                         *)
(* A datagram carries from and to as the kernel fills them in.  Sizes are  *)
(* those of the CBOR of a payload and of the fixed header, scaled down.    *)
(* Memory does not run out here; TubeManager has failing sends.            *)
(***************************************************************************)
EXTENDS Integers, FiniteSets

CONSTANTS
    Id,         \* tube IDs, which spud_create_id does not repeat
    Hosts,      \* Hosts[e]: how many addresses of each family end e has
    Length,     \* lengths the application passes to tube_data
    Preamble,   \* bytes CBOR needs before the data
    HeaderSize, \* sizeof(spud_header)
    BufLen,     \* MAXBUFLEN, of the sender and of the receiver
    MaxNet      \* bound: datagrams on their way at one time

ASSUME DatagramAssumption ==
    /\ HeaderSize \in Nat /\ BufLen \in Nat /\ Preamble \in Nat /\ MaxNet \in Nat
    /\ Length \subseteq Nat

VARIABLES
    tubeAt,     \* tubeAt[e][id]: end e's tube
    info,       \* the ls_pktinfo of the responder's loop
    net,        \* datagrams on their way
    asked,      \* history: asked[id]: the address the tube was opened to
    unreported  \* history: IDs accepted with no word from the kernel where the OPEN came to

datagramVars == <<tubeAt, info, net, asked, unreported>>

End == {"client", "responder"}
Other(e) == CHOOSE f \in End : f # e
Family == {"v4", "v6"}
Address == UNION {[end : {e}, fam : Family, n : 1 .. Hosts[e]] : e \in End}
AddrOf(e, fam) == {a \in Address : a.end = e /\ a.fam = fam}

Nowhere == [end |-> "none", fam |-> "none", n |-> 0]
NoInfo == [kind |-> "none", addr |-> Nowhere]
NoTube == [state |-> "none", sock |-> "none", peer |-> Nowhere, pktinfo |-> NoInfo]

\* spud_command and the two declaration bits.
Code == [data |-> 0, open |-> 64, close |-> 128, ack |-> 192]
Adec == 32
Pdec == 16

\* What follows the header: nothing, the CBOR map of a payload, a declaration.
Nothing == [what |-> "nothing", len |-> 0]
Bodies == {Nothing} \cup [what : {"payload"}, len : Length \ {0}] \cup [what : {"declaration"}, len : {1}]

EncodedSize(body) == IF body = Nothing THEN 0 ELSE Preamble + body.len

DatagramTypeOK ==
    /\ tubeAt \in [End -> [Id -> [state : {"none", "opening", "running", "unknown"},
                                  sock : Family \cup {"none"}, peer : Address \cup {Nowhere},
                                  pktinfo : {NoInfo} \cup [kind : Family, addr : Address]]]]
    /\ info \in {NoInfo} \cup [kind : Family, addr : Address]
    /\ asked \in [Id -> Address \cup {Nowhere}]
    /\ unreported \subseteq Id

DatagramInit ==
    /\ tubeAt = [e \in End |-> [id \in Id |-> NoTube]]
    /\ info = NoInfo
    /\ net = {}
    /\ asked = [id \in Id |-> Nowhere]
    /\ unreported = {}

------------------------------------------------------------------------------
\* The flags byte tube_send puts together, and the command read out of it.
Flags(cmd, adec, pdec) == Code[cmd] + (IF adec THEN Adec ELSE 0) + (IF pdec THEN Pdec ELSE 0)
Command(flags) == (flags \div 64) * 64

\* ls_pktinfo_set4, ls_pktinfo_set6, on what ls_pktinfo_clear left.
PktinfoSet(addr) == [kind |-> addr.fam, addr |-> addr]

\* tube_manager_sendmsg and ls_pktinfo_cmsg: the kernel takes the local address
\* the control message names, if it is of the socket's family, and otherwise
\* one of its own choice.
Sources(e, t) ==
    IF t.pktinfo.kind = t.sock THEN {t.pktinfo.addr} ELSE AddrOf(e, t.sock)

\* The datagrams tube_send may produce.
TubeSend(e, id, t, cmd, adec, pdec, body) ==
    {[id |-> id, flags |-> Flags(cmd, adec, pdec), size |-> HeaderSize + EncodedSize(body),
      from |-> a, to |-> t.peer] : a \in Sources(e, t)}

Sends(e, id, t, cmd, adec, pdec, body) ==
    /\ Cardinality(net) < MaxNet
    /\ \E d \in TubeSend(e, id, t, cmd, adec, pdec, body) : net' = net \cup {d}

\* tube_manager_open_tube: the socket of the destination's family.
OpenTo(id, dest) ==
    LET t == [NoTube EXCEPT !.state = "opening", !.sock = dest.fam, !.peer = dest] IN
    /\ asked[id] = Nowhere
    /\ tubeAt' = [tubeAt EXCEPT !["client"][id] = t]
    /\ asked' = [asked EXCEPT ![id] = dest]
    /\ Sends("client", id, t, "open", FALSE, FALSE, Nothing)
    /\ UNCHANGED <<info, unreported>>

\* tube_data, tube_send_pdec (with or without reflection) through tube_send_cbor,
\* in any state of the tube: what does not fit the sender's buffer is refused.
SendBody(e, id, adec, body) ==
    /\ tubeAt[e][id] # NoTube
    /\ EncodedSize(body) <= BufLen
    /\ adec => body.what = "declaration"
    /\ Sends(e, id, tubeAt[e][id], "data", adec, body.what = "declaration", body)
    /\ UNCHANGED <<tubeAt, info, asked, unreported>>

\* tube_close.
CloseTube(e, id) ==
    /\ tubeAt[e][id] # NoTube
    /\ tubeAt' = [tubeAt EXCEPT ![e][id].state = "unknown"]
    /\ Sends(e, id, tubeAt[e][id], "close", FALSE, FALSE, Nothing)
    /\ UNCHANGED <<info, asked, unreported>>

\* The network: a datagram is lost.
LoseDatagram ==
    /\ \E d \in net : net' = net \ {d}
    /\ UNCHANGED <<tubeAt, info, asked, unreported>>

------------------------------------------------------------------------------
\* cn_cbor_decode refuses an encoding of size bytes of which only there are given.
Decodes(size, there) == there >= size

\* spud_parse of what recvmsg leaves of a datagram: one that is longer than the
\* buffer is cut, and nobody looks at MSG_TRUNC.
Parses(d) ==
    LET len == IF d.size > BufLen THEN BufLen ELSE d.size IN
    len >= HeaderSize /\ Decodes(d.size - HeaderSize, len - HeaderSize)

\* Mutant of Noted: the packet information of an earlier packet is kept.
NotedOver(d, reported) == IF reported THEN PktinfoSet(d.to) ELSE info

\* The loop clears its ls_pktinfo and fills it from the control data, which the
\* kernel may not deliver.
Noted(d, reported) == IF reported THEN PktinfoSet(d.to) ELSE NoInfo

\* tube_manager_loop, one datagram at end e, of which another copy may be on its
\* way.  Only the responder answers an OPEN; with tube_set_info and
\* tube_set_local the new tube takes over socket, peer and local address of the
\* OPEN.  A datagram that cannot be parsed is dropped.
ReceiveDatagram(e, d, reported) ==
    LET t == tubeAt[e][d.id]
        noted == Noted(d, reported)
        new == [state |-> "running", sock |-> d.to.fam, peer |-> d.from, pktinfo |-> noted]
        cmd == Command(d.flags)
        SetState(s) == tubeAt' = [tubeAt EXCEPT ![e][d.id].state = s]
        Left == {net \ {d}, net}
    IN
    /\ d \in net /\ d.to.end = e
    /\ info' = IF e = "responder" THEN noted ELSE info
    /\ UNCHANGED asked
    /\ \/ /\ ~Parses(d) \/ (t = NoTube /\ (e = "client" \/ cmd # Code["open"]))
          /\ net' \in Left /\ UNCHANGED <<tubeAt, unreported>>
       \/ /\ Parses(d) /\ t = NoTube /\ e = "responder" /\ cmd = Code["open"]
          /\ tubeAt' = [tubeAt EXCEPT ![e][d.id] = new]
          /\ unreported' = IF reported THEN unreported ELSE unreported \cup {d.id}
          /\ \E a \in TubeSend(e, d.id, new, "ack", FALSE, FALSE, Nothing), rest \in Left :
                net' = rest \cup {a}
       \/ /\ Parses(d) /\ t # NoTube /\ cmd = Code["data"] /\ t.state = "running"
          /\ net' \in Left /\ UNCHANGED <<tubeAt, unreported>>
       \/ /\ Parses(d) /\ t # NoTube /\ cmd = Code["close"] /\ t.state # "unknown"
          /\ tubeAt' = [tubeAt EXCEPT ![e][d.id] = NoTube]
          /\ net' \in Left /\ UNCHANGED unreported
       \/ /\ Parses(d) /\ t # NoTube /\ cmd = Code["ack"] /\ t.state = "opening"
          /\ SetState("running")
          /\ net' \in Left /\ UNCHANGED unreported
       \/ /\ Parses(d) /\ t # NoTube
          /\ \/ cmd = Code["open"]
             \/ cmd = Code["data"] /\ t.state # "running"
             \/ cmd = Code["close"] /\ t.state = "unknown"
             \/ cmd = Code["ack"] /\ t.state # "opening"
          /\ net' \in Left /\ UNCHANGED <<tubeAt, unreported>>

DatagramNext ==
    \/ \E id \in Id, dest \in Address : dest.end = "responder" /\ OpenTo(id, dest)
    \/ \E e \in End, id \in Id :
        \/ \E adec \in BOOLEAN, body \in Bodies : SendBody(e, id, adec, body)
        \/ CloseTube(e, id)
    \/ \E e \in End, d \in net, reported \in BOOLEAN : ReceiveDatagram(e, d, reported)
    \/ LoseDatagram

DatagramSpec == DatagramInit /\ [][DatagramNext]_datagramVars

------------------------------------------------------------------------------
\* A tube that was accepted answers from the address its OPEN came to, and from
\* no address of another packet: its ls_pktinfo names that address, or none
\* when the kernel did not report it, and so for every copy of the OPEN; every
\* datagram leaves through the socket of its destination's family, to the end
\* that has the other tube, and from the address asked unless an OPEN of its ID
\* was accepted without a report.
AnswersFromWhereAsked ==
    /\ \A id \in Id :
        LET t == tubeAt["responder"][id] IN
        t.state # "none" => /\ \/ t.pktinfo = PktinfoSet(asked[id])
                               \/ t.pktinfo = NoInfo /\ id \in unreported
                            /\ t.sock = t.peer.fam
    /\ \A d \in net :
        /\ d.from.fam = d.to.fam /\ d.from.end = Other(d.to.end)
        /\ d.from.end = "responder" => d.from = asked[d.id] \/ d.id \in unreported
=============================================================================
