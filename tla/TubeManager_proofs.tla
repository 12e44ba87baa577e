------------------------- MODULE TubeManager_proofs -------------------------
(***************************************************************************)
(* Proofs about TubeManager, for every set of managers, IDs and faults.    *)
(***************************************************************************)
EXTENDS TubeManager, SequenceTheorems, TLAPS

\* Taking one packet out of a queue shifts the later ones down by one place.
LEMMA RemoveAtShifts ==
    ASSUME NEW S, NEW s \in Seq(S), NEW i \in DOMAIN s
    PROVE  /\ RemoveAt(s, i) \in Seq(S)
           /\ Len(RemoveAt(s, i)) = Len(s) - 1
           /\ \A j \in DOMAIN RemoveAt(s, i) :
                LET k == IF j < i THEN j ELSE j + 1 IN
                k \in DOMAIN s /\ RemoveAt(s, i)[j] = s[k]
<1> DEFINE u == SubSeq(s, 1, i - 1)
           v == SubSeq(s, i + 1, Len(s))
<1>1. i \in 1 .. Len(s)
  BY LenProperties
<1>2. u \in Seq(S) /\ Len(u) = i - 1 /\ \A j \in 1 .. i - 1 : u[j] = s[j]
  BY <1>1, SubSeqProperties, LenProperties
<1>3. v \in Seq(S) /\ Len(v) = Len(s) - i
      /\ \A j \in 1 .. Len(s) - i : v[j] = s[j + i]
  BY <1>1, SubSeqProperties, LenProperties
<1> HIDE DEF u, v
<1>4. /\ u \o v \in Seq(S)
      /\ Len(u \o v) = Len(s) - 1
      /\ \A j \in 1 .. Len(s) - 1 :
            (u \o v)[j] = IF j < i THEN s[j] ELSE s[j + 1]
  <2>1. u \o v \in Seq(S) /\ Len(u \o v) = Len(u) + Len(v)
    BY <1>2, <1>3, ConcatProperties
  <2>2. ASSUME NEW j \in 1 .. Len(s) - 1
        PROVE  (u \o v)[j] = IF j < i THEN s[j] ELSE s[j + 1]
    <3>1. (u \o v)[j] = IF j =< Len(u) THEN u[j] ELSE v[j - Len(u)]
      BY <1>1, <1>2, <1>3, ConcatProperties, LenProperties
    <3>2. CASE j < i
      BY <3>1, <3>2, <1>1, <1>2, LenProperties
    <3>3. CASE ~(j < i)
      BY <3>1, <3>3, <1>1, <1>2, <1>3, LenProperties
    <3> QED  BY <3>2, <3>3
  <2>3. Len(u \o v) = Len(s) - 1
    <3>1. Len(s) \in Nat
      BY LenProperties
    <3> QED  BY <3>1, <2>1, <1>1, <1>2, <1>3
  <2> QED  BY ONLY <2>1, <2>2, <2>3
<1>5. RemoveAt(s, i) = u \o v
  BY DEF RemoveAt, u, v
<1>6. DOMAIN RemoveAt(s, i) = 1 .. Len(s) - 1
  BY <1>4, <1>5, LenProperties
<1>7. ASSUME NEW j \in DOMAIN RemoveAt(s, i)
      PROVE  LET k == IF j < i THEN j ELSE j + 1 IN
             k \in DOMAIN s /\ RemoveAt(s, i)[j] = s[k]
  <2>1. j \in 1 .. Len(s) - 1
    BY <1>6
  <2>2. RemoveAt(s, i)[j] = IF j < i THEN s[j] ELSE s[j + 1]
    BY <2>1, <1>4, <1>5
  <2>3. DOMAIN s = 1 .. Len(s) /\ Len(s) \in Nat
    BY LenProperties
  <2> QED  BY <2>1, <2>2, <2>3, <1>1
<1> QED  BY <1>4, <1>5, <1>7

\* What is left of a queue was in it.
LEMMA QueueRemove ==
    ASSUME NEW S, NEW s \in Seq(S), NEW i \in DOMAIN s
    PROVE  RemoveAt(s, i) \in Seq(S) /\ Range(RemoveAt(s, i)) \subseteq Range(s)
<1>1. /\ RemoveAt(s, i) \in Seq(S)
      /\ \A j \in DOMAIN RemoveAt(s, i) : \E k \in DOMAIN s : RemoveAt(s, i)[j] = s[k]
  BY RemoveAtShifts
<1> QED  BY <1>1 DEF Range

\* A queue with one more element has that element and the old ones.
LEMMA QueueAppend ==
    ASSUME NEW S, NEW s \in Seq(S), NEW e \in S
    PROVE  Append(s, e) \in Seq(S) /\ Range(Append(s, e)) = Range(s) \cup {e}
<1>1. /\ Append(s, e) \in Seq(S) /\ Len(Append(s, e)) = Len(s) + 1
      /\ \A i \in 1 .. Len(s) : Append(s, e)[i] = s[i]
      /\ Append(s, e)[Len(s) + 1] = e
  BY AppendProperties
<1>2. /\ Len(s) \in Nat /\ DOMAIN s = 1 .. Len(s)
      /\ DOMAIN Append(s, e) = 1 .. Len(s) + 1
  BY <1>1, LenProperties
<1> QED  BY <1>1, <1>2 DEF Range

Chans == [Mgr -> Seq(Packet)]

\* Sending adds at most the packet sent, and only at its destination.
LEMMA SentAdds ==
    ASSUME NEW ch \in Chans, NEW m \in Mgr, NEW id \in Id, NEW cmd \in Cmd,
           NEW to \in Mgr, NEW ch2 \in Sent(ch, m, id, cmd, to)
    PROVE  /\ ch2 \in Chans
           /\ \A x \in Mgr : \A p \in Range(ch2[x]) :
                \/ p \in Range(ch[x])
                \/ (x = to /\ p = [cmd |-> cmd, id |-> id, from |-> m])
<1> DEFINE pkt == [cmd |-> cmd, id |-> id, from |-> m]
<1>1. pkt \in Packet
  BY DEF Packet
<1>2. CASE ch2 = ch
  BY <1>2
<1>3. CASE ch2 = [ch EXCEPT ![to] = Append(@, pkt)]
  <2>1. Append(ch[to], pkt) \in Seq(Packet)
        /\ Range(Append(ch[to], pkt)) = Range(ch[to]) \cup {pkt}
    BY <1>1, QueueAppend DEF Chans
  <2>2. ch2[to] = Append(ch[to], pkt) /\ \A x \in Mgr \ {to} : ch2[x] = ch[x]
    BY <1>3 DEF Chans
  <2> QED  BY <1>3, <2>1, <2>2 DEF Chans
<1> QED  BY <1>2, <1>3 DEF Sent

\* Receiving or losing packet i leaves a part of the queue.
LEMMA ReceivedLeaves ==
    ASSUME chan \in Chans, NEW m \in Mgr, NEW i \in DOMAIN chan[m],
           NEW ch, ch = chan \/ ch = [chan EXCEPT ![m] = RemoveAt(chan[m], i)]
    PROVE  /\ ch \in Chans
           /\ \A x \in Mgr : Range(ch[x]) \subseteq Range(chan[x])
           /\ chan[m][i] \in Packet /\ chan[m][i] \in Range(chan[m])
<1>1. chan[m] \in Seq(Packet)
  BY DEF Chans
<1>2. /\ RemoveAt(chan[m], i) \in Seq(Packet)
      /\ Range(RemoveAt(chan[m], i)) \subseteq Range(chan[m])
  BY <1>1, QueueRemove
<1>3. chan[m][i] \in Packet /\ chan[m][i] \in Range(chan[m])
  BY <1>1, ElementOfSeq, LenProperties DEF Range
<1>4. CASE ch = chan
  BY <1>3, <1>4
<1>5. CASE ch = [chan EXCEPT ![m] = RemoveAt(@, i)]
  <2>1. ch[m] = RemoveAt(chan[m], i) /\ \A x \in Mgr \ {m} : ch[x] = chan[x]
    BY <1>5 DEF Chans
  <2> QED  BY <1>2, <1>3, <1>5, <2>1 DEF Chans
<1> QED  BY <1>4, <1>5

------------------------------------------------------------------------------
(***************************************************************************)
(* The inductive invariant.  Provenance needs PacketsGenuine (a responder  *)
(* knows nothing of an ID but the OPEN that names it), which needs         *)
(* Provenance back (an ACK is sent for what was accepted).                 *)
(***************************************************************************)
IInv == TypeOK /\ Provenance /\ PacketsGenuine

\* Managers that have just been created have no tubes and no packets.
LEMMA InitIInv == Init => IInv
<1> SUFFICES ASSUME Init PROVE IInv
  OBVIOUS
<1>1. TypeOK
  BY EmptySeq DEF Init, TypeOK, Phase, TubeState, AcceptCap
<1>2. Provenance
  BY DEF Init, Provenance
<1>3. PacketsGenuine
  BY DEF Init, PacketsGenuine, Range
<1> QED  BY <1>1, <1>2, <1>3 DEF IInv

\* The steps that touch neither tubes nor packets.
LEMMA QuietSteps ==
    ASSUME IInv, NEW m \in Mgr,
           SetPolicyResponder(m) \/ Stop(m) \/ Finalize(m) \/ FinalizeEnd(m)
             \/ LoopStart(m) \/ LoopExit(m)
    PROVE  IInv'
<1>1. UNCHANGED <<st, peer, chan, owner, accepted, abandoned>>
  BY DEF SetPolicyResponder, Stop, Finalize, FinalizeEnd, LoopStart, LoopExit
<1>2. TypeOK'
  BY <1>1 DEF IInv, TypeOK, Phase,
     SetPolicyResponder, Stop, Finalize, FinalizeEnd, LoopStart, LoopExit
<1>3. Provenance'
  BY <1>1 DEF IInv, Provenance
<1>4. PacketsGenuine'
  BY <1>1 DEF IInv, PacketsGenuine
<1> QED  BY <1>2, <1>3, <1>4 DEF IInv

\* Losing a packet, and a loop that ends with an error.
LEMMA LoseStep ==
    ASSUME IInv, NEW m \in Mgr, Lose(m) \/ LoopFails(m)
    PROVE  IInv'
<1>1. \/ chan' = chan
      \/ \E i \in DOMAIN chan[m] : chan' = [chan EXCEPT ![m] = RemoveAt(@, i)]
  BY DEF Lose, LoopFails
<1>2. chan' \in Chans /\ \A x \in Mgr : Range(chan'[x]) \subseteq Range(chan[x])
  BY <1>1, ReceivedLeaves DEF IInv, TypeOK, Chans
<1>3. UNCHANGED <<keep_going, policy, st, peer, owner, accepted, abandoned>>
  BY DEF Lose, LoopFails
<1>4. TypeOK'
  <2>1. phase' \in [Mgr -> Phase]
    BY DEF Lose, LoopFails, LoopError, IInv, TypeOK, Phase
  <2> QED  BY <1>2, <1>3, <2>1 DEF IInv, TypeOK, Chans
<1>5. Provenance'
  BY <1>3 DEF IInv, Provenance
<1>6. PacketsGenuine'
  BY <1>2, <1>3 DEF IInv, PacketsGenuine
<1> QED  BY <1>4, <1>5, <1>6 DEF IInv

\* tube_manager_open_tube, with each of its failures.
LEMMA OpenTubeStep ==
    ASSUME IInv, NEW m \in Mgr, NEW id \in Id, NEW dest \in Mgr, OpenTube(m, id, dest)
    PROVE  IInv'
<1> DEFINE pkt == [cmd |-> "OPEN", id |-> id, from |-> m]
<1>1. /\ chan' \in Chans
      /\ \A x \in Mgr : \A p \in Range(chan'[x]) :
            \/ p \in Range(chan[x])
            \/ (x = dest /\ p = pkt)
  <2>1. chan \in Chans /\ "OPEN" \in Cmd
    BY DEF IInv, TypeOK, Chans, Cmd
  <2>2. CASE chan' = chan
    BY <2>1, <2>2
  <2>3. CASE chan' = [chan EXCEPT ![dest] = Append(@, pkt)]
    <3>1. chan' \in Sent(chan, m, id, "OPEN", dest)
      BY <2>3 DEF Sent
    <3> QED  BY <2>1, <3>1, SentAdds
  <2> QED  BY <2>2, <2>3 DEF OpenTube
<1>2. /\ owner[id] = None /\ dest # m
      /\ owner' = [owner EXCEPT ![id] = m]
      /\ peer' = [peer EXCEPT ![m][id] = dest]
      /\ \E s \in {"opening", "freed", "absent"} : st' = [st EXCEPT ![m][id] = s]
      /\ UNCHANGED <<keep_going, policy, accepted, abandoned>>
  BY DEF OpenTube, SetState
<1>t. st \in [Mgr -> [Id -> TubeState]] /\ peer \in [Mgr -> [Id -> Mgr]]
  BY DEF IInv, TypeOK
<1>3. PICK s \in {"opening", "freed", "absent"} :
          /\ st' \in [Mgr -> [Id -> TubeState]]
          /\ \A x \in Mgr, y \in Id :
                st'[x][y] = IF x = m /\ y = id THEN s ELSE st[x][y]
  <2>1. PICK s \in {"opening", "freed", "absent"} : st' = [st EXCEPT ![m][id] = s]
    BY <1>2
  <2>2. s \in TubeState
    BY DEF TubeState
  <2> QED  BY <2>1, <2>2, <1>t
<1>4. /\ peer' \in [Mgr -> [Id -> Mgr]]
      /\ \A x \in Mgr, y \in Id :
            peer'[x][y] = IF x = m /\ y = id THEN dest ELSE peer[x][y]
  BY <1>2, <1>t
<1>5. /\ owner' \in [Id -> Mgr \cup {None}]
      /\ \A y \in Id : owner'[y] = IF y = id THEN m ELSE owner[y]
  BY <1>2 DEF IInv, TypeOK
<1>6. TypeOK'
  <2>1. phase' \in [Mgr -> Phase]
    BY DEF OpenTube, UB, IInv, TypeOK, Phase
  <2> QED  BY <1>1, <1>2, <1>3, <1>4, <1>5, <2>1 DEF IInv, TypeOK, Chans
<1>7. Provenance'
  <2>1. \A x \in Mgr, y \in Id : x # None /\ peer[x][y] # None
    BY <1>t, TubeManagerAssumption
  <2> QED  BY <1>2, <1>3, <1>4, <1>5, <2>1 DEF IInv, Provenance
<1>8. PacketsGenuine'
  <2> SUFFICES ASSUME NEW x \in Mgr, NEW p \in Range(chan'[x])
               PROVE  /\ owner'[p.id] # None
                      /\ p.cmd = "OPEN" => owner'[p.id] = p.from /\ p.from # x
                      /\ p.cmd = "ACK" => accepted'[p.from][p.id] > 0
    BY DEF PacketsGenuine
  <2>1. m # None
    BY TubeManagerAssumption
  <2>2. CASE p \in Range(chan[x])
    <3>1. p \in Packet
      BY <2>2, RangeOfSeq DEF IInv, TypeOK, Range
    <3> QED  BY <1>2, <1>5, <2>1, <2>2, <3>1 DEF IInv, PacketsGenuine, Packet
  <2>3. CASE x = dest /\ p = pkt
    BY <1>2, <1>5, <2>1, <2>3
  <2> QED  BY <1>1, <2>2, <2>3
<1> QED  BY <1>6, <1>7, <1>8 DEF IInv

\* A step of m on one tube it holds that sends at most a DATA or a CLOSE.
LEMMA TubeStep ==
    ASSUME IInv, NEW m \in Mgr, NEW id \in Id, st[m][id] # "absent",
           NEW s \in TubeState, s \in {"absent", "unknown", st[m][id]},
           st' = [st EXCEPT ![m][id] = s],
           NEW cmd \in {"DATA", "CLOSE"},
           chan' = chan \/ chan' \in Sent(chan, m, id, cmd, peer[m][id]),
           phase' \in [Mgr -> Phase], abandoned' \in SUBSET Id,
           UNCHANGED <<keep_going, policy, peer, owner, accepted>>
    PROVE  IInv'
<1>1. /\ st \in [Mgr -> [Id -> TubeState]] /\ peer \in [Mgr -> [Id -> Mgr]]
      /\ chan \in Chans /\ cmd \in Cmd /\ peer[m][id] \in Mgr
  BY DEF IInv, TypeOK, Chans, Cmd
<1>2. /\ chan' \in Chans
      /\ \A x \in Mgr : \A p \in Range(chan'[x]) :
            \/ p \in Range(chan[x])
            \/ p = [cmd |-> cmd, id |-> id, from |-> m]
  <2>1. CASE chan' = chan
    BY <1>1, <2>1
  <2>2. CASE chan' \in Sent(chan, m, id, cmd, peer[m][id])
    BY <1>1, <2>2, SentAdds
  <2> QED  BY <2>1, <2>2
<1>3. /\ st' \in [Mgr -> [Id -> TubeState]]
      /\ \A x \in Mgr, y \in Id : st'[x][y] = IF x = m /\ y = id THEN s ELSE st[x][y]
  BY <1>1
<1>4. TypeOK'
  BY <1>2, <1>3 DEF IInv, TypeOK, Chans
<1>5. Provenance'
  BY <1>3 DEF IInv, Provenance
<1>6. PacketsGenuine'
  <2> SUFFICES ASSUME NEW x \in Mgr, NEW p \in Range(chan'[x])
               PROVE  /\ owner[p.id] # None
                      /\ p.cmd = "OPEN" => owner[p.id] = p.from /\ p.from # x
                      /\ p.cmd = "ACK" => accepted[p.from][p.id] > 0
    BY DEF PacketsGenuine
  <2>1. CASE p \in Range(chan[x])
    BY <2>1 DEF IInv, PacketsGenuine
  <2>2. CASE p = [cmd |-> cmd, id |-> id, from |-> m]
    <3>1. owner[id] # None
      BY <1>1, TubeManagerAssumption DEF IInv, Provenance
    <3> QED  BY <2>2, <3>1
  <2> QED  BY <1>2, <2>1, <2>2
<1> QED  BY <1>4, <1>5, <1>6 DEF IInv

\* The application's calls on a tube, and tube_manager_destroy's.
LEMMA CallSteps ==
    ASSUME IInv, NEW m \in Mgr, NEW id \in Id,
           TubeData(m, id) \/ TubeClose(m, id) \/ TubeManagerRemove(m, id)
             \/ FinalizeTube(m, id)
    PROVE  IInv'
<1>1. st \in [Mgr -> [Id -> TubeState]] /\ phase \in [Mgr -> Phase]
      /\ abandoned \in SUBSET Id /\ st[m][id] \in TubeState
  BY DEF IInv, TypeOK
<1>2. "DATA" \in {"DATA", "CLOSE"} /\ "CLOSE" \in {"DATA", "CLOSE"}
      /\ "absent" \in TubeState /\ "unknown" \in TubeState
  BY DEF TubeState
<1>3. CASE TubeData(m, id)
  <2>1. st[m][id] # "absent" /\ st' = [st EXCEPT ![m][id] = st[m][id]]
    BY <1>1, <1>3 DEF TubeData, Usable
  <2> QED  BY <1>1, <1>2, <1>3, <2>1, TubeStep DEF TubeData
<1>4. CASE TubeClose(m, id)
  <2>1. st[m][id] # "absent" /\ st' = [st EXCEPT ![m][id] = "unknown"]
    BY <1>4 DEF TubeClose, SetState, Usable
  <2> QED  BY <1>1, <1>2, <1>4, <2>1, TubeStep DEF TubeClose
<1>5. ASSUME CleanTube(m, id), st[m][id] \in Usable, phase' = phase,
             UNCHANGED <<keep_going, policy, peer, owner, accepted>>
      PROVE  IInv'
  <2>1. st[m][id] # "absent" /\ st' = [st EXCEPT ![m][id] = "absent"]
        /\ (chan' = chan \/ chan' \in Sent(chan, m, id, "CLOSE", peer[m][id]))
        /\ abandoned' \in SUBSET Id
    BY <1>1, <1>5 DEF CleanTube, SetState, Usable
  <2> QED  BY <1>1, <1>2, <1>5, <2>1, TubeStep
<1>6. CASE TubeManagerRemove(m, id)
  BY <1>5, <1>6 DEF TubeManagerRemove
<1>7. CASE FinalizeTube(m, id)
  <2>1. CASE st[m][id] \in Usable
    BY <1>5, <1>7, <2>1 DEF FinalizeTube, Usable
  <2>2. CASE st[m][id] = "freed"
    <3>1. st' = [st EXCEPT ![m][id] = st[m][id]] /\ chan' = chan
          /\ phase' \in [Mgr -> Phase] /\ abandoned' \in SUBSET Id
          /\ UNCHANGED <<keep_going, policy, peer, owner, accepted>>
      BY <1>1, <1>7, <2>2 DEF FinalizeTube, UB, Phase, Usable
    <3> QED  BY <1>1, <1>2, <2>2, <3>1, TubeStep
  <2> QED  BY <1>7, <2>1, <2>2 DEF FinalizeTube
<1> QED  BY <1>3, <1>4, <1>6, <1>7

\* One packet through tube_manager_loop.
LEMMA ReceiveStep ==
    ASSUME IInv, NEW m \in Mgr, Receive(m)
    PROVE  IInv'
<1>1. PICK i \in DOMAIN chan[m] : \E ch \in {[chan EXCEPT ![m] = RemoveAt(@, i)], chan} :
          Handle(m, chan[m][i], ch)
  BY DEF Receive
<1> DEFINE p == chan[m][i]
<1>c. PICK ch \in {[chan EXCEPT ![m] = RemoveAt(@, i)], chan} : Handle(m, p, ch)
  BY <1>1
<1>2. /\ st \in [Mgr -> [Id -> TubeState]] /\ peer \in [Mgr -> [Id -> Mgr]]
      /\ accepted \in [Mgr -> [Id -> 0 .. 2]] /\ phase \in [Mgr -> Phase]
      /\ chan \in Chans
  BY DEF IInv, TypeOK, Chans, AcceptCap
<1>3. /\ ch \in Chans /\ \A x \in Mgr : Range(ch[x]) \subseteq Range(chan[x])
      /\ p \in Packet /\ p \in Range(chan[m])
  <2>1. ch = chan \/ ch = [chan EXCEPT ![m] = RemoveAt(chan[m], i)]
    BY <1>c
  <2> QED  BY <1>1, <1>2, <2>1, ReceivedLeaves
<1>4. p.cmd \in Cmd /\ p.id \in Id /\ p.from \in Mgr
  BY <1>3 DEF Packet
<1>5. UNCHANGED <<keep_going, policy, owner, abandoned>>
  BY <1>c DEF Receive, Handle, Accept, Ignore, HandleData, HandleOpen, HandleAck, HandleClose
<1>6. phase' \in [Mgr -> Phase]
  BY <1>c, <1>2 DEF Handle, Accept, Ignore, HandleData, HandleOpen, HandleAck, HandleClose,
     LoopNext, LoopError, UB, Phase
<1> HIDE DEF p
<1>7. ASSUME NEW s \in {"running", "unknown"}, NEW n \in 1 .. 2, p.cmd = "OPEN",
             st' = [st EXCEPT ![m][p.id] = s],
             peer' = [peer EXCEPT ![m][p.id] = p.from],
             \/ accepted' = accepted /\ chan' = ch
             \/ /\ accepted' = [accepted EXCEPT ![m][p.id] = n]
                /\ chan' \in Sent(ch, m, p.id, "ACK", p.from)
      PROVE  IInv'
  <2>1. /\ st' \in [Mgr -> [Id -> TubeState]]
        /\ \A x \in Mgr, y \in Id : st'[x][y] = IF x = m /\ y = p.id THEN s ELSE st[x][y]
    BY <1>2, <1>4, <1>7 DEF TubeState
  <2>2. /\ peer' \in [Mgr -> [Id -> Mgr]]
        /\ \A x \in Mgr, y \in Id :
              peer'[x][y] = IF x = m /\ y = p.id THEN p.from ELSE peer[x][y]
    BY <1>2, <1>4, <1>7
  <2>3. /\ accepted' \in [Mgr -> [Id -> 0 .. 2]]
        /\ \A x \in Mgr, y \in Id : accepted[x][y] > 0 => accepted'[x][y] > 0
        /\ \A x \in Mgr, y \in Id : x # m \/ y # p.id => accepted'[x][y] = accepted[x][y]
    <3>1. CASE accepted' = accepted
      BY <1>2, <3>1
    <3>2. CASE accepted' = [accepted EXCEPT ![m][p.id] = n]
      <4>1. /\ accepted' \in [Mgr -> [Id -> 0 .. 2]]
            /\ \A x \in Mgr, y \in Id :
                  accepted'[x][y] = IF x = m /\ y = p.id THEN n ELSE accepted[x][y]
        BY <1>2, <1>4, <3>2
      <4> QED  BY <4>1
    <3> QED  BY <1>7, <3>1, <3>2
  <2>4. owner[p.id] = p.from /\ p.from # m /\ p.from # None
    BY <1>3, <1>4, <1>7, TubeManagerAssumption DEF IInv, PacketsGenuine
  <2>5. /\ chan' \in Chans
        /\ \A x \in Mgr : \A q \in Range(chan'[x]) :
              \/ q \in Range(chan[x])
              \/ /\ q = [cmd |-> "ACK", id |-> p.id, from |-> m]
                 /\ accepted'[m][p.id] > 0
    <3>1. CASE chan' = ch
      BY <1>3, <3>1
    <3>2. CASE /\ accepted' = [accepted EXCEPT ![m][p.id] = n]
               /\ chan' \in Sent(ch, m, p.id, "ACK", p.from)
      <4>1. accepted'[m][p.id] > 0
        BY <1>2, <1>4, <3>2
      <4>2. "ACK" \in Cmd
        BY DEF Cmd
      <4>3. /\ chan' \in Chans
            /\ \A x \in Mgr : \A q \in Range(chan'[x]) :
                  \/ q \in Range(ch[x])
                  \/ (x = p.from /\ q = [cmd |-> "ACK", id |-> p.id, from |-> m])
        <5>1. ASSUME NEW y \in Id, NEW z \in Mgr, chan' \in Sent(ch, m, y, "ACK", z)
              PROVE  /\ chan' \in Chans
                     /\ \A x \in Mgr : \A q \in Range(chan'[x]) :
                            \/ q \in Range(ch[x])
                            \/ (x = z /\ q = [cmd |-> "ACK", id |-> y, from |-> m])
          BY <1>3, <4>2, <5>1, SentAdds
        <5> QED  BY <1>4, <3>2, <5>1
      <4> QED  BY <1>3, <4>1, <4>3
    <3> QED  BY <1>7, <3>1, <3>2
  <2>6. TypeOK'
    BY <1>5, <1>6, <2>1, <2>2, <2>3, <2>5 DEF IInv, TypeOK, Chans, AcceptCap
  <2>7. Provenance'
    <3> SUFFICES ASSUME NEW x \in Mgr, NEW y \in Id
                 PROVE  /\ st'[x][y] = "opening" => owner[y] = x
                        /\ st'[x][y] # "absent" => owner[y] \in {x, peer'[x][y]}
                        /\ accepted'[x][y] > 0 => owner[y] \notin {x, None}
      BY <1>5 DEF Provenance
    <3>1. CASE x = m /\ y = p.id
      BY <2>1, <2>2, <2>4, <3>1
    <3>2. CASE ~(x = m /\ y = p.id)
      <4>1. /\ st'[x][y] = st[x][y] /\ peer'[x][y] = peer[x][y]
            /\ accepted'[x][y] = accepted[x][y]
        BY <2>1, <2>2, <2>3, <3>2
      <4> QED  BY <4>1 DEF IInv, Provenance
    <3> QED  BY <3>1, <3>2
  <2>8. PacketsGenuine'
    <3> SUFFICES ASSUME NEW x \in Mgr, NEW q \in Range(chan'[x])
                 PROVE  /\ owner[q.id] # None
                        /\ q.cmd = "OPEN" => owner[q.id] = q.from /\ q.from # x
                        /\ q.cmd = "ACK" => accepted'[q.from][q.id] > 0
      BY <1>5 DEF PacketsGenuine
    <3>1. CASE q \in Range(chan[x])
      <4>1. q \in Packet
        BY <1>2, <3>1, RangeOfSeq DEF Chans, Range
      <4> QED  BY <2>3, <3>1, <4>1 DEF IInv, PacketsGenuine, Packet
    <3>2. CASE q = [cmd |-> "ACK", id |-> p.id, from |-> m] /\ accepted'[m][p.id] > 0
      BY <2>4, <3>2
    <3> QED  BY <2>5, <3>1, <3>2
  <2> QED  BY <2>6, <2>7, <2>8 DEF IInv
<1>8. ASSUME chan' = ch, UNCHANGED <<peer, accepted>>,
             NEW s \in {"running", "unknown", "absent"},
             st' = st \/ (st' = [st EXCEPT ![m][p.id] = s] /\ st[m][p.id] # "absent")
      PROVE  IInv'
  <2>1. /\ st' \in [Mgr -> [Id -> TubeState]]
        /\ \A x \in Mgr, y \in Id :
              st'[x][y] # st[x][y] => st[x][y] # "absent" /\ st'[x][y] # "opening"
    <3>1. CASE st' = st
      BY <1>2, <3>1
    <3>2. CASE st' = [st EXCEPT ![m][p.id] = s] /\ st[m][p.id] # "absent"
      <4>1. /\ st' \in [Mgr -> [Id -> TubeState]]
            /\ \A x \in Mgr, y \in Id :
                  st'[x][y] = IF x = m /\ y = p.id THEN s ELSE st[x][y]
        BY <1>2, <1>4, <3>2 DEF TubeState
      <4> QED  BY <3>2, <4>1
    <3> QED  BY <1>8, <3>1, <3>2
  <2>2. TypeOK'
    BY <1>3, <1>5, <1>6, <1>8, <2>1 DEF IInv, TypeOK, Chans
  <2>3. Provenance'
    BY <1>5, <1>8, <2>1 DEF IInv, Provenance
  <2>4. PacketsGenuine'
    BY <1>3, <1>5, <1>8 DEF IInv, PacketsGenuine
  <2> QED  BY <2>2, <2>3, <2>4 DEF IInv
<1>9. CASE Accept(m, p, ch)
  <2> DEFINE n == IF accepted[m][p.id] < 2 THEN accepted[m][p.id] + 1
                                           ELSE accepted[m][p.id]
  <2>1. n \in 1 .. 2
    BY <1>2, <1>4
  <2>2. \/ /\ st' = [st EXCEPT ![m][p.id] = "running"]
           /\ peer' = [peer EXCEPT ![m][p.id] = p.from]
           /\ accepted' = [accepted EXCEPT ![m][p.id] = n]
           /\ chan' \in Sent(ch, m, p.id, "ACK", p.from)
        \/ chan' = ch /\ UNCHANGED <<st, peer, accepted>>
        \/ /\ st' = [st EXCEPT ![m][p.id] = "unknown"]
           /\ peer' = [peer EXCEPT ![m][p.id] = p.from]
           /\ accepted' = accepted
           /\ chan' = ch
    BY <1>9 DEF Accept, SetState, AcceptCap
  <2>3. p.cmd = "OPEN"
    BY <1>9 DEF Accept
  <2> HIDE DEF n
  <2> QED  BY <1>7, <1>8, <2>1, <2>2, <2>3
<1>10. CASE Ignore(m, p, ch) \/ HandleData(m, p, ch) \/ HandleOpen(m, p, ch)
  BY <1>8, <1>10 DEF Ignore, HandleData, HandleOpen
<1>11. CASE HandleAck(m, p, ch)
  BY <1>8, <1>11 DEF HandleAck, SetState
<1>12. CASE HandleClose(m, p, ch) /\ st[m][p.id] \in Usable
  BY <1>8, <1>12 DEF HandleClose, SetState, Usable
<1>13. CASE chan' = ch /\ UNCHANGED <<st, peer, accepted, abandoned>>
  BY <1>8, <1>13
<1> QED  BY <1>c, <1>9, <1>10, <1>11, <1>12, <1>13 DEF Handle

\* Every step keeps the invariant.
LEMMA NextIInv == IInv /\ [Next]_vars => IInv'
<1> SUFFICES ASSUME IInv, [Next]_vars PROVE IInv'
  OBVIOUS
<1>1. CASE UNCHANGED vars
  BY <1>1 DEF vars, IInv, TypeOK, Provenance, PacketsGenuine
<1>2. CASE Next
  BY <1>2, QuietSteps, LoseStep, OpenTubeStep, CallSteps, ReceiveStep DEF Next
<1> QED  BY <1>1, <1>2

\* Type correctness, and what the handlers of tube_manager_loop rely on:
\* every packet on its way and every tube in a table can be traced to the
\* tube_manager_open_tube call of its ID, under any loss, duplication or
\* reordering and any failed send or allocation.
THEOREM Safety == Spec => [](TypeOK /\ Provenance /\ PacketsGenuine)
<1>1. IInv => TypeOK /\ Provenance /\ PacketsGenuine
  BY DEF IInv
<1> QED  BY InitIInv, NextIInv, <1>1, PTL DEF Spec

\* The fields of the managers, the tubes and the packets keep their types.
THEOREM TypeCorrect == Spec => []TypeOK
<1>1. IInv => TypeOK
  BY DEF IInv
<1> QED  BY InitIInv, NextIInv, <1>1, PTL DEF Spec

\* A packet that tube_manager_loop takes from the network is one that a manager
\* sent: its ID was opened, an OPEN comes from the opener and not from the
\* receiver itself, an ACK from a manager that accepted the ID.
THEOREM Genuine == Spec => []PacketsGenuine
<1>1. IInv => PacketsGenuine
  BY DEF IInv
<1> QED  BY InitIInv, NextIInv, <1>1, PTL DEF Spec

------------------------------------------------------------------------------
(***************************************************************************)
(* Without duplication no manager accepts an ID twice, whatever else the   *)
(* network does.  AcceptedOnce is not inductive: an OPEN must also be the  *)
(* only one of its ID, and not have been accepted already.                 *)
(***************************************************************************)

\* Two OPENs of one ID are the same packet at the same place.
OneOpen(ch) ==
    \A x, y \in Mgr : \A i \in DOMAIN ch[x], j \in DOMAIN ch[y] :
        /\ ch[x][i].cmd = "OPEN" /\ ch[y][j].cmd = "OPEN"
        /\ ch[x][i].id = ch[y][j].id
        => x = y /\ i = j

\* No OPEN of id is on its way.
NoOpen(ch, id) == \A x \in Mgr : \A p \in Range(ch[x]) : p.cmd = "OPEN" => p.id # id

\* An OPEN on its way has been accepted by nobody.
OpensAreFresh ==
    \A x \in Mgr : \A p \in Range(chan[x]) :
        p.cmd = "OPEN" => \A m \in Mgr : accepted[m][p.id] = 0

OInv == IInv /\ OneOpen(chan) /\ OpensAreFresh /\ AcceptedOnce

\* A packet that is no second OPEN may be added.
LEMMA OneOpenAppend ==
    ASSUME NEW ch \in Chans, OneOpen(ch), NEW to \in Mgr, NEW e \in Packet,
           e.cmd = "OPEN" => NoOpen(ch, e.id)
    PROVE  OneOpen([ch EXCEPT ![to] = Append(@, e)])
<1> DEFINE ch2 == [ch EXCEPT ![to] = Append(@, e)]
           new(x, i) == x = to /\ i = Len(ch[to]) + 1
<1>1. \A x \in Mgr : ch[x] \in Seq(Packet)
  BY DEF Chans
<1>2. ch2[to] = Append(ch[to], e) /\ \A x \in Mgr \ {to} : ch2[x] = ch[x]
  BY DEF Chans
<1>3. /\ Len(ch[to]) \in Nat /\ DOMAIN ch[to] = 1 .. Len(ch[to])
      /\ DOMAIN Append(ch[to], e) = 1 .. Len(ch[to]) + 1
      /\ \A i \in 1 .. Len(ch[to]) : Append(ch[to], e)[i] = ch[to][i]
      /\ Append(ch[to], e)[Len(ch[to]) + 1] = e
  BY <1>1, AppendProperties, LenProperties
<1>4. ASSUME NEW x \in Mgr, NEW i \in DOMAIN ch2[x]
      PROVE  IF new(x, i) THEN ch2[x][i] = e
             ELSE i \in DOMAIN ch[x] /\ ch2[x][i] = ch[x][i]
  <2>1. CASE x = to
    BY <1>2, <1>3, <2>1
  <2>2. CASE x # to
    BY <1>2, <2>2
  <2> QED  BY <2>1, <2>2
<1>5. ASSUME NEW x \in Mgr, NEW i \in DOMAIN ch[x], ch[x][i].cmd = "OPEN", e.cmd = "OPEN"
      PROVE  ch[x][i].id # e.id
  BY <1>5 DEF NoOpen, Range
<1> HIDE DEF ch2
<1>6. ASSUME NEW x \in Mgr, NEW y \in Mgr, NEW i \in DOMAIN ch2[x], NEW j \in DOMAIN ch2[y],
             ch2[x][i].cmd = "OPEN", ch2[y][j].cmd = "OPEN", ch2[x][i].id = ch2[y][j].id
      PROVE  x = y /\ i = j
  <2>1. CASE new(x, i) /\ new(y, j)
    BY <2>1
  <2>2. CASE new(x, i) /\ ~new(y, j)
    BY <1>4, <1>5, <1>6, <2>2
  <2>3. CASE ~new(x, i) /\ new(y, j)
    BY <1>4, <1>5, <1>6, <2>3
  <2>4. CASE ~new(x, i) /\ ~new(y, j)
    BY <1>4, <1>6, <2>4 DEF OneOpen
  <2> QED  BY <2>1, <2>2, <2>3, <2>4
<1>7. OneOpen(ch2)
  BY <1>6 DEF OneOpen
<1> QED  BY <1>7 DEF ch2

\* Taking a packet out leaves one OPEN at most, and none of the ID it opened.
LEMMA OneOpenRemove ==
    ASSUME NEW ch \in Chans, OneOpen(ch), NEW m \in Mgr, NEW i \in DOMAIN ch[m],
           NEW ch2, ch2 = [ch EXCEPT ![m] = RemoveAt(ch[m], i)]
    PROVE  OneOpen(ch2) /\ (ch[m][i].cmd = "OPEN" => NoOpen(ch2, ch[m][i].id))
<1> DEFINE at(x, j) == IF x = m /\ ~(j < i) THEN j + 1 ELSE j
<1>1. ch[m] \in Seq(Packet)
  BY DEF Chans
<1>2. ch2[m] = RemoveAt(ch[m], i) /\ \A x \in Mgr \ {m} : ch2[x] = ch[x]
  BY DEF Chans
<1>3. i \in Nat /\ DOMAIN ch2[m] \subseteq Nat
  <2>1. RemoveAt(ch[m], i) \in Seq(Packet)
    BY <1>1, RemoveAtShifts
  <2> QED  BY <1>1, <1>2, <2>1, LenProperties
<1>4. ASSUME NEW x \in Mgr, NEW j \in DOMAIN ch2[x]
      PROVE  /\ at(x, j) \in DOMAIN ch[x] /\ ch2[x][j] = ch[x][at(x, j)]
             /\ ~(x = m /\ at(x, j) = i)
  <2>1. CASE x = m
    <3>1. \A l \in DOMAIN RemoveAt(ch[m], i) :
            LET k == IF l < i THEN l ELSE l + 1 IN
            k \in DOMAIN ch[m] /\ RemoveAt(ch[m], i)[l] = ch[m][k]
      BY <1>1, RemoveAtShifts
    <3>2. j \in DOMAIN RemoveAt(ch[m], i)
      BY <1>2, <2>1
    <3> QED  BY <1>2, <1>3, <2>1, <3>1, <3>2
  <2>2. CASE x # m
    BY <1>2, <2>2
  <2> QED  BY <2>1, <2>2
<1>5. ASSUME NEW x \in Mgr, NEW y \in Mgr, NEW j \in DOMAIN ch2[x], NEW k \in DOMAIN ch2[y],
             ch2[x][j].cmd = "OPEN", ch2[y][k].cmd = "OPEN", ch2[x][j].id = ch2[y][k].id
      PROVE  x = y /\ j = k
  <2>1. x = y /\ at(x, j) = at(y, k)
    <3>1. at(x, j) \in DOMAIN ch[x] /\ at(y, k) \in DOMAIN ch[y]
      BY <1>4
    <3>2. ch2[x][j] = ch[x][at(x, j)] /\ ch2[y][k] = ch[y][at(y, k)]
      BY <1>4
    <3> HIDE DEF at
    <3> QED  BY <1>5, <3>1, <3>2 DEF OneOpen
  <2>2. CASE x = m
    BY <1>3, <2>1, <2>2
  <2>3. CASE x # m
    BY <2>1, <2>3
  <2> QED  BY <2>1, <2>2, <2>3
<1>6. ASSUME ch[m][i].cmd = "OPEN", NEW x \in Mgr, NEW p \in Range(ch2[x]), p.cmd = "OPEN"
      PROVE  p.id # ch[m][i].id
  <2>1. PICK j \in DOMAIN ch2[x] : p = ch2[x][j]
    BY DEF Range
  <2>2. /\ at(x, j) \in DOMAIN ch[x] /\ p = ch[x][at(x, j)]
        /\ ~(x = m /\ at(x, j) = i)
    BY <1>4, <2>1
  <2> HIDE DEF at
  <2> QED  BY <1>6, <2>2 DEF OneOpen
<1>7. OneOpen(ch2)
  BY <1>5 DEF OneOpen
<1> QED  BY <1>6, <1>7 DEF NoOpen

\* Sending anything but an OPEN adds no OPEN.
LEMMA SentKeeps ==
    ASSUME NEW ch \in Chans, OneOpen(ch), NEW m \in Mgr, NEW id \in Id,
           NEW cmd \in Cmd \ {"OPEN"}, NEW to \in Mgr, NEW ch2 \in Sent(ch, m, id, cmd, to)
    PROVE  /\ OneOpen(ch2)
           /\ \A x \in Mgr : \A p \in Range(ch2[x]) : p.cmd = "OPEN" => p \in Range(ch[x])
<1> DEFINE e == [cmd |-> cmd, id |-> id, from |-> m]
<1>1. e \in Packet /\ e.cmd # "OPEN"
  BY DEF Packet
<1>2. OneOpen([ch EXCEPT ![to] = Append(@, e)])
  BY <1>1, OneOpenAppend
<1>3. OneOpen(ch2)
  BY <1>2 DEF Sent
<1>4. \A x \in Mgr : \A p \in Range(ch2[x]) : p \in Range(ch[x]) \/ p = e
  BY SentAdds
<1> QED  BY <1>1, <1>3, <1>4

\* Managers that have just been created.
LEMMA InitOInv == Init => OInv
<1> SUFFICES ASSUME Init PROVE OInv
  OBVIOUS
<1>1. IInv
  BY InitIInv
<1>2. \A m \in Mgr : chan[m] = <<>> /\ \A id \in Id : accepted[m][id] = 0
  BY DEF Init
<1>3. OneOpen(chan)
  BY <1>2 DEF OneOpen
<1>4. OpensAreFresh
  BY <1>2 DEF OpensAreFresh, Range
<1>5. AcceptedOnce
  BY <1>2 DEF AcceptedOnce
<1> QED  BY <1>1, <1>3, <1>4, <1>5 DEF OInv

\* A step that accepts nothing and adds no OPEN.
LEMMA NoNewOpen ==
    ASSUME OInv, IInv', accepted' = accepted, OneOpen(chan'),
           \A x \in Mgr : \A p \in Range(chan'[x]) : p.cmd = "OPEN" => p \in Range(chan[x])
    PROVE  OInv'
<1>1. OpensAreFresh'
  BY DEF OInv, OpensAreFresh
<1>2. AcceptedOnce'
  BY DEF OInv, AcceptedOnce
<1> QED  BY <1>1, <1>2 DEF OInv, OneOpen

\* A new ID has no packet yet: its OPEN is the only one.
LEMMA OpenTubeOnce ==
    ASSUME OInv, IInv', NEW m \in Mgr, NEW id \in Id, NEW dest \in Mgr, OpenTube(m, id, dest)
    PROVE  OInv'
<1> DEFINE e == [cmd |-> "OPEN", id |-> id, from |-> m]
<1>1. /\ owner[id] = None /\ accepted' = accepted
      /\ chan' = chan \/ chan' = [chan EXCEPT ![dest] = Append(@, e)]
  BY DEF OpenTube
<1>2. chan \in Chans /\ e \in Packet
  BY DEF OInv, IInv, TypeOK, Chans, Packet, Cmd
<1>3. NoOpen(chan, id)
  BY <1>1 DEF OInv, IInv, PacketsGenuine, NoOpen
<1>4. \A a \in Mgr : accepted[a][id] = 0
  <2> SUFFICES ASSUME NEW a \in Mgr PROVE accepted[a][id] = 0
    OBVIOUS
  <2>1. accepted[a][id] \in 0 .. 2 /\ ~(accepted[a][id] > 0)
    BY <1>1 DEF OInv, IInv, TypeOK, AcceptCap, Provenance
  <2> QED  BY <2>1
<1>5. CASE chan' = chan
  BY <1>1, <1>5, NoNewOpen DEF OInv
<1>6. CASE chan' = [chan EXCEPT ![dest] = Append(@, e)]
  <2>1. OneOpen(chan')
    BY <1>2, <1>3, <1>6, OneOpenAppend DEF OInv
  <2>2. \A x \in Mgr : \A p \in Range(chan'[x]) : p \in Range(chan[x]) \/ p = e
    <3>1. Range(Append(chan[dest], e)) = Range(chan[dest]) \cup {e}
      BY <1>2, QueueAppend DEF Chans
    <3>2. chan'[dest] = Append(chan[dest], e) /\ \A x \in Mgr \ {dest} : chan'[x] = chan[x]
      BY <1>2, <1>6 DEF Chans
    <3> QED  BY <3>1, <3>2
  <2>3. OpensAreFresh'
    BY <1>1, <1>4, <2>2 DEF OInv, OpensAreFresh
  <2>4. AcceptedOnce'
    BY <1>1 DEF OInv, AcceptedOnce
  <2> QED  BY <2>1, <2>3, <2>4 DEF OInv, OneOpen
<1> QED  BY <1>1, <1>5, <1>6

\* The loop and one packet: an OPEN that is accepted leaves the channel.
LEMMA ReceiveOnce ==
    ASSUME "dup" \notin Env, OInv, IInv', NEW m \in Mgr, Receive(m)
    PROVE  OInv'
<1>1. PICK i \in DOMAIN chan[m] :
        \E c \in {[chan EXCEPT ![m] = RemoveAt(chan[m], i)]} : Handle(m, chan[m][i], c)
  BY DEF Receive
<1> DEFINE p == chan[m][i]
           ch == [chan EXCEPT ![m] = RemoveAt(chan[m], i)]
<1>2. Handle(m, p, ch)
  BY <1>1
<1>3. /\ chan \in Chans /\ accepted \in [Mgr -> [Id -> 0 .. 2]]
  BY DEF OInv, IInv, TypeOK, Chans, AcceptCap
<1>4. /\ ch \in Chans /\ \A x \in Mgr : Range(ch[x]) \subseteq Range(chan[x])
      /\ p \in Packet /\ p \in Range(chan[m])
  BY <1>3, ReceivedLeaves
<1>5. OneOpen(ch) /\ (p.cmd = "OPEN" => NoOpen(ch, p.id))
  BY <1>3, OneOpenRemove DEF OInv
<1>6. p.id \in Id /\ p.from \in Mgr
  BY <1>4 DEF Packet
<1> HIDE DEF p, ch
<1>7. ASSUME chan' = ch, accepted' = accepted
      PROVE  OInv'
  BY <1>4, <1>5, <1>7, NoNewOpen
<1>8. ASSUME p.cmd = "OPEN", chan' \in Sent(ch, m, p.id, "ACK", p.from),
             accepted' = [accepted EXCEPT ![m][p.id] = IF @ < AcceptCap THEN @ + 1 ELSE @]
      PROVE  OInv'
  <2>1. \A a \in Mgr : accepted[a][p.id] = 0
    BY <1>4, <1>8 DEF OInv, OpensAreFresh
  <2>2. \A a \in Mgr, y \in Id :
          accepted'[a][y] = IF a = m /\ y = p.id THEN 1 ELSE accepted[a][y]
    BY <1>3, <1>6, <1>8, <2>1 DEF AcceptCap
  <2>3. AcceptedOnce'
    BY <2>2 DEF OInv, AcceptedOnce
  <2>4. /\ OneOpen(chan')
        /\ \A x \in Mgr : \A q \in Range(chan'[x]) : q.cmd = "OPEN" => q \in Range(ch[x])
    <3>1. "ACK" \in Cmd \ {"OPEN"}
      BY DEF Cmd
    <3> QED  BY <1>4, <1>5, <1>6, <1>8, <3>1, SentKeeps
  <2>5. OpensAreFresh'
    <3> SUFFICES ASSUME NEW x \in Mgr, NEW q \in Range(chan'[x]), q.cmd = "OPEN",
                        NEW a \in Mgr
                 PROVE  accepted'[a][q.id] = 0
      BY DEF OpensAreFresh
    <3>1. q \in Range(ch[x]) /\ q \in Range(chan[x])
      BY <1>4, <2>4
    <3>2. q.id # p.id
      BY <1>5, <1>8, <3>1 DEF NoOpen
    <3>3. q.id \in Id
      <4>1. q \in Packet
        BY <1>3, <3>1, RangeOfSeq DEF Chans, Range
      <4> QED  BY <4>1 DEF Packet
    <3>4. accepted[a][q.id] = 0
      BY <3>1 DEF OInv, OpensAreFresh
    <3> QED  BY <2>2, <3>2, <3>3, <3>4
  <2> QED  BY <2>3, <2>4, <2>5 DEF OInv, OneOpen
<1>9. CASE Accept(m, p, ch)
  BY <1>7, <1>8, <1>9 DEF Accept
<1>10. CASE chan' = ch /\ accepted' = accepted
  BY <1>7, <1>10
<1> QED  BY <1>2, <1>9, <1>10 DEF Handle, Ignore, HandleData, HandleOpen, HandleAck, HandleClose

\* Every step keeps the invariant.
LEMMA NextOInv == "dup" \notin Env /\ OInv /\ [Next]_vars => OInv'
<1> SUFFICES ASSUME "dup" \notin Env, OInv, [Next]_vars PROVE OInv'
  OBVIOUS
<1>1. IInv'
  BY NextIInv DEF OInv
<1>2. chan \in Chans
  BY DEF OInv, IInv, TypeOK, Chans
<1>3. ASSUME UNCHANGED <<chan, accepted>>
      PROVE  OInv'
  BY <1>1, <1>3, NoNewOpen DEF OInv
<1>4. ASSUME NEW m \in Mgr, NEW id \in Id, NEW cmd \in Cmd \ {"OPEN"}, accepted' = accepted,
             chan' \in Sent(chan, m, id, cmd, peer[m][id])
      PROVE  OInv'
  <2>1. peer[m][id] \in Mgr
    BY DEF OInv, IInv, TypeOK
  <2>2. /\ OneOpen(chan')
        /\ \A x \in Mgr : \A p \in Range(chan'[x]) : p.cmd = "OPEN" => p \in Range(chan[x])
    BY <1>2, <1>4, <2>1, SentKeeps DEF OInv
  <2> QED  BY <1>1, <1>4, <2>2, NoNewOpen
<1>5. CASE UNCHANGED vars
  BY <1>3, <1>5 DEF vars
<1>6. ASSUME NEW m \in Mgr, NEW id \in Id, NEW dest \in Mgr, OpenTube(m, id, dest)
      PROVE  OInv'
  BY <1>1, <1>6, OpenTubeOnce
<1>7. ASSUME NEW m \in Mgr, NEW id \in Id,
             \/ TubeData(m, id) \/ TubeClose(m, id)
             \/ TubeManagerRemove(m, id) \/ FinalizeTube(m, id)
      PROVE  OInv'
  <2>1. "DATA" \in Cmd \ {"OPEN"} /\ "CLOSE" \in Cmd \ {"OPEN"}
    BY DEF Cmd
  <2>2. accepted' = accepted
        /\ \/ chan' = chan
           \/ chan' \in Sent(chan, m, id, "DATA", peer[m][id])
           \/ chan' \in Sent(chan, m, id, "CLOSE", peer[m][id])
    BY <1>7 DEF TubeData, TubeClose, TubeManagerRemove, FinalizeTube, CleanTube
  <2> QED  BY <1>3, <1>4, <2>1, <2>2
<1>8. ASSUME NEW m \in Mgr, Receive(m)
      PROVE  OInv'
  BY <1>1, <1>8, ReceiveOnce
<1>9. ASSUME NEW m \in Mgr, Lose(m) \/ LoopFails(m)
      PROVE  OInv'
  <2>1. accepted' = accepted
    BY <1>9 DEF Lose, LoopFails
  <2>2. CASE \E i \in DOMAIN chan[m] : chan' = [chan EXCEPT ![m] = RemoveAt(chan[m], i)]
    <3>1. OneOpen(chan') /\ \A x \in Mgr : Range(chan'[x]) \subseteq Range(chan[x])
      BY <1>2, <2>2, OneOpenRemove, ReceivedLeaves DEF OInv
    <3> QED  BY <1>1, <2>1, <3>1, NoNewOpen
  <2>3. CASE chan' = chan
    BY <1>3, <2>1, <2>3
  <2> QED  BY <1>9, <2>2, <2>3 DEF Lose, LoopFails
<1>10. ASSUME NEW m \in Mgr,
              \/ SetPolicyResponder(m) \/ Stop(m) \/ Finalize(m) \/ FinalizeEnd(m)
              \/ LoopStart(m) \/ LoopExit(m)
       PROVE  OInv'
  BY <1>3, <1>10 DEF SetPolicyResponder, Stop, Finalize, FinalizeEnd, LoopStart, LoopExit
<1>11. CASE Next
  BY <1>6, <1>7, <1>8, <1>9, <1>10, <1>11 DEF Next
<1> QED  BY <1>5, <1>11

\* A network that loses and reorders packets but duplicates none makes no
\* manager accept an ID twice: after its one OPEN has been handled, or lost,
\* tube_manager_loop creates no further tube for it.
THEOREM Once == ASSUME "dup" \notin Env PROVE Spec => []AcceptedOnce
<1>1. Init => OInv
  BY InitOInv
<1>2. OInv /\ [Next]_vars => OInv'
  BY NextOInv
<1>3. OInv => AcceptedOnce
  BY DEF OInv
<1> QED  BY <1>1, <1>2, <1>3, PTL DEF Spec

------------------------------------------------------------------------------
(***************************************************************************)
(* Over a reliable network the ends of a tube agree.  What one end has     *)
(* done and the other has not yet heard of is on its way: an invariant     *)
(* says for each ID what may be where.                                     *)
(***************************************************************************)

Reliable == Env \subseteq {"policy", "stop"}

\* DATA changes nothing.
Telling == {"OPEN", "ACK", "CLOSE"}

IsOf(p, id, cmd) == p.id = id /\ p.cmd = cmd

\* A packet of id with the command is on its way to m.
Holds(ch, m, id, cmd) == \E i \in 1 .. Len(ch[m]) : IsOf(ch[m][i], id, cmd)

\* A CLOSE comes after each OPEN of id on its way to m.
Followed(ch, m, id) ==
    \A i \in 1 .. Len(ch[m]) :
        IsOf(ch[m][i], id, "OPEN") => \E j \in i + 1 .. Len(ch[m]) : IsOf(ch[m][j], id, "CLOSE")

\* o opened the tube at d.
Sync(o, d, id) ==
    /\ d # o
    /\ \A m \in Mgr \ {o, d} :
        st[m][id] = "absent" /\ \A cmd \in Telling : ~Holds(chan, m, id, cmd)
    /\ ~Holds(chan, o, id, "OPEN") /\ ~Holds(chan, d, id, "ACK")
    /\ st[d][id] # "absent" => peer[d][id] = o /\ accepted[d][id] > 0
    /\ Holds(chan, o, id, "CLOSE") => accepted[d][id] > 0 /\ st[d][id] # "running"
    /\ Holds(chan, d, id, "CLOSE") => st[o][id] \notin {"opening", "running"}
    /\ Holds(chan, d, id, "OPEN") =>
        st[o][id] = "opening" \/ id \in abandoned \/ Followed(chan, d, id)
    /\ st[d][id] = "running" =>
        \/ st[o][id] = "running"
        \/ st[o][id] = "opening" /\ Holds(chan, o, id, "ACK")
        \/ Holds(chan, d, id, "CLOSE")
        \/ id \in abandoned
    /\ \/ st[o][id] = "running"
       \/ st[o][id] = "opening" /\ Holds(chan, o, id, "ACK")
       => st[d][id] = "running" \/ Holds(chan, o, id, "CLOSE")

AInv ==
    /\ OInv
    /\ \A id \in Id : owner[id] # None => Sync(owner[id], peer[owner[id]][id], id)

\* ch2 is ch with e on its way to the manager to, as far as id goes.
Adds(ch, ch2, to, e, id) ==
    /\ \A m \in Mgr, cmd \in Cmd :
        Holds(ch2, m, id, cmd) <=> Holds(ch, m, id, cmd) \/ (m = to /\ IsOf(e, id, cmd))
    /\ \A m \in Mgr :
        Followed(ch, m, id) /\ ~(m = to /\ IsOf(e, id, "OPEN")) => Followed(ch2, m, id)
    /\ IsOf(e, id, "CLOSE") => Followed(ch2, to, id)

\* A packet is added.
LEMMA HoldsAppend ==
    ASSUME NEW ch \in Chans, NEW to \in Mgr, NEW e \in Packet, NEW id \in Id,
           NEW ch2, ch2 = [ch EXCEPT ![to] = Append(@, e)]
    PROVE  Adds(ch, ch2, to, e, id)
<1> DEFINE q == ch[to]
           r == Append(q, e)
<1>1. q \in Seq(Packet) /\ Len(q) \in Nat
  BY LenProperties DEF Chans
<1>2. ch2[to] = r /\ \A m \in Mgr \ {to} : ch2[m] = ch[m]
  BY DEF Chans
<1>3. Len(r) = Len(q) + 1 /\ (\A i \in 1 .. Len(q) : r[i] = q[i]) /\ r[Len(q) + 1] = e
  BY <1>1, AppendProperties
<1> HIDE DEF r
<1>4. ASSUME NEW m \in Mgr, NEW cmd \in Cmd
      PROVE  Holds(ch2, m, id, cmd) <=> Holds(ch, m, id, cmd) \/ (m = to /\ IsOf(e, id, cmd))
  <2>1. CASE m = to
    <3> DEFINE P(p) == IsOf(p, id, cmd)
    <3> HIDE DEF P
    <3>1. (\E i \in 1 .. Len(r) : P(r[i])) <=> (\E i \in 1 .. Len(q) : P(q[i])) \/ P(e)
      <4>1. Len(q) + 1 \in 1 .. Len(r) /\ \A i \in 1 .. Len(q) : i \in 1 .. Len(r)
        BY <1>1, <1>3
      <4>2. \A i \in 1 .. Len(r) : i \in 1 .. Len(q) \/ i = Len(q) + 1
        BY <1>1, <1>3
      <4> QED  BY <1>3, <4>1, <4>2
    <3> QED  BY <1>2, <2>1, <3>1 DEF P, Holds
  <2>2. CASE m # to
    BY <1>2, <2>2 DEF Holds
  <2> QED  BY <2>1, <2>2
<1>5. ASSUME NEW m \in Mgr, Followed(ch, m, id), ~(m = to /\ IsOf(e, id, "OPEN"))
      PROVE  Followed(ch2, m, id)
  <2>1. CASE m = to
    <3> DEFINE P(p) == IsOf(p, id, "OPEN")
               C(p) == IsOf(p, id, "CLOSE")
    <3>1. ~P(e) /\ \A i \in 1 .. Len(q) : P(q[i]) => \E j \in i + 1 .. Len(q) : C(q[j])
      BY <1>5, <2>1 DEF Followed
    <3> HIDE DEF P, C
    <3>2. ASSUME NEW i \in 1 .. Len(r), P(r[i])
          PROVE  \E j \in i + 1 .. Len(r) : C(r[j])
      <4>1. i \in 1 .. Len(q)
        BY <1>1, <1>3, <3>1, <3>2
      <4>2. PICK j \in i + 1 .. Len(q) : C(q[j])
        BY <1>3, <3>1, <3>2, <4>1
      <4>3. j \in i + 1 .. Len(r) /\ r[j] = q[j]
        BY <1>1, <1>3, <4>1
      <4> QED  BY <4>2, <4>3
    <3> QED  BY <1>2, <2>1, <3>2 DEF P, C, Followed
  <2>2. CASE m # to
    BY <1>2, <1>5, <2>2 DEF Followed
  <2> QED  BY <2>1, <2>2
<1>6. ASSUME IsOf(e, id, "CLOSE")
      PROVE  Followed(ch2, to, id)
  <2>1. ASSUME NEW i \in 1 .. Len(r), IsOf(r[i], id, "OPEN")
        PROVE  \E j \in i + 1 .. Len(r) : IsOf(r[j], id, "CLOSE")
    <3>1. i # Len(q) + 1
      BY <1>3, <1>6, <2>1 DEF IsOf
    <3>2. Len(q) + 1 \in i + 1 .. Len(r)
      BY <1>1, <1>3, <3>1
    <3> QED  BY <1>3, <1>6, <3>2
  <2> QED  BY <1>2, <2>1 DEF Followed
<1> QED  BY <1>4, <1>5, <1>6 DEF Adds

\* The first packet is received.
LEMMA HoldsReceive ==
    ASSUME NEW ch \in Chans, NEW r \in Mgr, 1 \in DOMAIN ch[r], NEW id \in Id,
           NEW ch2, ch2 = [ch EXCEPT ![r] = RemoveAt(ch[r], 1)]
    PROVE  /\ \A m \in Mgr, cmd \in Cmd :
                /\ Holds(ch2, m, id, cmd) => Holds(ch, m, id, cmd)
                /\ Holds(ch, m, id, cmd) =>
                    Holds(ch2, m, id, cmd) \/ (m = r /\ IsOf(ch[r][1], id, cmd))
           /\ \A m \in Mgr : Followed(ch, m, id) => Followed(ch2, m, id)
           /\ Followed(ch, r, id) /\ IsOf(ch[r][1], id, "OPEN") => Holds(ch2, r, id, "CLOSE")
           /\ \A cmd \in Cmd : IsOf(ch[r][1], id, cmd) => Holds(ch, r, id, cmd)
<1> DEFINE q == ch[r]
           u == RemoveAt(q, 1)
<1>1. q \in Seq(Packet) /\ Len(q) \in Nat /\ DOMAIN q = 1 .. Len(q) /\ 1 \in 1 .. Len(q)
  BY LenProperties DEF Chans
<1>2. ch2[r] = u /\ \A m \in Mgr \ {r} : ch2[m] = ch[m]
  BY DEF Chans
<1>3. u \in Seq(Packet) /\ Len(u) = Len(q) - 1 /\ \A j \in 1 .. Len(q) - 1 : u[j] = q[j + 1]
  <2>1. /\ u \in Seq(Packet) /\ Len(u) = Len(q) - 1
        /\ \A j \in DOMAIN u : LET k == IF j < 1 THEN j ELSE j + 1 IN
                               k \in DOMAIN q /\ u[j] = q[k]
    BY <1>1, RemoveAtShifts
  <2>2. DOMAIN u = 1 .. Len(u)
    BY <2>1, LenProperties
  <2> QED  BY <1>1, <2>1, <2>2
<1> HIDE DEF u
<1>4. ASSUME NEW m \in Mgr, NEW cmd \in Cmd
      PROVE  /\ Holds(ch2, m, id, cmd) => Holds(ch, m, id, cmd)
             /\ Holds(ch, m, id, cmd) =>
                 Holds(ch2, m, id, cmd) \/ (m = r /\ IsOf(ch[r][1], id, cmd))
  <2>1. CASE m = r
    <3> DEFINE P(p) == IsOf(p, id, cmd)
    <3> HIDE DEF P
    <3>1. (\E j \in 1 .. Len(u) : P(u[j])) => \E i \in 1 .. Len(q) : P(q[i])
      <4>1. \A j \in 1 .. Len(u) : j + 1 \in 1 .. Len(q) /\ u[j] = q[j + 1]
        BY <1>1, <1>3
      <4> QED  BY <4>1
    <3>2. (\E i \in 1 .. Len(q) : P(q[i])) => (\E j \in 1 .. Len(u) : P(u[j])) \/ P(q[1])
      <4>1. \A i \in 1 .. Len(q) : i = 1 \/ (i - 1 \in 1 .. Len(u) /\ u[i - 1] = q[i])
        BY <1>1, <1>3
      <4> QED  BY <4>1
    <3> QED  BY <1>2, <2>1, <3>1, <3>2 DEF P, Holds
  <2>2. CASE m # r
    BY <1>2, <2>2 DEF Holds
  <2> QED  BY <2>1, <2>2
<1> DEFINE P(p) == IsOf(p, id, "OPEN")
           C(p) == IsOf(p, id, "CLOSE")
<1>5. ASSUME NEW m \in Mgr, Followed(ch, m, id)
      PROVE  Followed(ch2, m, id)
  <2>1. CASE m = r
    <3>1. \A i \in 1 .. Len(q) : P(q[i]) => \E j \in i + 1 .. Len(q) : C(q[j])
      BY <1>5, <2>1 DEF Followed
    <3> HIDE DEF P, C
    <3>2. ASSUME NEW i \in 1 .. Len(u), P(u[i])
          PROVE  \E j \in i + 1 .. Len(u) : C(u[j])
      <4>1. i + 1 \in 1 .. Len(q) /\ P(q[i + 1])
        BY <1>1, <1>3, <3>2
      <4>2. PICK j \in i + 1 + 1 .. Len(q) : C(q[j])
        BY <3>1, <4>1
      <4>3. j - 1 \in i + 1 .. Len(u) /\ u[j - 1] = q[j]
        BY <1>1, <1>3, <4>1
      <4> QED  BY <4>2, <4>3
    <3> QED  BY <1>2, <2>1, <3>2 DEF P, C, Followed
  <2>2. CASE m # r
    BY <1>2, <1>5, <2>2 DEF Followed
  <2> QED  BY <2>1, <2>2
<1>6. ASSUME Followed(ch, r, id), IsOf(ch[r][1], id, "OPEN")
      PROVE  Holds(ch2, r, id, "CLOSE")
  <2>1. PICK j \in 1 + 1 .. Len(q) : C(q[j])
    BY <1>1, <1>6 DEF Followed
  <2> HIDE DEF C
  <2>2. j - 1 \in 1 .. Len(u) /\ u[j - 1] = q[j]
    BY <1>1, <1>3
  <2>3. \E i \in 1 .. Len(u) : C(u[i])
    BY <2>1, <2>2
  <2> QED  BY <1>2, <2>3 DEF C, Holds
<1>7. ASSUME NEW cmd \in Cmd, IsOf(ch[r][1], id, cmd)
      PROVE  Holds(ch, r, id, cmd)
  BY <1>1, <1>7 DEF Holds
<1> QED  BY <1>4, <1>5, <1>6, <1>7

\* A step in which nothing happens to the tube id and to its packets but DATA.
LEMMA SyncKept ==
    ASSUME NEW o \in Mgr, NEW d \in Mgr, NEW id \in Id, Sync(o, d, id),
           \A m \in Mgr : /\ st'[m][id] = st[m][id] /\ peer'[m][id] = peer[m][id]
                          /\ accepted'[m][id] = accepted[m][id],
           id \in abandoned => id \in abandoned',
           \A m \in Mgr, cmd \in Telling : Holds(chan', m, id, cmd) <=> Holds(chan, m, id, cmd),
           \A m \in Mgr : Followed(chan, m, id) => Followed(chan', m, id)
    PROVE  Sync(o, d, id)'
<1>1. "OPEN" \in Telling /\ "ACK" \in Telling /\ "CLOSE" \in Telling
  BY DEF Telling
<1> QED  BY <1>1 DEF Sync

\* The state of one tube changes.
Becomes(m, id, s) ==
    \A x \in Mgr, y \in Id : st'[x][y] = IF x = m /\ y = id THEN s ELSE st[x][y]

\* Telling packets of id on their way: one more.
Tells(to, id, c) ==
    /\ \A m \in Mgr, cmd \in Telling :
        Holds(chan', m, id, cmd) <=> Holds(chan, m, id, cmd) \/ (m = to /\ cmd = c)
    /\ \A m \in Mgr : Followed(chan, m, id) /\ ~(m = to /\ c = "OPEN") => Followed(chan', m, id)
    /\ c = "CLOSE" => Followed(chan', to, id)

\* Sending a packet is telling the tube it names, and no other.
LEMMA SendTells ==
    ASSUME chan \in Chans, NEW m \in Mgr, NEW to \in Mgr, NEW id \in Id, NEW c \in Cmd,
           chan' = [chan EXCEPT ![to] = Append(@, [cmd |-> c, id |-> id, from |-> m])],
           NEW y \in Id
    PROVE  /\ y = id => Tells(to, y, c)
           /\ y # id \/ c = "DATA" =>
                /\ \A x \in Mgr, cmd \in Telling : Holds(chan', x, y, cmd) <=> Holds(chan, x, y, cmd)
                /\ \A x \in Mgr : Followed(chan, x, y) => Followed(chan', x, y)
<1> DEFINE e == [cmd |-> c, id |-> id, from |-> m]
<1>1. e \in Packet /\ e.id = id /\ e.cmd = c
  BY DEF Packet
<1> HIDE DEF e
<1>2. /\ \A x \in Mgr, cmd \in Cmd :
           Holds(chan', x, y, cmd) <=> Holds(chan, x, y, cmd) \/ (x = to /\ IsOf(e, y, cmd))
      /\ \A x \in Mgr : Followed(chan, x, y) /\ ~(x = to /\ IsOf(e, y, "OPEN"))
                           => Followed(chan', x, y)
      /\ IsOf(e, y, "CLOSE") => Followed(chan', to, y)
  <2>1. chan' = [chan EXCEPT ![to] = Append(@, e)]
    BY DEF e
  <2>2. Adds(chan, chan', to, e, y)
    BY <1>1, <2>1, HoldsAppend
  <2> QED  BY <2>2 DEF Adds
<1>3. Telling \subseteq Cmd /\ "DATA" \notin Telling
  BY DEF Telling, Cmd
<1>4. CASE y = id
  BY <1>1, <1>2, <1>3, <1>4 DEF Tells, IsOf
<1>5. CASE y # id
  BY <1>1, <1>2, <1>3, <1>5 DEF IsOf
<1> QED  BY <1>4, <1>5

\* An end closes its tube, or removes a RUNNING one, and tells the other end.
LEMMA SyncCloses ==
    ASSUME NEW o \in Mgr, NEW d \in Mgr, NEW id \in Id, Sync(o, d, id), peer[o][id] = d,
           NEW m \in Mgr, st[m][id] \in Usable, NEW s \in {"unknown", "absent"},
           Becomes(m, id, s), Tells(peer[m][id], id, "CLOSE"),
           UNCHANGED <<peer, accepted>>, id \in abandoned => id \in abandoned'
    PROVE  Sync(o, d, id)'
<1>1. "OPEN" \in Telling /\ "ACK" \in Telling /\ "CLOSE" \in Telling
  BY DEF Telling
<1>2. (m = o \/ m = d) /\ o # d /\ (m = d => peer[d][id] = o)
  BY DEF Sync, Usable
<1>3. \A x \in Mgr : st'[x][id] = IF x = m THEN s ELSE st[x][id]
  BY DEF Becomes
<1>4. CASE m = o
  BY <1>1, <1>2, <1>3, <1>4 DEF Sync, Tells
<1>5. CASE m = d
  BY <1>1, <1>2, <1>3, <1>5 DEF Sync, Tells, Usable
<1> QED  BY <1>2, <1>4, <1>5

\* An end removes a tube that is not RUNNING.
LEMMA SyncRemoves ==
    ASSUME NEW o \in Mgr, NEW d \in Mgr, NEW id \in Id, Sync(o, d, id),
           NEW m \in Mgr, st[m][id] \in Usable, st[m][id] # "running",
           st[m][id] = "opening" => m = o /\ id \in abandoned',
           Becomes(m, id, "absent"),
           UNCHANGED <<peer, accepted, chan>>, id \in abandoned => id \in abandoned'
    PROVE  Sync(o, d, id)'
<1>2. (m = o \/ m = d) /\ o # d
  BY DEF Sync, Usable
<1>3. \A x \in Mgr : st'[x][id] = IF x = m THEN "absent" ELSE st[x][id]
  BY DEF Becomes
<1>4. CASE m = o
  BY <1>2, <1>3, <1>4 DEF Sync, Usable
<1>5. CASE m = d
  BY <1>2, <1>3, <1>5 DEF Sync, Usable
<1> QED  BY <1>2, <1>4, <1>5

\* A new tube: there is nothing of its ID yet.
LEMMA SyncOpens ==
    ASSUME NEW o \in Mgr, NEW d \in Mgr, NEW id \in Id, o # d,
           \A m \in Mgr : st[m][id] = "absent" /\ \A cmd \in Telling : ~Holds(chan, m, id, cmd),
           Becomes(o, id, "opening"), Tells(d, id, "OPEN")
    PROVE  Sync(o, d, id)'
<1>1. "OPEN" \in Telling /\ "ACK" \in Telling /\ "CLOSE" \in Telling
  BY DEF Telling
<1>3. \A x \in Mgr : st'[x][id] = IF x = o THEN "opening" ELSE "absent"
  BY DEF Becomes
<1> QED  BY <1>1, <1>3 DEF Sync, Tells

\* r has received p, a packet of id: ch is what is still on its way.
Takes(ch, r, p, id) ==
    /\ \A m \in Mgr, cmd \in Telling :
        /\ Holds(ch, m, id, cmd) => Holds(chan, m, id, cmd)
        /\ Holds(chan, m, id, cmd) => Holds(ch, m, id, cmd) \/ (m = r /\ p.cmd = cmd)
    /\ \A m \in Mgr : Followed(chan, m, id) => Followed(ch, m, id)
    /\ Followed(chan, r, id) /\ p.cmd = "OPEN" => Holds(ch, r, id, "CLOSE")
    /\ p.cmd \in Telling => Holds(chan, r, id, p.cmd)

Fresh(id) ==
    (\E m \in Mgr : Holds(chan, m, id, "OPEN")) => \A m \in Mgr : ~(accepted[m][id] > 0)

\* The packet makes no difference.
LEMMA SyncIgnores ==
    ASSUME NEW o \in Mgr, NEW d \in Mgr, NEW id \in Id, Sync(o, d, id),
           NEW r \in Mgr, NEW p \in Packet, Takes(chan', r, p, id),
           p.cmd = "ACK" => st[r][id] # "opening",
           p.cmd = "CLOSE" => st[r][id] \notin {"opening", "running"},
           \A x \in Mgr : st'[x][id] = st[x][id],
           UNCHANGED <<peer, accepted, abandoned>>
    PROVE  Sync(o, d, id)'
<1>1. "OPEN" \in Telling /\ "ACK" \in Telling /\ "CLOSE" \in Telling
  BY DEF Telling
<1>2. p.cmd \in Telling => r = o \/ r = d
  BY DEF Sync, Takes
<1>3. p.cmd \in {"DATA", "OPEN", "CLOSE", "ACK"}
  BY DEF Packet, Cmd
<1>4. CASE p.cmd = "DATA"
  <2>1. \A m \in Mgr, cmd \in Telling : Holds(chan', m, id, cmd) <=> Holds(chan, m, id, cmd)
    BY <1>4 DEF Takes, Telling
  <2>2. \A m \in Mgr : Followed(chan, m, id) => Followed(chan', m, id)
    BY DEF Takes
  <2> QED  BY <2>1, <2>2, SyncKept
<1>5. CASE p.cmd = "OPEN"
  BY <1>1, <1>2, <1>5 DEF Sync, Takes
<1>6. CASE p.cmd = "ACK"
  BY <1>1, <1>2, <1>6 DEF Sync, Takes
<1>7. CASE p.cmd = "CLOSE"
  BY <1>1, <1>2, <1>7 DEF Sync, Takes
<1> QED  BY <1>3, <1>4, <1>5, <1>6, <1>7

\* The ACK makes the opener's end RUNNING: the other end is, or has told it
\* that it closed.
LEMMA SyncEstablishes ==
    ASSUME NEW o \in Mgr, NEW d \in Mgr, NEW id \in Id, Sync(o, d, id), Fresh(id),
           NEW r \in Mgr, NEW p \in Packet, Takes(chan', r, p, id),
           p.cmd = "ACK", st[r][id] = "opening", Becomes(r, id, "running"),
           UNCHANGED <<peer, accepted, abandoned>>
    PROVE  Sync(o, d, id)'
<1>1. "OPEN" \in Telling /\ "ACK" \in Telling /\ "CLOSE" \in Telling
  BY DEF Telling
<1>2. r = o /\ Holds(chan, o, id, "ACK") /\ o # d
  BY <1>1 DEF Sync, Takes
<1>3. \A x \in Mgr : st'[x][id] = IF x = r THEN "running" ELSE st[x][id]
  BY DEF Becomes
<1>4. ~Holds(chan, d, id, "OPEN")
  BY <1>2 DEF Sync, Fresh
<1> QED  BY <1>1, <1>2, <1>3, <1>4 DEF Sync, Takes

\* The CLOSE of one end takes away the other.
LEMMA SyncEnds ==
    ASSUME NEW o \in Mgr, NEW d \in Mgr, NEW id \in Id, Sync(o, d, id), Fresh(id),
           NEW r \in Mgr, NEW p \in Packet, Takes(chan', r, p, id),
           p.cmd = "CLOSE", Becomes(r, id, "absent"),
           UNCHANGED <<peer, accepted, abandoned>>
    PROVE  Sync(o, d, id)'
<1>1. "OPEN" \in Telling /\ "ACK" \in Telling /\ "CLOSE" \in Telling
  BY DEF Telling
<1>2. (r = o \/ r = d) /\ o # d /\ Holds(chan, r, id, "CLOSE")
  BY <1>1 DEF Sync, Takes
<1>3. \A x \in Mgr : st'[x][id] = IF x = r THEN "absent" ELSE st[x][id]
  BY DEF Becomes
<1>4. CASE r = o
  <2>1. ~Holds(chan, d, id, "OPEN")
    BY <1>2, <1>4 DEF Sync, Fresh
  <2> QED  BY <1>1, <1>2, <1>3, <1>4, <2>1 DEF Sync, Takes
<1>5. CASE r = d
  BY <1>1, <1>2, <1>3, <1>5 DEF Sync, Takes
<1> QED  BY <1>2, <1>4, <1>5

\* The OPEN is accepted.  Its sender waits for the ACK, or has abandoned the
\* tube, or its CLOSE follows.
LEMMA SyncAccepts ==
    ASSUME NEW o \in Mgr, NEW d \in Mgr, NEW id \in Id, Sync(o, d, id), Fresh(id), Fresh(id)',
           NEW r \in Mgr, NEW p \in Packet, NEW ch, Takes(ch, r, p, id),
           p.cmd = "OPEN", Becomes(r, id, "running"),
           \A m \in Mgr, cmd \in Telling :
               Holds(chan', m, id, cmd) <=> Holds(ch, m, id, cmd) \/ (m = o /\ cmd = "ACK"),
           \A m \in Mgr : Followed(ch, m, id) => Followed(chan', m, id),
           peer'[r][id] = o, accepted'[r][id] > 0, abandoned' = abandoned
    PROVE  Sync(o, d, id)'
<1>1. "OPEN" \in Telling /\ "ACK" \in Telling /\ "CLOSE" \in Telling
  BY DEF Telling
<1>2. r = d /\ o # d /\ Holds(chan, d, id, "OPEN")
  BY <1>1 DEF Sync, Takes
<1>3. \A x \in Mgr : st'[x][id] = IF x = r THEN "running" ELSE st[x][id]
  BY DEF Becomes
<1>4. ~Holds(chan, o, id, "CLOSE")
  BY <1>2 DEF Sync, Fresh
<1>5. ~Holds(chan', d, id, "OPEN")
  BY <1>2 DEF Fresh
<1> QED  BY <1>1, <1>2, <1>3, <1>4, <1>5 DEF Sync, Takes

\* An OPEN on its way has been accepted by nobody, said of one ID.
LEMMA FreshIds == OInv => \A id \in Id : Fresh(id)
<1> SUFFICES ASSUME OInv, NEW id \in Id, NEW m \in Mgr, Holds(chan, m, id, "OPEN"), NEW a \in Mgr
             PROVE  ~(accepted[a][id] > 0)
  BY DEF Fresh
<1>1. chan[m] \in Seq(Packet)
  BY DEF OInv, IInv, TypeOK
<1>2. PICK i \in 1 .. Len(chan[m]) : IsOf(chan[m][i], id, "OPEN")
  BY DEF Holds
<1>3. chan[m][i] \in Range(chan[m])
  BY <1>1, LenProperties DEF Range
<1>4. accepted[a][id] = 0
  BY <1>2, <1>3 DEF OInv, OpensAreFresh, IsOf
<1> QED  BY <1>4

\* Receiving a packet takes it from the tube it names, and leaves the packets
\* of the others.
LEMMA ReceiveTakes ==
    ASSUME chan \in Chans, NEW r \in Mgr, 1 \in DOMAIN chan[r],
           NEW ch, ch = [chan EXCEPT ![r] = RemoveAt(chan[r], 1)], NEW y \in Id,
           NEW p, p = chan[r][1]
    PROVE  /\ y = p.id => Takes(ch, r, p, y)
           /\ y # p.id =>
                /\ \A x \in Mgr, cmd \in Telling : Holds(ch, x, y, cmd) <=> Holds(chan, x, y, cmd)
                /\ \A x \in Mgr : Followed(chan, x, y) => Followed(ch, x, y)
<1>1. /\ \A m \in Mgr, cmd \in Cmd :
           /\ Holds(ch, m, y, cmd) => Holds(chan, m, y, cmd)
           /\ Holds(chan, m, y, cmd) => Holds(ch, m, y, cmd) \/ (m = r /\ IsOf(p, y, cmd))
      /\ \A m \in Mgr : Followed(chan, m, y) => Followed(ch, m, y)
      /\ Followed(chan, r, y) /\ IsOf(p, y, "OPEN") => Holds(ch, r, y, "CLOSE")
      /\ \A cmd \in Cmd : IsOf(p, y, cmd) => Holds(chan, r, y, cmd)
  <2> DEFINE all == \A c, c2 :
           c = chan /\ c2 = ch =>
               /\ \A m \in Mgr, cmd \in Cmd :
                    /\ Holds(c2, m, y, cmd) => Holds(c, m, y, cmd)
                    /\ Holds(c, m, y, cmd) =>
                        Holds(c2, m, y, cmd) \/ (m = r /\ IsOf(c[r][1], y, cmd))
               /\ \A m \in Mgr : Followed(c, m, y) => Followed(c2, m, y)
               /\ Followed(c, r, y) /\ IsOf(c[r][1], y, "OPEN") => Holds(c2, r, y, "CLOSE")
               /\ \A cmd \in Cmd : IsOf(c[r][1], y, cmd) => Holds(c, r, y, cmd)
  <2>1. all
    BY HoldsReceive
  <2> QED  BY <2>1
<1>2. Telling \subseteq Cmd
  BY DEF Telling, Cmd
<1>3. CASE y = p.id
  BY <1>1, <1>2, <1>3 DEF Takes, IsOf
<1>4. CASE y # p.id
  BY <1>1, <1>2, <1>4 DEF IsOf
<1> QED  BY <1>3, <1>4

\* Without failures a send is a send.
LEMMA ReliablySent ==
    ASSUME Reliable, NEW ch, NEW m, NEW id, NEW cmd, NEW to, NEW ch2 \in Sent(ch, m, id, cmd, to)
    PROVE  ch2 = [ch EXCEPT ![to] = Append(@, [cmd |-> cmd, id |-> id, from |-> m])]
<1>1. Env \cap {"sendfail", "alloc"} = {}
  BY DEF Reliable
<1> QED  BY <1>1 DEF Sent

\* The tube that is opened, and the others.
LEMMA OpenTubeSync ==
    ASSUME Reliable, AInv, NEW m \in Mgr, NEW id \in Id, NEW dest \in Mgr, OpenTube(m, id, dest),
           NEW y \in Id, NEW o \in Mgr, NEW d \in Mgr, o = owner'[y], d = peer'[o][y]
    PROVE  Sync(o, d, y)'
<1>1. "alloc" \notin Env /\ Env \cap {"sendfail", "alloc"} = {}
  BY DEF Reliable
<1>2. /\ dest # m /\ owner[id] = None
      /\ owner' = [owner EXCEPT ![id] = m] /\ peer' = [peer EXCEPT ![m][id] = dest]
      /\ st' = [st EXCEPT ![m][id] = "opening"]
      /\ chan' = [chan EXCEPT ![dest] = Append(@, [cmd |-> "OPEN", id |-> id, from |-> m])]
      /\ UNCHANGED <<accepted, abandoned>>
  BY <1>1 DEF OpenTube, SetState
<1>3. /\ chan \in Chans /\ st \in [Mgr -> [Id -> TubeState]] /\ peer \in [Mgr -> [Id -> Mgr]]
      /\ owner \in [Id -> Mgr \cup {None}] /\ "OPEN" \in Cmd /\ None \notin Mgr
  BY TubeManagerAssumption DEF AInv, OInv, IInv, TypeOK, Chans, Cmd
<1>4. Becomes(m, id, "opening")
  BY <1>2, <1>3 DEF Becomes
<1>5. owner'[y] = (IF y = id THEN m ELSE owner[y])
      /\ \A x \in Mgr : peer'[x][y] = IF x = m /\ y = id THEN dest ELSE peer[x][y]
  BY <1>2, <1>3
<1>6. /\ y = id => Tells(dest, y, "OPEN")
      /\ y # id =>
           /\ \A x \in Mgr, cmd \in Telling : Holds(chan', x, y, cmd) <=> Holds(chan, x, y, cmd)
           /\ \A x \in Mgr : Followed(chan, x, y) => Followed(chan', x, y)
  BY <1>2, <1>3, SendTells
<1>7. CASE y = id
  <2>1. ASSUME NEW x \in Mgr
        PROVE  st[x][id] = "absent" /\ \A cmd \in Telling : ~Holds(chan, x, id, cmd)
    <3>1. x # None /\ peer[x][id] # None
      BY <1>3, TubeManagerAssumption
    <3>2. st[x][id] = "absent"
      BY <1>2, <3>1 DEF AInv, OInv, IInv, Provenance
    <3>3. ASSUME NEW cmd \in Telling, NEW i \in 1 .. Len(chan[x]), IsOf(chan[x][i], id, cmd)
          PROVE  FALSE
      <4>1. chan[x] \in Seq(Packet)
        BY <1>3 DEF Chans
      <4>2. chan[x][i] \in Range(chan[x])
        BY <4>1, LenProperties DEF Range
      <4> QED  BY <1>2, <3>3, <4>2 DEF AInv, OInv, IInv, PacketsGenuine, IsOf
    <3> QED  BY <3>2, <3>3 DEF Holds
  <2>2. o = m /\ d = dest
    BY <1>5, <1>7
  <2> QED  BY <1>2, <1>4, <1>6, <1>7, <2>1, <2>2, SyncOpens
<1>8. CASE y # id
  <2>1. o = owner[y] /\ d = peer[o][y] /\ owner[y] # None
    BY <1>3, <1>5, <1>8
  <2>2. Sync(o, d, y)
    BY <2>1 DEF AInv
  <2>3. \A x \in Mgr : st'[x][y] = st[x][y] /\ peer'[x][y] = peer[x][y]
    BY <1>4, <1>5, <1>8 DEF Becomes
  <2> QED  BY <1>2, <1>6, <1>8, <2>2, <2>3, SyncKept
<1> QED  BY <1>7, <1>8

\* The calls on a tube, and the others.
LEMMA CallSync ==
    ASSUME Reliable, AInv, NEW m \in Mgr, NEW id \in Id,
           \/ TubeData(m, id) \/ TubeClose(m, id)
           \/ TubeManagerRemove(m, id) \/ FinalizeTube(m, id),
           NEW y \in Id, NEW o \in Mgr, NEW d \in Mgr, o = owner'[y], d = peer'[o][y]
    PROVE  Sync(o, d, y)'
<1>1. /\ chan \in Chans /\ st \in [Mgr -> [Id -> TubeState]] /\ peer \in [Mgr -> [Id -> Mgr]]
      /\ None \notin Mgr /\ "CLOSE" \in Cmd /\ "DATA" \in Cmd /\ peer[m][id] \in Mgr
  <2>1. /\ chan \in Chans /\ st \in [Mgr -> [Id -> TubeState]] /\ peer \in [Mgr -> [Id -> Mgr]]
    BY DEF AInv, OInv, IInv, TypeOK, Chans
  <2>2. None \notin Mgr /\ "CLOSE" \in Cmd /\ "DATA" \in Cmd
    BY TubeManagerAssumption DEF Cmd
  <2> QED  BY <2>1, <2>2
<1>2. UNCHANGED <<peer, accepted, owner>>
  BY DEF TubeData, TubeClose, TubeManagerRemove, FinalizeTube
<1>3. Sync(o, d, y) /\ peer[o][y] = d /\ o = owner[y]
  BY <1>1, <1>2 DEF AInv
<1>4. ASSUME UNCHANGED <<st, abandoned>>,
             chan' = chan \/ chan' \in Sent(chan, m, id, "DATA", peer[m][id])
      PROVE  Sync(o, d, y)'
  <2>1. /\ \A x \in Mgr, cmd \in Telling : Holds(chan', x, y, cmd) <=> Holds(chan, x, y, cmd)
        /\ \A x \in Mgr : Followed(chan, x, y) => Followed(chan', x, y)
    <3>1. CASE chan' = chan
      BY <3>1
    <3>2. CASE chan' \in Sent(chan, m, id, "DATA", peer[m][id])
      <4>1. chan' = [chan EXCEPT ![peer[m][id]] = Append(@, [cmd |-> "DATA", id |-> id, from |-> m])]
        BY <3>2, ReliablySent
      <4> QED  BY <1>1, <4>1, SendTells
    <3> QED  BY <1>4, <3>1, <3>2
  <2> QED  BY <1>2, <1>3, <1>4, <2>1, SyncKept
<1>5. ASSUME st[m][id] \in Usable, NEW s \in {"unknown", "absent"}, st' = [st EXCEPT ![m][id] = s],
             chan' \in Sent(chan, m, id, "CLOSE", peer[m][id]), abandoned' = abandoned
      PROVE  Sync(o, d, y)'
  <2>1. chan' = [chan EXCEPT ![peer[m][id]] = Append(@, [cmd |-> "CLOSE", id |-> id, from |-> m])]
    BY <1>5, ReliablySent
  <2>2. /\ y = id => Tells(peer[m][id], y, "CLOSE")
        /\ y # id =>
             /\ \A x \in Mgr, cmd \in Telling : Holds(chan', x, y, cmd) <=> Holds(chan, x, y, cmd)
             /\ \A x \in Mgr : Followed(chan, x, y) => Followed(chan', x, y)
    BY <1>1, <2>1, SendTells
  <2>3. Becomes(m, id, s)
    BY <1>1, <1>5 DEF Becomes
  <2>4. CASE y = id
    BY <1>2, <1>3, <1>5, <2>2, <2>3, <2>4, SyncCloses
  <2>5. CASE y # id
    <3>1. \A x \in Mgr : st'[x][y] = st[x][y]
      BY <2>3, <2>5 DEF Becomes
    <3> QED  BY <1>2, <1>3, <1>5, <2>2, <2>5, <3>1, SyncKept
  <2> QED  BY <2>4, <2>5
<1>6. ASSUME st[m][id] \in Usable, CleanTube(m, id)
      PROVE  Sync(o, d, y)'
  <2>1. st' = [st EXCEPT ![m][id] = "absent"]
        /\ abandoned' = IF st[m][id] = "opening" THEN abandoned \cup {id} ELSE abandoned
    BY <1>6 DEF CleanTube, SetState
  <2>2. CASE st[m][id] = "running"
    BY <1>5, <1>6, <2>1, <2>2 DEF CleanTube
  <2>3. CASE st[m][id] # "running"
    <3>1. chan' = chan
      BY <1>6, <2>3 DEF CleanTube
    <3>2. Becomes(m, id, "absent")
      BY <1>1, <2>1 DEF Becomes
    <3>3. st[m][id] = "opening" => m = owner[id] /\ id \in abandoned'
      BY <2>1 DEF AInv, OInv, IInv, Provenance
    <3>4. \A x \in abandoned : x \in abandoned'
      BY <2>1
    <3>5. CASE y = id
      BY <1>2, <1>3, <1>6, <2>3, <3>1, <3>2, <3>3, <3>4, <3>5, SyncRemoves
    <3>6. CASE y # id
      <4>1. \A x \in Mgr : st'[x][y] = st[x][y]
        BY <3>2, <3>6 DEF Becomes
      <4> QED  BY <1>2, <1>3, <3>1, <3>4, <4>1, SyncKept
    <3> QED  BY <3>5, <3>6
  <2> QED  BY <2>2, <2>3
<1>7. CASE TubeData(m, id)
  BY <1>4, <1>7 DEF TubeData
<1>8. CASE TubeClose(m, id)
  BY <1>5, <1>8 DEF TubeClose, SetState
<1>9. CASE TubeManagerRemove(m, id)
  BY <1>6, <1>9 DEF TubeManagerRemove
<1>10. CASE FinalizeTube(m, id)
  BY <1>4, <1>6, <1>10 DEF FinalizeTube
<1> QED  BY <1>7, <1>8, <1>9, <1>10

\* The loop and one packet: the tube it names, and the others.
LEMMA ReceiveSync ==
    ASSUME Reliable, AInv, OInv', NEW m \in Mgr, Receive(m),
           NEW y \in Id, NEW o \in Mgr, NEW d \in Mgr, o = owner'[y], d = peer'[o][y]
    PROVE  Sync(o, d, y)'
<1>1. /\ chan \in Chans /\ st \in [Mgr -> [Id -> TubeState]] /\ peer \in [Mgr -> [Id -> Mgr]]
      /\ accepted \in [Mgr -> [Id -> 0 .. 2]] /\ None \notin Mgr /\ "ACK" \in Cmd
  BY TubeManagerAssumption DEF AInv, OInv, IInv, TypeOK, AcceptCap, Chans, Cmd
<1>2. /\ "dup" \notin Env /\ "reorder" \notin Env /\ "alloc" \notin Env
  BY DEF Reliable
<1>3. /\ 1 \in DOMAIN chan[m] /\ owner' = owner
      /\ \E c \in {[chan EXCEPT ![m] = RemoveAt(chan[m], 1)]} : Handle(m, chan[m][1], c)
  BY <1>2 DEF Receive
<1>4. PICK ch, p : /\ ch = [chan EXCEPT ![m] = RemoveAt(chan[m], 1)] /\ p = chan[m][1]
                   /\ Handle(m, p, ch)
  BY <1>3
<1>5. ch \in Chans /\ p \in Packet /\ p \in Range(chan[m]) /\ p.id \in Id /\ p.from \in Mgr
  <2>1. ch \in Chans /\ p \in Packet /\ p \in Range(chan[m])
    BY <1>1, <1>3, <1>4, ReceivedLeaves
  <2> QED  BY <2>1 DEF Packet
<1>6. /\ y = p.id => Takes(ch, m, p, y)
      /\ y # p.id =>
           /\ \A x \in Mgr, cmd \in Telling : Holds(ch, x, y, cmd) <=> Holds(chan, x, y, cmd)
           /\ \A x \in Mgr : Followed(chan, x, y) => Followed(ch, x, y)
  BY <1>1, <1>3, <1>4, ReceiveTakes
<1>7. o = owner[y] /\ owner[y] # None /\ Fresh(y) /\ abandoned' = abandoned
  <2>1. abandoned' = abandoned
    BY <1>4 DEF Handle, Accept, Ignore, HandleData, HandleOpen, HandleAck, HandleClose
  <2> QED  BY <1>1, <1>3, <2>1, FreshIds DEF AInv
<1>8. ASSUME chan' = ch, UNCHANGED <<peer, accepted>>, NEW s, st' = [st EXCEPT ![m][p.id] = s],
             \/ /\ s = st[m][p.id]
                /\ p.cmd = "ACK" => st[m][p.id] # "opening"
                /\ p.cmd = "CLOSE" => st[m][p.id] \notin {"opening", "running"}
             \/ p.cmd = "ACK" /\ st[m][p.id] = "opening" /\ s = "running"
             \/ p.cmd = "CLOSE" /\ s = "absent"
      PROVE  Sync(o, d, y)'
  <2>1. Becomes(m, p.id, s)
    BY <1>1, <1>5, <1>8 DEF Becomes
  <2>2. Sync(o, d, y)
    BY <1>7, <1>8 DEF AInv
  <2>3. CASE y # p.id
    <3>1. \A x \in Mgr : st'[x][y] = st[x][y]
      BY <2>1, <2>3 DEF Becomes
    <3> QED  BY <1>6, <1>7, <1>8, <2>2, <2>3, <3>1, SyncKept
  <2>4. CASE y = p.id
    <3>1. CASE /\ s = st[m][p.id]
               /\ p.cmd = "ACK" => st[m][p.id] # "opening"
               /\ p.cmd = "CLOSE" => st[m][p.id] \notin {"opening", "running"}
      <4>1. \A x \in Mgr : st'[x][y] = st[x][y]
        BY <2>1, <2>4, <3>1 DEF Becomes
      <4> QED  BY <1>5, <1>6, <1>7, <1>8, <2>2, <2>4, <3>1, <4>1, SyncIgnores
    <3>2. CASE p.cmd = "ACK" /\ st[m][p.id] = "opening" /\ s = "running"
      BY <1>5, <1>6, <1>7, <1>8, <2>1, <2>2, <2>4, <3>2, SyncEstablishes
    <3>3. CASE p.cmd = "CLOSE" /\ s = "absent"
      BY <1>5, <1>6, <1>7, <1>8, <2>1, <2>2, <2>4, <3>3, SyncEnds
    <3> QED  BY <1>8, <3>1, <3>2, <3>3
  <2> QED  BY <2>3, <2>4
<1>9. ASSUME p.cmd = "OPEN", st' = [st EXCEPT ![m][p.id] = "running"],
             peer' = [peer EXCEPT ![m][p.id] = p.from],
             accepted' = [accepted EXCEPT ![m][p.id] = IF @ < AcceptCap THEN @ + 1 ELSE @],
             chan' \in Sent(ch, m, p.id, "ACK", p.from)
      PROVE  Sync(o, d, y)'
  <2>1. Becomes(m, p.id, "running")
    BY <1>1, <1>5, <1>9 DEF Becomes
  <2>2. \A x \in Mgr, z \in Id :
          peer'[x][z] = IF x = m /\ z = p.id THEN p.from ELSE peer[x][z]
    BY <1>1, <1>5, <1>9
  <2>3. /\ accepted'[m][p.id] > 0
        /\ \A x \in Mgr : y # p.id => accepted'[x][y] = accepted[x][y]
    <3>1. accepted[m][p.id] \in 0 .. 2
      BY <1>1, <1>5
    <3>2. /\ accepted'[m][p.id] = IF accepted[m][p.id] < 2 THEN accepted[m][p.id] + 1
                                  ELSE accepted[m][p.id]
          /\ \A x \in Mgr, z \in Id : z # p.id => accepted'[x][z] = accepted[x][z]
      BY <1>1, <1>5, <1>9 DEF AcceptCap
    <3>3. accepted'[m][p.id] > 0
      BY <3>1, <3>2
    <3> QED  BY <3>2, <3>3
  <2>4. p.from = owner[p.id] /\ p.from # m
    BY <1>5, <1>9 DEF AInv, OInv, IInv, PacketsGenuine
  <2>5. d = peer[o][y] /\ Sync(o, d, y)
    BY <1>7, <2>2, <2>4 DEF AInv
  <2> DEFINE e == [cmd |-> "ACK", id |-> p.id, from |-> m]
  <2>6. e \in Packet /\ e.id = p.id /\ e.cmd = "ACK"
    BY <1>1, <1>5 DEF Packet
  <2>7. chan' = [ch EXCEPT ![p.from] = Append(@, e)]
    BY <1>9, ReliablySent
  <2> HIDE DEF e
  <2>8. /\ \A x \in Mgr, cmd \in Cmd :
             Holds(chan', x, y, cmd) <=> Holds(ch, x, y, cmd) \/ (x = p.from /\ IsOf(e, y, cmd))
        /\ \A x \in Mgr : Followed(ch, x, y) /\ ~(x = p.from /\ IsOf(e, y, "OPEN"))
                             => Followed(chan', x, y)
    <3>1. Adds(ch, chan', p.from, e, y)
      BY <1>5, <2>6, <2>7, HoldsAppend
    <3> QED  BY <3>1 DEF Adds
  <2>9. /\ \A x \in Mgr, cmd \in Telling :
             Holds(chan', x, y, cmd) <=>
                 Holds(ch, x, y, cmd) \/ (y = p.id /\ x = p.from /\ cmd = "ACK")
        /\ \A x \in Mgr : Followed(ch, x, y) => Followed(chan', x, y)
    BY <2>6, <2>8 DEF IsOf, Telling, Cmd
  <2>10. CASE y = p.id
    <3>1. Fresh(y)'
      <4>1. (\A id \in Id : Fresh(id))'
        BY FreshIds, PTL
      <4> QED  BY <4>1
    <3>2. o = p.from /\ peer'[m][y] = o /\ accepted'[m][y] > 0
      BY <1>1, <1>5, <1>7, <2>2, <2>3, <2>4, <2>10
    <3>3. \A x \in Mgr, cmd \in Telling :
            Holds(chan', x, y, cmd) <=> Holds(ch, x, y, cmd) \/ (x = o /\ cmd = "ACK")
      BY <2>9, <2>10, <3>2
    <3> QED  BY <1>5, <1>6, <1>7, <1>9, <2>1, <2>5, <2>9, <2>10, <3>1, <3>2, <3>3, SyncAccepts
  <2>11. CASE y # p.id
    <3>1. \A x \in Mgr : /\ st'[x][y] = st[x][y] /\ peer'[x][y] = peer[x][y]
                         /\ accepted'[x][y] = accepted[x][y]
      BY <2>1, <2>2, <2>3, <2>11 DEF Becomes
    <3>2. /\ \A x \in Mgr, cmd \in Telling : Holds(chan', x, y, cmd) <=> Holds(chan, x, y, cmd)
          /\ \A x \in Mgr : Followed(chan, x, y) => Followed(chan', x, y)
      BY <1>6, <2>9, <2>11
    <3> QED  BY <1>7, <2>5, <3>1, <3>2, SyncKept
  <2> QED  BY <2>10, <2>11
<1>10. st = [st EXCEPT ![m][p.id] = st[m][p.id]]
  BY <1>1, <1>5
<1>11. CASE Accept(m, p, ch)
  BY <1>2, <1>9, <1>11 DEF Accept, SetState
<1>12. CASE Ignore(m, p, ch) /\ st[m][p.id] = "absent"
  <2>1. chan' = ch /\ UNCHANGED <<st, peer, accepted>>
    BY <1>12 DEF Ignore
  <2> QED  BY <1>8, <1>10, <1>12, <2>1
<1>13. CASE HandleData(m, p, ch) \/ HandleOpen(m, p, ch)
  <2>1. chan' = ch /\ p.cmd \in {"DATA", "OPEN"} /\ UNCHANGED <<st, peer, accepted>>
    BY <1>13 DEF HandleData, HandleOpen
  <2> QED  BY <1>8, <1>10, <2>1
<1>14. CASE HandleAck(m, p, ch)
  <2>1. chan' = ch /\ p.cmd = "ACK" /\ UNCHANGED <<peer, accepted>>
    BY <1>14 DEF HandleAck
  <2>2. CASE st[m][p.id] = "opening"
    BY <1>8, <1>14, <2>1, <2>2 DEF HandleAck, SetState
  <2>3. CASE st[m][p.id] # "opening"
    <3>1. st' = st
      BY <1>14, <2>3 DEF HandleAck
    <3> QED  BY <1>8, <1>10, <2>1, <2>3, <3>1
  <2> QED  BY <2>2, <2>3
<1>15. CASE HandleClose(m, p, ch)
  <2>1. chan' = ch /\ p.cmd = "CLOSE" /\ UNCHANGED <<peer, accepted>>
    BY <1>15 DEF HandleClose
  <2>2. CASE st[m][p.id] = "unknown" /\ st' = st
    BY <1>8, <1>10, <2>1, <2>2
  <2>3. CASE st' = [st EXCEPT ![m][p.id] = "absent"]
    BY <1>8, <2>1, <2>3
  <2> QED  BY <1>2, <1>15, <2>2, <2>3 DEF HandleClose, SetState
<1>16. CASE st[m][p.id] = "freed" /\ chan' = ch /\ UNCHANGED <<st, peer, accepted, abandoned>>
  BY <1>8, <1>10, <1>16
<1> QED  BY <1>4, <1>11, <1>12, <1>13, <1>14, <1>15, <1>16 DEF Handle

\* Every step of managers on a reliable network keeps the invariant.
LEMMA NextAInv == ASSUME Reliable, AInv, [Next]_vars PROVE AInv'
<1>1. OInv'
  <2>1. "dup" \notin Env
    BY DEF Reliable
  <2> QED  BY <2>1, NextOInv DEF AInv
<1>2. owner' \in [Id -> Mgr \cup {None}] /\ peer' \in [Mgr -> [Id -> Mgr]]
  BY <1>1 DEF OInv, IInv, TypeOK
<1> SUFFICES ASSUME NEW y \in Id, NEW o \in Mgr, NEW d \in Mgr, o = owner'[y], d = peer'[o][y]
             PROVE  Sync(o, d, y)'
  BY <1>1, <1>2 DEF AInv
<1>3. ASSUME UNCHANGED <<st, peer, chan, owner, accepted, abandoned>>
      PROVE  Sync(o, d, y)'
  <2>1. Sync(o, d, y)
    BY <1>3, TubeManagerAssumption DEF AInv
  <2> QED  BY <1>3, <2>1 DEF Sync, Holds, Followed
<1>4. CASE UNCHANGED vars
  BY <1>3, <1>4 DEF vars
<1>5. ASSUME NEW m \in Mgr, NEW id \in Id, NEW dest \in Mgr, OpenTube(m, id, dest)
      PROVE  Sync(o, d, y)'
  BY <1>5, OpenTubeSync
<1>6. ASSUME NEW m \in Mgr, NEW id \in Id,
             \/ TubeData(m, id) \/ TubeClose(m, id)
             \/ TubeManagerRemove(m, id) \/ FinalizeTube(m, id)
      PROVE  Sync(o, d, y)'
  BY <1>6, CallSync
<1>7. ASSUME NEW m \in Mgr, Receive(m)
      PROVE  Sync(o, d, y)'
  BY <1>1, <1>7, ReceiveSync
<1>8. ASSUME NEW m \in Mgr,
             \/ SetPolicyResponder(m) \/ Stop(m) \/ Finalize(m) \/ FinalizeEnd(m)
             \/ LoopStart(m) \/ LoopExit(m)
      PROVE  Sync(o, d, y)'
  BY <1>3, <1>8 DEF SetPolicyResponder, Stop, Finalize, FinalizeEnd, LoopStart, LoopExit
<1>9. ~ \E m \in Mgr : Lose(m) \/ LoopFails(m)
  BY DEF Reliable, Lose, LoopFails
<1>10. CASE Next
  BY <1>5, <1>6, <1>7, <1>8, <1>9, <1>10 DEF Next
<1> QED  BY <1>4, <1>10

\* Nothing is on its way: what one end knows the other knows.
LEMMA QuietAgrees == AInv => Agreement
<1> SUFFICES ASSUME AInv, Quiet, NEW m \in Mgr, NEW id \in Id, st[m][id] = "running",
                    id \notin abandoned
             PROVE  st[peer[m][id]][id] = "running"
  BY DEF Agreement
<1>1. /\ peer \in [Mgr -> [Id -> Mgr]] /\ owner \in [Id -> Mgr \cup {None}]
  BY DEF AInv, OInv, IInv, TypeOK
<1>2. owner[id] # None
  <2>1. owner[id] = m \/ owner[id] = peer[m][id]
    BY DEF AInv, OInv, IInv, Provenance
  <2> QED  BY <1>1, <2>1, TubeManagerAssumption
<1>3. PICK o \in Mgr, d \in Mgr : o = owner[id] /\ d = peer[o][id] /\ Sync(o, d, id)
  <2>1. owner[id] \in Mgr /\ peer[owner[id]][id] \in Mgr
    BY <1>1, <1>2
  <2> QED  BY <1>2, <2>1 DEF AInv
<1>4. \A x \in Mgr, cmd \in Telling : ~Holds(chan, x, id, cmd)
  BY DEF Quiet, Holds
<1>5. "ACK" \in Telling /\ "CLOSE" \in Telling
  BY DEF Telling
<1> QED  BY <1>3, <1>4, <1>5 DEF Sync

\* Over a network that delivers everything in order, and with no failing
\* send or allocation, any number of managers with any number of tubes agree
\* whenever no packet is on its way: an end that is RUNNING has its peer
\* RUNNING, unless the opener removed the tube while OPENING.
THEOREM EndsAgree == ASSUME Env \subseteq {"policy", "stop"} PROVE Spec => []Agreement
<1>1. Init => AInv
  BY InitOInv DEF Init, AInv
<1>2. AInv /\ [Next]_vars => AInv'
  BY NextAInv DEF Reliable
<1> QED  BY <1>1, <1>2, QuietAgrees, PTL DEF Spec

------------------------------------------------------------------------------
(***************************************************************************)
(* TubeManager implements TubeSession, for every set of managers, IDs and  *)
(* faults.  The steps rest on the invariant IInv.                          *)
(***************************************************************************)

\* Managers that have just been created and opened nothing.
LEMMA SessionInit == Init => Session!SInit
  BY DEF Init, Session!SInit, ClientPhase, ServerSeen

\* A step that opens and accepts nothing and moves no opener is a stutter.
LEMMA SessionKept ==
    ASSUME accepted' = accepted,
           \A x \in Id : ClientPhase(x)' = ClientPhase(x)
    PROVE  UNCHANGED Session!svars
<1>1. ServerSeen' = ServerSeen
  BY DEF ServerSeen
<1>2. [x \in Id |-> ClientPhase(x)]' = [x \in Id |-> ClientPhase(x)]
  OBVIOUS
<1> QED  BY <1>1, <1>2 DEF Session!svars

\* One entry of one table changes: only the opener of that ID can move.
LEMMA OneTube ==
    ASSUME IInv, NEW m \in Mgr, NEW y \in Id, NEW s \in TubeState,
           st' = [st EXCEPT ![m][y] = s], owner' = owner
    PROVE  \A x \in Id :
            ClientPhase(x)' = IF x = y /\ owner[y] = m
                              THEN IF s \in {"opening", "running"} THEN s ELSE "over"
                              ELSE ClientPhase(x)
<1>1. st \in [Mgr -> [Id -> TubeState]] /\ owner \in [Id -> Mgr \cup {None}]
  BY DEF IInv, TypeOK
<1>2. \A a \in Mgr, x \in Id : st'[a][x] = IF a = m /\ x = y THEN s ELSE st[a][x]
  BY <1>1
<1>3. TAKE x \in Id
<1>4. CASE owner[x] = None
  BY <1>1, <1>4, TubeManagerAssumption DEF ClientPhase
<1>5. CASE owner[x] \in Mgr
  <2>1. owner[x] # None
    BY <1>5, TubeManagerAssumption
  <2>2. ClientPhase(x)' = IF st'[owner[x]][x] \in {"opening", "running"}
                          THEN st'[owner[x]][x] ELSE "over"
    BY <2>1 DEF ClientPhase
  <2>3. ClientPhase(x) = IF st[owner[x]][x] \in {"opening", "running"}
                         THEN st[owner[x]][x] ELSE "over"
    BY <2>1 DEF ClientPhase
  <2>4. CASE x = y /\ owner[y] = m
    BY <1>2, <2>2, <2>4
  <2>5. CASE ~(x = y /\ owner[y] = m)
    <3>1. st'[owner[x]][x] = st[owner[x]][x]
      BY <1>2, <1>5, <2>5
    <3> QED  BY <2>2, <2>3, <2>5, <3>1
  <2> QED  BY <2>4, <2>5
<1> QED  BY <1>1, <1>4, <1>5

\* What the step of one opener does to the function of all of them.
LEMMA ClientMoves ==
    ASSUME NEW y \in Id, NEW v, ClientPhase(y)' = v,
           \A x \in Id : x # y => ClientPhase(x)' = ClientPhase(x)
    PROVE  [x \in Id |-> ClientPhase(x)]'
                = [[x \in Id |-> ClientPhase(x)] EXCEPT ![y] = v]
  OBVIOUS

\* A tube that is closed, removed or lost to an error.
LEMMA FinishStep ==
    ASSUME IInv, NEW m \in Mgr, NEW y \in Id, NEW s \in {"absent", "unknown", "freed"},
           st' = [st EXCEPT ![m][y] = s], UNCHANGED <<owner, accepted>>
    PROVE  [Session!SNext]_(Session!svars)
<1>1. s \in TubeState /\ s \notin {"opening", "running"}
  BY DEF TubeState
<1>2. \A x \in Id :
        ClientPhase(x)' = IF x = y /\ owner[y] = m THEN "over" ELSE ClientPhase(x)
  BY <1>1, OneTube
<1>3. CASE owner[y] = m
  <2>1. [x \in Id |-> ClientPhase(x)]'
            = [[x \in Id |-> ClientPhase(x)] EXCEPT ![y] = "over"]
    BY <1>2, <1>3, ClientMoves
  <2>2. ServerSeen' = ServerSeen
    BY DEF ServerSeen
  <2>3. Session!Finish(y)
    BY <2>1, <2>2 DEF Session!Finish
  <2> QED  BY <2>3 DEF Session!SNext
<1>4. CASE owner[y] # m
  BY <1>2, <1>4, SessionKept
<1> QED  BY <1>3, <1>4

\* tube_manager_open_tube: the request, or its failure.
LEMMA OpenTubeSession ==
    ASSUME IInv, NEW m \in Mgr, NEW y \in Id, NEW dest \in Mgr, OpenTube(m, y, dest)
    PROVE  [Session!SNext]_(Session!svars)
<1>1. st \in [Mgr -> [Id -> TubeState]] /\ owner \in [Id -> Mgr \cup {None}]
  BY DEF IInv, TypeOK
<1>2. /\ owner[y] = None /\ owner' = [owner EXCEPT ![y] = m] /\ accepted' = accepted
      /\ \E s \in {"opening", "absent", "freed"} : st' = [st EXCEPT ![m][y] = s]
  BY DEF OpenTube, SetState
<1>3. PICK s \in {"opening", "absent", "freed"} : st' = [st EXCEPT ![m][y] = s]
  BY <1>2
<1>4. m # None
  BY TubeManagerAssumption
<1>5. owner'[y] = m /\ \A x \in Id : x # y => owner'[x] = owner[x]
  BY <1>1, <1>2
<1>6. st'[m][y] = s /\ \A a \in Mgr, x \in Id : x # y => st'[a][x] = st[a][x]
  BY <1>1, <1>3
<1>7. ClientPhase(y) = "idle"
      /\ ClientPhase(y)' = IF s = "opening" THEN "opening" ELSE "over"
  BY <1>2, <1>4, <1>5, <1>6 DEF ClientPhase
<1>8. ASSUME NEW x \in Id, x # y PROVE ClientPhase(x)' = ClientPhase(x)
  <2>1. owner'[x] = owner[x]
    BY <1>5, <1>8
  <2>2. CASE owner[x] = None
    BY <2>1, <2>2 DEF ClientPhase
  <2>3. CASE owner[x] \in Mgr
    BY <1>6, <1>8, <2>1, <2>3 DEF ClientPhase
  <2> QED  BY <1>1, <2>2, <2>3
<1>9. ServerSeen' = ServerSeen
  BY <1>2 DEF ServerSeen
<1>10. CASE s = "opening"
  <2>1. [x \in Id |-> ClientPhase(x)]'
            = [[x \in Id |-> ClientPhase(x)] EXCEPT ![y] = "opening"]
    BY <1>7, <1>8, <1>10, ClientMoves
  <2>2. Session!Request(y)
    BY <1>7, <1>9, <2>1 DEF Session!Request
  <2> QED  BY <2>2 DEF Session!SNext
<1>11. CASE s # "opening"
  <2>1. [x \in Id |-> ClientPhase(x)]'
            = [[x \in Id |-> ClientPhase(x)] EXCEPT ![y] = "over"]
    BY <1>7, <1>8, <1>11, ClientMoves
  <2>2. Session!Finish(y)
    BY <1>9, <2>1 DEF Session!Finish
  <2> QED  BY <2>2 DEF Session!SNext
<1> QED  BY <1>10, <1>11

\* The loop and one packet: an OPEN accepted, an ACK that establishes, a
\* CLOSE, or nothing an opener can see.
LEMMA HandleSession ==
    ASSUME IInv, NEW m \in Mgr, NEW p \in Packet, p \in Range(chan[m]), NEW ch,
           Handle(m, p, ch), owner' = owner
    PROVE  [Session!SNext]_(Session!svars)
<1>1. /\ st \in [Mgr -> [Id -> TubeState]] /\ owner \in [Id -> Mgr \cup {None}]
      /\ accepted \in [Mgr -> [Id -> 0 .. 2]]
  BY DEF IInv, TypeOK, AcceptCap
<1>2. p.id \in Id /\ p.from \in Mgr
  BY DEF Packet
<1>3. ASSUME UNCHANGED <<st, accepted>>
      PROVE  [Session!SNext]_(Session!svars)
  <2>1. \A x \in Id : ClientPhase(x)' = ClientPhase(x)
    BY <1>3 DEF ClientPhase
  <2> QED  BY <1>3, <2>1, SessionKept
<1>4. CASE Accept(m, p, ch)
  <2>1. owner[p.id] = p.from /\ p.from # m
    BY <1>4 DEF Accept, IInv, PacketsGenuine
  <2>2. ASSUME NEW s \in {"running", "unknown"}, st' = [st EXCEPT ![m][p.id] = s]
        PROVE  \A x \in Id : ClientPhase(x)' = ClientPhase(x)
    <3>1. s \in TubeState
      BY DEF TubeState
    <3> QED  BY <1>2, <2>1, <2>2, <3>1, OneTube
  <2>3. CASE /\ st' = [st EXCEPT ![m][p.id] = "running"]
             /\ accepted' = [accepted EXCEPT ![m][p.id] =
                                IF @ < AcceptCap THEN @ + 1 ELSE @]
    <3>1. \A a \in Mgr, x \in Id :
            accepted'[a][x] > 0 <=> accepted[a][x] > 0 \/ (a = m /\ x = p.id)
      <4>1. accepted[m][p.id] \in 0 .. 2
        BY <1>1, <1>2
      <4>2. (IF accepted[m][p.id] < 2 THEN accepted[m][p.id] + 1
                                      ELSE accepted[m][p.id]) > 0
        BY <4>1
      <4> QED  BY <1>1, <1>2, <2>3, <4>2 DEF AcceptCap
    <3>2. ServerSeen' = ServerSeen \cup {p.id}
      BY <1>2, <3>1 DEF ServerSeen
    <3>3. [x \in Id |-> ClientPhase(x)]' = [x \in Id |-> ClientPhase(x)]
      BY <2>2, <2>3
    <3>4. ClientPhase(p.id) # "idle"
      BY <1>2, <2>1, TubeManagerAssumption DEF ClientPhase
    <3>5. Session!Accept(p.id)
      BY <1>2, <3>2, <3>3, <3>4 DEF Session!Accept
    <3> QED  BY <1>2, <3>5 DEF Session!SNext
  <2>4. CASE st' = [st EXCEPT ![m][p.id] = "unknown"] /\ accepted' = accepted
    BY <2>2, <2>4, SessionKept
  <2>5. CASE UNCHANGED <<st, accepted>>
    BY <1>3, <2>5
  <2> QED  BY <1>4, <2>3, <2>4, <2>5 DEF Accept, SetState
<1>5. CASE HandleAck(m, p, ch)
  <2>1. CASE st[m][p.id] = "opening" /\ st' = [st EXCEPT ![m][p.id] = "running"]
    <3>1. owner[p.id] = m
      BY <1>2, <2>1 DEF IInv, Provenance
    <3>2. accepted[p.from][p.id] > 0
      BY <1>5 DEF HandleAck, IInv, PacketsGenuine
    <3>3. \A x \in Id :
            ClientPhase(x)' = IF x = p.id THEN "running" ELSE ClientPhase(x)
      <4>1. "running" \in TubeState
        BY DEF TubeState
      <4>2. \A x \in Id :
              ClientPhase(x)' = IF x = p.id /\ owner[p.id] = m
                                THEN IF "running" \in {"opening", "running"}
                                     THEN "running" ELSE "over"
                                ELSE ClientPhase(x)
        BY <1>2, <2>1, <4>1, OneTube
      <4> QED  BY <3>1, <4>2
    <3>4. [x \in Id |-> ClientPhase(x)]'
            = [[x \in Id |-> ClientPhase(x)] EXCEPT ![p.id] = "running"]
      BY <1>2, <3>3, ClientMoves
    <3>5. ServerSeen' = ServerSeen /\ p.id \in ServerSeen
      BY <1>2, <1>5, <3>2 DEF HandleAck, ServerSeen
    <3>6. ClientPhase(p.id) = "opening"
      BY <2>1, <3>1, TubeManagerAssumption DEF ClientPhase
    <3>7. Session!Establish(p.id)
      BY <1>2, <3>4, <3>5, <3>6 DEF Session!Establish
    <3> QED  BY <1>2, <3>7 DEF Session!SNext
  <2>2. CASE st' = st
    BY <1>3, <1>5, <2>2 DEF HandleAck
  <2> QED  BY <1>5, <2>1, <2>2 DEF HandleAck, SetState
<1>6. CASE HandleClose(m, p, ch)
  <2>1. accepted' = accepted
        /\ (st' = st \/ \E s \in {"absent", "unknown"} : st' = [st EXCEPT ![m][p.id] = s])
    BY <1>6 DEF HandleClose, SetState
  <2> QED  BY <1>2, <1>3, <2>1, FinishStep
<1>7. CASE Ignore(m, p, ch) \/ HandleData(m, p, ch) \/ HandleOpen(m, p, ch)
  BY <1>3, <1>7 DEF Ignore, HandleData, HandleOpen
<1> QED  BY <1>3, <1>4, <1>5, <1>6, <1>7 DEF Handle

\* Every step of the managers is a step of the abstract session, or none.
LEMMA SessionStep == IInv /\ [Next]_vars => [Session!SNext]_(Session!svars)
<1> SUFFICES ASSUME IInv, [Next]_vars PROVE [Session!SNext]_(Session!svars)
  OBVIOUS
<1>1. ASSUME UNCHANGED <<st, owner, accepted>>
      PROVE  [Session!SNext]_(Session!svars)
  <2>1. \A x \in Id : ClientPhase(x)' = ClientPhase(x)
    BY <1>1 DEF ClientPhase
  <2> QED  BY <1>1, <2>1, SessionKept
<1>2. CASE UNCHANGED vars
  BY <1>1, <1>2 DEF vars
<1>3. ASSUME NEW m \in Mgr, NEW y \in Id, NEW dest \in Mgr, OpenTube(m, y, dest)
      PROVE  [Session!SNext]_(Session!svars)
  BY <1>3, OpenTubeSession
<1>4. ASSUME NEW m \in Mgr, NEW y \in Id, TubeClose(m, y)
      PROVE  [Session!SNext]_(Session!svars)
  BY <1>4, FinishStep DEF TubeClose, SetState
<1>5. ASSUME NEW m \in Mgr, NEW y \in Id, TubeManagerRemove(m, y) \/ FinalizeTube(m, y)
      PROVE  [Session!SNext]_(Session!svars)
  <2>1. UNCHANGED <<owner, accepted>>
        /\ (st' = st \/ st' = [st EXCEPT ![m][y] = "absent"])
    BY <1>5 DEF TubeManagerRemove, FinalizeTube, CleanTube, SetState
  <2> QED  BY <1>1, <2>1, FinishStep
<1>6. ASSUME NEW m \in Mgr, Receive(m)
      PROVE  [Session!SNext]_(Session!svars)
  <2>1. PICK i \in DOMAIN chan[m] : \E ch : Handle(m, chan[m][i], ch)
    BY <1>6 DEF Receive
  <2>2. PICK ch : Handle(m, chan[m][i], ch)
    BY <2>1
  <2>3. chan[m][i] \in Packet /\ chan[m][i] \in Range(chan[m])
    BY ReceivedLeaves DEF IInv, TypeOK, Chans
  <2>4. owner' = owner
    BY <1>6 DEF Receive
  <2> QED  BY <2>2, <2>3, <2>4, HandleSession
<1>7. ASSUME NEW m \in Mgr, NEW y \in Id, TubeData(m, y)
      PROVE  [Session!SNext]_(Session!svars)
  BY <1>1, <1>7 DEF TubeData
<1>8. ASSUME NEW m \in Mgr,
             \/ SetPolicyResponder(m) \/ Stop(m) \/ Finalize(m) \/ FinalizeEnd(m)
             \/ LoopStart(m) \/ LoopExit(m) \/ LoopFails(m) \/ Lose(m)
      PROVE  [Session!SNext]_(Session!svars)
  BY <1>1, <1>8 DEF SetPolicyResponder, Stop, Finalize, FinalizeEnd, LoopStart, LoopExit,
                    LoopFails, Lose
<1>9. CASE Next
  BY <1>3, <1>4, <1>5, <1>6, <1>7, <1>8, <1>9 DEF Next
<1> QED  BY <1>2, <1>9

\* The managers implement the abstract session: whatever the network and the
\* allocator do, the opener of a tube is RUNNING only after the other end
\* accepted, moves through its states once and in order, and is accepted only
\* after it asked.
THEOREM Implementation == Spec => Refinement
<1>1. Spec => []IInv
  BY InitIInv, NextIInv, PTL DEF Spec
<1>2. Init => Session!SInit
  BY SessionInit
<1>3. IInv /\ [Next]_vars => [Session!SNext]_(Session!svars)
  BY SessionStep
<1> QED  BY <1>1, <1>2, <1>3, PTL DEF Spec, Refinement, Session!Spec
------------------------------------------------------------------------------
(***************************************************************************)
(* Where a destroyed tube can be used.  NoUseAfterDestroy does not hold of *)
(* the code (a failing tube_manager_open_tube destroys its tube twice, or  *)
(* leaves a destroyed one in the table); these theorems say that this is   *)
(* the only way, and who is exposed to it.                                 *)
(***************************************************************************)

\* A send or an allocation may fail.
MayFail == Env \cap {"sendfail", "alloc"} # {}

\* An ID some manager uses, or could hear of.
Known(id) ==
    \/ \E x \in Mgr : \E p \in Range(chan[x]) : p.id = id
    \/ \E x \in Mgr : st[x][id] \in Usable

\* A destroyed tube that is still in its opener's table never got its OPEN
\* sent: no packet names its ID, and no other manager has it.
FreedUnheardOf ==
    \A m \in Mgr, id \in Id :
        st[m][id] = "freed" =>
            /\ owner[id] = m
            /\ \A x \in Mgr : \A p \in Range(chan[x]) : p.id # id
            /\ \A x \in Mgr \ {m} : st[x][id] = "absent"

\* A program is at risk only after a tube_manager_open_tube of its own, and
\* only where a send or an allocation may fail: answering OPENs, handling
\* packets and taking the tubes down are never the cause.
OnlyOpenersAtRisk ==
    \A m \in Mgr :
        phase[m] = "undefined" \/ (\E id \in Id : st[m][id] = "freed") =>
            MayFail /\ \E id \in Id : owner[id] = m

\* The step in which a program uses a destroyed tube is a tube_manager_open_tube
\* that fails, or tube_manager_destroy taking down what one left behind.
\* No handler of tube_manager_loop is such a step, whatever packet comes.
HandlersNeverFault ==
    [][\A m \in Mgr :
        phase[m] # "undefined" /\ phase'[m] = "undefined" =>
            phase[m] = "finalizing" \/ \E id \in Id : owner[id] = None /\ owner'[id] = m]_vars

RInv == IInv /\ FreedUnheardOf /\ OnlyOpenersAtRisk

\* A freed tube's ID is not known.
LEMMA FreedNotKnown ==
    ASSUME FreedUnheardOf, NEW m \in Mgr, NEW id \in Id, Known(id)
    PROVE  st[m][id] # "freed"
<1> SUFFICES ASSUME st[m][id] = "freed" PROVE FALSE
  OBVIOUS
<1>1. /\ \A x \in Mgr : \A p \in Range(chan[x]) : p.id # id
      /\ \A x \in Mgr \ {m} : st[x][id] = "absent"
  BY DEF FreedUnheardOf
<1>2. \A x \in Mgr : st[x][id] \notin Usable
  BY <1>1 DEF Usable
<1> QED  BY <1>1, <1>2 DEF Known

\* A step that opens nothing, names only known IDs in packets, and changes the
\* tubes of known IDs only.
LEMMA KnownStep ==
    ASSUME FreedUnheardOf, OnlyOpenersAtRisk, owner' = owner,
           \A x \in Mgr : \A p \in Range(chan'[x]) : Known(p.id),
           \A x \in Mgr, id \in Id :
                st'[x][id] = st[x][id] \/ (Known(id) /\ st'[x][id] # "freed"),
           \A m \in Mgr : phase'[m] = "undefined" =>
                phase[m] = "undefined" \/ \E id \in Id : st[m][id] = "freed"
    PROVE  FreedUnheardOf' /\ OnlyOpenersAtRisk'
<1>1. ASSUME NEW m \in Mgr, NEW id \in Id, st'[m][id] = "freed"
      PROVE  st[m][id] = "freed" /\ ~Known(id)
  BY <1>1, FreedNotKnown
<1>2. FreedUnheardOf'
  <2> SUFFICES ASSUME NEW m \in Mgr, NEW id \in Id, st'[m][id] = "freed"
               PROVE  /\ owner'[id] = m
                      /\ \A x \in Mgr : \A p \in Range(chan'[x]) : p.id # id
                      /\ \A x \in Mgr \ {m} : st'[x][id] = "absent"
    BY DEF FreedUnheardOf
  <2>1. st[m][id] = "freed" /\ ~Known(id)
    BY <1>1
  <2>2. owner[id] = m /\ \A x \in Mgr \ {m} : st[x][id] = "absent"
    BY <2>1 DEF FreedUnheardOf
  <2> QED  BY <2>1, <2>2
<1>3. OnlyOpenersAtRisk'
  BY <1>1 DEF OnlyOpenersAtRisk, MayFail
<1> QED  BY <1>2, <1>3

\* An ID that nobody has opened is not known.
LEMMA UnopenedUnknown ==
    ASSUME IInv, NEW id \in Id, owner[id] = None
    PROVE  /\ \A x \in Mgr : \A p \in Range(chan[x]) : p.id # id
           /\ \A x \in Mgr : st[x][id] = "absent"
<1>1. \A x \in Mgr : \A p \in Range(chan[x]) : p.id # id
  BY DEF IInv, PacketsGenuine
<1>2. ASSUME NEW x \in Mgr
      PROVE  st[x][id] = "absent"
  <2>1. peer[x][id] \in Mgr /\ None \notin Mgr
    BY TubeManagerAssumption DEF IInv, TypeOK
  <2>2. st[x][id] # "absent" => owner[id] \in {x, peer[x][id]}
    BY DEF IInv, Provenance
  <2> QED  BY <2>1, <2>2
<1> QED  BY <1>1, <1>2

\* tube_manager_open_tube, failing or not.
LEMMA OpenTubeRisk ==
    ASSUME RInv, NEW m \in Mgr, NEW id \in Id, NEW dest \in Mgr, OpenTube(m, id, dest)
    PROVE  FreedUnheardOf' /\ OnlyOpenersAtRisk'
<1> DEFINE e == [cmd |-> "OPEN", id |-> id, from |-> m]
<1>1. /\ owner[id] = None /\ owner' = [owner EXCEPT ![id] = m]
      /\ \/ /\ st' = [st EXCEPT ![m][id] = "opening"]
            /\ chan' = [chan EXCEPT ![dest] = Append(@, e)]
            /\ phase' = phase
         \/ /\ MayFail /\ st' = [st EXCEPT ![m][id] = "freed"] /\ chan' = chan /\ phase' = phase
         \/ /\ MayFail /\ st' = [st EXCEPT ![m][id] = "absent"] /\ chan' = chan
            /\ phase' = [phase EXCEPT ![m] = "undefined"]
  BY DEF OpenTube, SetState, UB, MayFail
<1>2. /\ st \in [Mgr -> [Id -> TubeState]] /\ phase \in [Mgr -> Phase]
      /\ owner \in [Id -> Mgr \cup {None}] /\ chan \in Chans /\ e \in Packet
      /\ None \notin Mgr
  BY TubeManagerAssumption DEF RInv, IInv, TypeOK, Chans, Packet, Cmd
<1>3. /\ \A x \in Mgr : \A p \in Range(chan[x]) : p.id # id
      /\ \A x \in Mgr : st[x][id] = "absent"
  BY <1>1, UnopenedUnknown DEF RInv
<1>4. /\ owner'[id] = m /\ \A y \in Id \ {id} : owner'[y] = owner[y]
      /\ \A x \in Mgr, y \in Id : x # m \/ y # id => st'[x][y] = st[x][y]
      /\ st'[m][id] = "freed" => MayFail
      /\ \A x \in Mgr \ {m} : phase'[x] = phase[x]
      /\ phase'[m] = "undefined" => phase[m] = "undefined" \/ MayFail
  BY <1>1, <1>2
<1>5. \A x \in Mgr : \A p \in Range(chan'[x]) : p \in Range(chan[x]) \/ p.id = id
  <2>1. CASE chan' = chan
    BY <2>1
  <2>2. CASE chan' = [chan EXCEPT ![dest] = Append(@, e)]
    <3>1. Range(Append(chan[dest], e)) = Range(chan[dest]) \cup {e}
      BY <1>2, QueueAppend DEF Chans
    <3>2. chan'[dest] = Append(chan[dest], e) /\ \A x \in Mgr \ {dest} : chan'[x] = chan[x]
      BY <1>2, <2>2 DEF Chans
    <3>3. e.id = id
      OBVIOUS
    <3> HIDE DEF e
    <3> QED  BY <3>1, <3>2, <3>3
  <2> QED  BY <1>1, <2>1, <2>2
<1>6. st'[m][id] = "freed" => chan' = chan
  BY <1>1, <1>2
<1> HIDE DEF e
<1>7. FreedUnheardOf'
  <2> SUFFICES ASSUME NEW x \in Mgr, NEW y \in Id, st'[x][y] = "freed"
               PROVE  /\ owner'[y] = x
                      /\ \A z \in Mgr : \A p \in Range(chan'[z]) : p.id # y
                      /\ \A z \in Mgr \ {x} : st'[z][y] = "absent"
    BY DEF FreedUnheardOf
  <2>1. CASE y = id
    <3>1. x = m
      BY <1>3, <1>4, <2>1
    <3> QED  BY <1>3, <1>4, <1>6, <2>1, <3>1
  <2>2. CASE y # id
    <3>1. st[x][y] = "freed"
      BY <1>4, <2>2
    <3>2. /\ owner[y] = x
          /\ \A z \in Mgr : \A p \in Range(chan[z]) : p.id # y
          /\ \A z \in Mgr \ {x} : st[z][y] = "absent"
      BY <3>1 DEF RInv, FreedUnheardOf
    <3> QED  BY <1>4, <1>5, <2>2, <3>2
  <2> QED  BY <2>1, <2>2
<1>8. OnlyOpenersAtRisk'
  <2> SUFFICES ASSUME NEW x \in Mgr,
                      phase'[x] = "undefined" \/ (\E y \in Id : st'[x][y] = "freed")
               PROVE  MayFail /\ \E y \in Id : owner'[y] = x
    BY DEF OnlyOpenersAtRisk, MayFail
  <2>0. (phase[x] = "undefined" \/ (\E y \in Id : st[x][y] = "freed")) =>
            MayFail /\ \E y \in Id : owner[y] = x
    BY DEF RInv, OnlyOpenersAtRisk
  <2>1. CASE x = m
    BY <1>4, <2>0, <2>1
  <2>2. CASE x # m
    <3>1. MayFail /\ \E y \in Id : owner[y] = x
      BY <1>4, <2>0, <2>2
    <3>2. PICK y \in Id : owner[y] = x
      BY <3>1
    <3>3. y # id
      BY <1>1, <1>2, <3>2
    <3> QED  BY <1>4, <3>1, <3>2, <3>3
  <2> QED  BY <2>1, <2>2
<1> QED  BY <1>7, <1>8

\* tube_data, tube_close, tube_manager_remove and tube_manager_destroy.
LEMMA CallRisk ==
    ASSUME RInv, NEW m \in Mgr, NEW id \in Id,
           TubeData(m, id) \/ TubeClose(m, id) \/ TubeManagerRemove(m, id)
             \/ FinalizeTube(m, id)
    PROVE  /\ FreedUnheardOf' /\ OnlyOpenersAtRisk'
           /\ \A x \in Mgr : phase[x] # "undefined" /\ phase'[x] = "undefined" =>
                phase[x] = "finalizing"
<1>1. /\ st \in [Mgr -> [Id -> TubeState]] /\ phase \in [Mgr -> Phase]
      /\ peer[m][id] \in Mgr /\ chan \in Chans
      /\ FreedUnheardOf /\ OnlyOpenersAtRisk
  BY DEF RInv, IInv, TypeOK, Chans
<1>2. \A x \in Mgr : \A p \in Range(chan[x]) : Known(p.id)
  BY DEF Known
<1>3. CASE FinalizeTube(m, id) /\ st[m][id] = "freed"
  <2>1. /\ phase[m] = "finalizing" /\ phase' = [phase EXCEPT ![m] = "undefined"]
        /\ UNCHANGED <<st, chan, owner>>
    BY <1>3 DEF FinalizeTube, UB, Usable
  <2>2. \A x \in Mgr : phase'[x] = "undefined" => x = m \/ phase[x] = "undefined"
    BY <1>1, <2>1
  <2> QED  BY <1>1, <1>2, <1>3, <2>1, <2>2, KnownStep
<1>4. CASE ~(FinalizeTube(m, id) /\ st[m][id] = "freed")
  <2>1. /\ st[m][id] \in Usable /\ UNCHANGED <<phase, owner>>
        /\ st' = st \/ st' = [st EXCEPT ![m][id] = "unknown"] \/ st' = [st EXCEPT ![m][id] = "absent"]
        /\ \/ chan' = chan
           \/ chan' \in Sent(chan, m, id, "DATA", peer[m][id])
           \/ chan' \in Sent(chan, m, id, "CLOSE", peer[m][id])
    BY <1>4 DEF TubeData, TubeClose, TubeManagerRemove, FinalizeTube, CleanTube, SetState
  <2>2. Known(id)
    BY <2>1 DEF Known
  <2>3. ASSUME NEW cmd \in Cmd, chan' \in Sent(chan, m, id, cmd, peer[m][id])
        PROVE  \A x \in Mgr : \A p \in Range(chan'[x]) : Known(p.id)
    <3>1. \A x \in Mgr : \A p \in Range(chan'[x]) :
            p \in Range(chan[x]) \/ p = [cmd |-> cmd, id |-> id, from |-> m]
      BY <1>1, <2>3, SentAdds
    <3>2. \A p : p = [cmd |-> cmd, id |-> id, from |-> m] => p.id = id
      OBVIOUS
    <3> QED  BY <1>2, <2>2, <3>1, <3>2
  <2>4. \A x \in Mgr : \A p \in Range(chan'[x]) : Known(p.id)
    <3>1. "DATA" \in Cmd /\ "CLOSE" \in Cmd
      BY DEF Cmd
    <3> QED  BY <1>2, <2>1, <2>3, <3>1
  <2>5. \A x \in Mgr, y \in Id : st'[x][y] = st[x][y] \/ (y = id /\ st'[x][y] # "freed")
    BY <1>1, <2>1
  <2> QED  BY <1>1, <2>1, <2>2, <2>4, <2>5, KnownStep
<1> QED  BY <1>3, <1>4

\* The loop and one packet: its ID is known, so that its tube is not a
\* destroyed one.
LEMMA ReceiveRisk ==
    ASSUME RInv, NEW m \in Mgr, Receive(m)
    PROVE  /\ FreedUnheardOf' /\ OnlyOpenersAtRisk'
           /\ \A x \in Mgr : phase'[x] = "undefined" => phase[x] = "undefined"
<1>1. PICK i \in DOMAIN chan[m] : \E ch \in {[chan EXCEPT ![m] = RemoveAt(@, i)], chan} :
          Handle(m, chan[m][i], ch)
  BY DEF Receive
<1> DEFINE p == chan[m][i]
<1>2. PICK ch \in {[chan EXCEPT ![m] = RemoveAt(@, i)], chan} : Handle(m, p, ch)
  BY <1>1
<1>3. /\ st \in [Mgr -> [Id -> TubeState]] /\ phase \in [Mgr -> Phase] /\ chan \in Chans
      /\ FreedUnheardOf /\ OnlyOpenersAtRisk
  BY DEF RInv, IInv, TypeOK, Chans
<1>4. /\ ch \in Chans /\ \A x \in Mgr : Range(ch[x]) \subseteq Range(chan[x])
      /\ p \in Packet /\ p \in Range(chan[m])
  BY <1>2, <1>3, ReceivedLeaves
<1>5. p.id \in Id /\ p.from \in Mgr
  BY <1>4 DEF Packet
<1> HIDE DEF p
<1>6. Known(p.id) /\ st[m][p.id] # "freed"
  BY <1>3, <1>4, <1>5, FreedNotKnown DEF Known
<1>7. \A x \in Mgr : \A q \in Range(ch[x]) : Known(q.id)
  BY <1>4 DEF Known
<1>8. /\ owner' = owner
      /\ \/ chan' = ch
         \/ chan' \in Sent(ch, m, p.id, "ACK", p.from)
      /\ \/ st' = st
         \/ \E s \in {"running", "unknown", "absent"} : st' = [st EXCEPT ![m][p.id] = s]
      /\ \E f \in {"looping", "ended"} : phase' = [phase EXCEPT ![m] = f]
  <2>1. owner' = owner
    BY DEF Receive
  <2>2. CASE Accept(m, p, ch)
    BY <2>1, <2>2 DEF Accept, SetState, LoopNext, LoopError
  <2>3. CASE Ignore(m, p, ch) \/ HandleData(m, p, ch) \/ HandleOpen(m, p, ch)
    BY <2>1, <2>3 DEF Ignore, HandleData, HandleOpen, LoopNext, LoopError
  <2>4. CASE HandleAck(m, p, ch)
    BY <2>1, <2>4 DEF HandleAck, SetState, LoopNext, LoopError
  <2>5. CASE HandleClose(m, p, ch)
    BY <2>1, <2>5 DEF HandleClose, SetState, LoopNext, LoopError
  <2> QED  BY <1>2, <1>6, <2>2, <2>3, <2>4, <2>5 DEF Handle
<1>9. \A x \in Mgr : \A q \in Range(chan'[x]) : Known(q.id)
  <2>1. CASE chan' = ch
    BY <1>7, <2>1
  <2>2. CASE chan' \in Sent(ch, m, p.id, "ACK", p.from)
    <3>1. "ACK" \in Cmd
      BY DEF Cmd
    <3>2. \A x \in Mgr : \A q \in Range(chan'[x]) :
            q \in Range(ch[x]) \/ q = [cmd |-> "ACK", id |-> p.id, from |-> m]
      BY <1>4, <1>5, <2>2, <3>1, SentAdds
    <3>3. \A q : q = [cmd |-> "ACK", id |-> p.id, from |-> m] => q.id = p.id
      OBVIOUS
    <3> QED  BY <1>6, <1>7, <3>2, <3>3
  <2> QED  BY <1>8, <2>1, <2>2
<1>10. \A x \in Mgr, y \in Id : st'[x][y] = st[x][y] \/ (y = p.id /\ st'[x][y] # "freed")
  BY <1>3, <1>5, <1>8
<1>11. \A x \in Mgr : phase'[x] = "undefined" => phase[x] = "undefined"
  BY <1>3, <1>8
<1> QED  BY <1>3, <1>6, <1>8, <1>9, <1>10, <1>11, KnownStep

\* Every step keeps the invariant, and faults only where it may.
LEMMA NextRInv ==
    ASSUME RInv, [Next]_vars
    PROVE  /\ RInv'
           /\ \A m \in Mgr :
                phase[m] # "undefined" /\ phase'[m] = "undefined" =>
                    phase[m] = "finalizing" \/ \E id \in Id : owner[id] = None /\ owner'[id] = m
<1> DEFINE Where == \A m \in Mgr :
                phase[m] # "undefined" /\ phase'[m] = "undefined" =>
                    phase[m] = "finalizing" \/ \E id \in Id : owner[id] = None /\ owner'[id] = m
<1>1. IInv'
  BY NextIInv DEF RInv
<1>2. SUFFICES FreedUnheardOf' /\ OnlyOpenersAtRisk' /\ Where
  BY <1>1, <1>2 DEF RInv
<1>3. phase \in [Mgr -> Phase] /\ chan \in Chans /\ FreedUnheardOf /\ OnlyOpenersAtRisk
  BY DEF RInv, IInv, TypeOK, Chans
<1>4. ASSUME UNCHANGED <<st, owner>>,
             \A x \in Mgr : Range(chan'[x]) \subseteq Range(chan[x]),
             \A x \in Mgr : phase'[x] = "undefined" => phase[x] = "undefined"
      PROVE  FreedUnheardOf' /\ OnlyOpenersAtRisk' /\ Where
  <2>1. \A x \in Mgr : \A p \in Range(chan'[x]) : Known(p.id)
    BY <1>4 DEF Known
  <2> QED  BY <1>3, <1>4, <2>1, KnownStep
<1>5. CASE UNCHANGED vars
  BY <1>4, <1>5 DEF vars
<1>6. ASSUME NEW m \in Mgr, NEW id \in Id, NEW dest \in Mgr, OpenTube(m, id, dest)
      PROVE  FreedUnheardOf' /\ OnlyOpenersAtRisk' /\ Where
  <2>1. /\ owner[id] = None /\ owner' = [owner EXCEPT ![id] = m]
        /\ phase' = phase \/ phase' = [phase EXCEPT ![m] = "undefined"]
    BY <1>6 DEF OpenTube, UB
  <2>2. owner'[id] = m /\ \A x \in Mgr \ {m} : phase'[x] = phase[x]
    BY <1>3, <2>1 DEF RInv, IInv, TypeOK
  <2> QED  BY <1>6, <2>1, <2>2, OpenTubeRisk
<1>7. ASSUME NEW m \in Mgr, NEW id \in Id,
             \/ TubeData(m, id) \/ TubeClose(m, id)
             \/ TubeManagerRemove(m, id) \/ FinalizeTube(m, id)
      PROVE  FreedUnheardOf' /\ OnlyOpenersAtRisk' /\ Where
  BY <1>7, CallRisk
<1>8. ASSUME NEW m \in Mgr, Receive(m)
      PROVE  FreedUnheardOf' /\ OnlyOpenersAtRisk' /\ Where
  BY <1>8, ReceiveRisk
<1>9. ASSUME NEW m \in Mgr, Lose(m) \/ LoopFails(m)
      PROVE  FreedUnheardOf' /\ OnlyOpenersAtRisk' /\ Where
  <2>1. \/ chan' = chan
        \/ \E i \in DOMAIN chan[m] : chan' = [chan EXCEPT ![m] = RemoveAt(chan[m], i)]
    BY <1>9 DEF Lose, LoopFails
  <2>2. \A x \in Mgr : Range(chan'[x]) \subseteq Range(chan[x])
    BY <1>3, <2>1, ReceivedLeaves
  <2>3. /\ UNCHANGED <<st, owner>>
        /\ \A x \in Mgr : phase'[x] = "undefined" => phase[x] = "undefined"
    BY <1>3, <1>9 DEF Lose, LoopFails, LoopError
  <2> QED  BY <1>4, <2>2, <2>3
<1>10. ASSUME NEW m \in Mgr,
              \/ SetPolicyResponder(m) \/ Stop(m) \/ Finalize(m) \/ FinalizeEnd(m)
              \/ LoopStart(m) \/ LoopExit(m)
       PROVE  FreedUnheardOf' /\ OnlyOpenersAtRisk' /\ Where
  <2>1. /\ UNCHANGED <<st, owner, chan>>
        /\ \/ phase' = phase
           \/ \E f \in {"finalizing", "destroyed", "looping", "ended"} :
                phase' = [phase EXCEPT ![m] = f]
    BY <1>10 DEF SetPolicyResponder, Stop, Finalize, FinalizeEnd, LoopStart, LoopExit
  <2>2. \A x \in Mgr : phase'[x] = "undefined" => phase[x] = "undefined"
    BY <1>3, <2>1
  <2> QED  BY <1>4, <2>1, <2>2
<1> HIDE DEF Where
<1>11. CASE Next
  BY <1>6, <1>7, <1>8, <1>9, <1>10, <1>11 DEF Next
<1> QED  BY <1>5, <1>11

LEMMA RiskAlways == Spec => []RInv
<1>1. Init => RInv
  <2> SUFFICES ASSUME Init PROVE RInv
    OBVIOUS
  <2>1. \A m \in Mgr : phase[m] = "ready" /\ \A id \in Id : st[m][id] = "absent"
    BY DEF Init
  <2> QED  BY <2>1, InitIInv DEF RInv, FreedUnheardOf, OnlyOpenersAtRisk
<1>2. RInv /\ [Next]_vars => RInv'
  BY NextRInv
<1> QED  BY <1>1, <1>2, PTL DEF Spec

\* A destroyed tube can be used only in a program that called
\* tube_manager_open_tube, where a send or an allocation failed: a program
\* that only answers OPENs never uses one, under any failure.
THEOREM Responders == Spec => []OnlyOpenersAtRisk
<1>1. RInv => OnlyOpenersAtRisk
  BY DEF RInv
<1> QED  BY <1>1, RiskAlways, PTL

\* Where sends and allocations succeed, no order of API calls, packets, losses,
\* duplicates and reorderings makes the library use a destroyed tube.
THEOREM SafeUnlessFailing ==
    ASSUME Env \cap {"sendfail", "alloc"} = {}
    PROVE  Spec => []NoUseAfterDestroy
<1>1. RInv => NoUseAfterDestroy
  BY DEF RInv, OnlyOpenersAtRisk, MayFail, NoUseAfterDestroy
<1> QED  BY <1>1, RiskAlways, PTL

\* tube_manager_loop never finds a destroyed tube for a packet: only
\* tube_manager_open_tube and tube_manager_destroy use one.
THEOREM Handlers == Spec => HandlersNeverFault
<1>1. RInv /\ [Next]_vars =>
        [\A m \in Mgr :
            phase[m] # "undefined" /\ phase'[m] = "undefined" =>
                phase[m] = "finalizing" \/ \E id \in Id : owner[id] = None /\ owner'[id] = m]_vars
  BY NextRInv
<1> QED  BY <1>1, RiskAlways, PTL DEF Spec, HandlersNeverFault
=============================================================================
