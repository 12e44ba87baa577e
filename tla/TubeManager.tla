---------------------------- MODULE TubeManager ----------------------------
(***************************************************************************)
(* Tube managers (src/src/tube_manager.c, src/src/tube.c) that open, use   *)
(* and close SPUD tubes over UDP.  Each manager is a process of its own;   *)
(* its application calls the API between two packets of its loop (from a   *)
(* timer callback, or before and after tube_manager_loop).                 *)
(*                                                                         *)
(* Payloads are left out: a packet is its command, its tube ID and its     *)
(* sender.  A packet spud_parse refuses changes nothing and is left out.   *)
(***************************************************************************)
EXTENDS Naturals, Sequences, SequencesExt

CONSTANTS
    Mgr,        \* the tube managers
    Id,         \* tube IDs; spud_create_id never returns the same one twice
    None,       \* no manager
    Env,        \* what may go wrong, or be asked for, around the managers
    MaxChan,    \* bound: packets waiting at one manager before an
                \* application stops sending to it
    MaxWaiting  \* bound: packets waiting at one manager before another one
                \* accepts no more of its OPENs

EnvKinds == {"loss", "dup", "reorder",  \* what UDP does to packets
             "sendfail",                \* sendmsg fails
             "alloc",                   \* ls_data_malloc returns NULL
             "loopfail",                \* select, recvmsg, gettimeofday fail
             "policy",                  \* tube_manager_set_policy_responder
             "stop"}                    \* tube_manager_stop and _destroy

ASSUME TubeManagerAssumption ==
    /\ None \notin Mgr
    /\ Env \subseteq EnvKinds
    /\ MaxChan \in Nat /\ MaxWaiting \in Nat

VARIABLES
    phase,      \* phase[m]: where the program that owns m is
    keep_going, \* mgr->keep_going
    policy,     \* policy[m]: TP_WILL_RESPOND is set
    st,         \* st[m][id]: the tube that mgr->tubes holds under id
    peer,       \* peer[m][id]: t->peer of that tube
    chan,       \* chan[m]: packets on their way to m
    owner,      \* history: the manager that opened id
    accepted,   \* history: how often m accepted an OPEN of id (saturates)
    abandoned   \* history: IDs removed by their opener while still OPENING

vars == <<phase, keep_going, policy, st, peer, chan, owner, accepted, abandoned>>

(***************************************************************************)
(* "undefined" is a program that executed undefined behaviour (a freed     *)
(* tube was used or freed again); the model follows it no further.         *)
(***************************************************************************)
Phase == {"ready", "looping", "ended", "finalizing", "destroyed", "undefined"}

(***************************************************************************)
(* "absent": no entry.  "freed": the entry's tube has been destroyed.  The *)
(* others are TS_OPENING, TS_RUNNING and TS_UNKNOWN; no code path sets     *)
(* TS_START or TS_RESUMING.                                                *)
(***************************************************************************)
TubeState == {"absent", "opening", "running", "unknown", "freed"}
Usable == {"opening", "running", "unknown"}

Cmd == {"DATA", "OPEN", "CLOSE", "ACK"}
Packet == [cmd : Cmd, id : Id, from : Mgr]

AcceptCap == 2      \* the history counter accepted stops here

TypeOK ==
    /\ phase \in [Mgr -> Phase]
    /\ keep_going \in [Mgr -> BOOLEAN]
    /\ policy \in [Mgr -> BOOLEAN]
    /\ st \in [Mgr -> [Id -> TubeState]]
    /\ peer \in [Mgr -> [Id -> Mgr]]
    /\ chan \in [Mgr -> Seq(Packet)]
    /\ owner \in [Id -> Mgr \cup {None}]
    /\ accepted \in [Mgr -> [Id -> 0..AcceptCap]]
    /\ abandoned \in SUBSET Id

(***************************************************************************)
(* tube_manager_create and tube_manager_socket have returned; a manager    *)
(* bound to a port of its choice answers OPENs, a client's does not.       *)
(***************************************************************************)
Init ==
    /\ phase = [m \in Mgr |-> "ready"]
    /\ keep_going = [m \in Mgr |-> TRUE]
    /\ policy \in [Mgr -> BOOLEAN]
    /\ st = [m \in Mgr |-> [id \in Id |-> "absent"]]
    /\ peer = [m \in Mgr |-> [id \in Id |-> m]]
    /\ chan = [m \in Mgr |-> <<>>]
    /\ owner = [id \in Id |-> None]
    /\ accepted = [m \in Mgr |-> [id \in Id |-> 0]]
    /\ abandoned = {}

(***************************************************************************)
(* Helpers.                                                                *)
(***************************************************************************)

\* The program that owns m can call the library.
Alive(m) == phase[m] \in {"ready", "looping", "ended"}

SetState(m, id, s) == st' = [st EXCEPT ![m][id] = s]

\* tube_send: ch with the packet added, or ch itself when the send fails.
Sent(ch, m, id, cmd, to) ==
    {[ch EXCEPT ![to] = Append(@, [cmd |-> cmd, id |-> id, from |-> m])]}
        \cup (IF Env \cap {"sendfail", "alloc"} # {} THEN {ch} ELSE {})

\* Room for one more packet of an application's own sending.
Room(to) == Len(chan[to]) < MaxChan

UB(m) == phase' = [phase EXCEPT ![m] = "undefined"]

\* tube_manager_loop returns false.
LoopError(m) == phase' = [phase EXCEPT ![m] = "ended"]

\* The packet is done with: back to "while (mgr->keep_going)".
LoopNext(m) ==
    phase' = [phase EXCEPT ![m] = IF keep_going[m] THEN "looping" ELSE "ended"]

------------------------------------------------------------------------------
(***************************************************************************)
(* The application's calls.                                                *)
(***************************************************************************)

\* Mutant of OpenTube: tube_set_info is forgotten, t->peer is never set.
OpenTubeNoPeer(m, id, dest) ==
    /\ Alive(m)
    /\ dest # m
    /\ owner[id] = None
    /\ Room(dest)
    /\ owner' = [owner EXCEPT ![id] = m]
    /\ peer' = [peer EXCEPT ![m][id] = None]
    /\ SetState(m, id, "opening")
    /\ chan' = [chan EXCEPT ![dest] =
                    Append(@, [cmd |-> "OPEN", id |-> id, from |-> m])]
    /\ UNCHANGED <<phase, keep_going, policy, accepted, abandoned>>

\* tube_manager_open_tube.  A failure before the tube is in the table changes
\* nothing, so those returns are not steps of the model.
OpenTube(m, id, dest) ==
    /\ Alive(m)
    /\ dest # m
    /\ owner[id] = None
    /\ Room(dest)
    /\ owner' = [owner EXCEPT ![id] = m]
    /\ peer' = [peer EXCEPT ![m][id] = dest]
    /\ \/ \* the OPEN is sent
          /\ SetState(m, id, "opening")
          /\ chan' = [chan EXCEPT ![dest] =
                        Append(@, [cmd |-> "OPEN", id |-> id, from |-> m])]
          /\ UNCHANGED phase
       \/ \* the "add" event cannot be triggered: tube_manager_add returns
          \* false after ls_htable_put, and the tube is destroyed
          /\ "alloc" \in Env
          /\ SetState(m, id, "freed")
          /\ UNCHANGED <<chan, phase>>
       \/ \* the OPEN cannot be sent: tube_manager_remove destroys the tube,
          \* then tube_destroy does so again
          /\ Env \cap {"sendfail", "alloc"} # {}
          /\ SetState(m, id, "absent")
          /\ UB(m)
          /\ UNCHANGED chan
    /\ UNCHANGED <<keep_going, policy, accepted, abandoned>>

\* tube_data: no look at the tube's state.
TubeData(m, id) ==
    /\ Alive(m)
    /\ st[m][id] \in Usable
    /\ Room(peer[m][id])
    /\ chan' \in Sent(chan, m, id, "DATA", peer[m][id])
    /\ UNCHANGED <<phase, keep_going, policy, st, peer, owner, accepted, abandoned>>

\* Mutant of TubeClose: the state changes, the CLOSE is not sent.
TubeCloseSilent(m, id) ==
    /\ Alive(m)
    /\ st[m][id] \in Usable
    /\ SetState(m, id, "unknown")
    /\ UNCHANGED <<phase, keep_going, policy, peer, chan, owner, accepted, abandoned>>

\* tube_close: the tube stays in the table.
TubeClose(m, id) ==
    /\ Alive(m)
    /\ st[m][id] \in Usable
    /\ Room(peer[m][id])
    /\ SetState(m, id, "unknown")
    /\ chan' \in Sent(chan, m, id, "CLOSE", peer[m][id])
    /\ UNCHANGED <<phase, keep_going, policy, peer, owner, accepted, abandoned>>

\* Mutant of CleanTube: the state is reset before it is looked at.
CleanTubeSilent(m, id) ==
    /\ SetState(m, id, "absent")
    /\ UNCHANGED chan
    /\ abandoned' = IF st[m][id] = "opening" THEN abandoned \cup {id} ELSE abandoned

\* clean_tube, as ls_htable_remove and ls_htable_destroy call it: a CLOSE
\* for a RUNNING tube only, then the tube is gone.
CleanTube(m, id) ==
    /\ SetState(m, id, "absent")
    /\ IF st[m][id] = "running"
       THEN chan' \in Sent(chan, m, id, "CLOSE", peer[m][id])
       ELSE UNCHANGED chan
    /\ abandoned' = IF st[m][id] = "opening" THEN abandoned \cup {id} ELSE abandoned

TubeManagerRemove(m, id) ==
    /\ Alive(m)
    /\ st[m][id] \in Usable
    /\ Room(peer[m][id])
    /\ CleanTube(m, id)
    /\ UNCHANGED <<phase, keep_going, policy, peer, owner, accepted>>

\* tube_manager_set_policy_responder
SetPolicyResponder(m) ==
    /\ "policy" \in Env
    /\ Alive(m)
    /\ policy' = [policy EXCEPT ![m] = ~@]
    /\ UNCHANGED <<phase, keep_going, st, peer, chan, owner, accepted, abandoned>>

\* tube_manager_stop
Stop(m) ==
    /\ "stop" \in Env
    /\ Alive(m)
    /\ keep_going' = [keep_going EXCEPT ![m] = FALSE]
    /\ UNCHANGED <<phase, policy, st, peer, chan, owner, accepted, abandoned>>

\* tube_manager_destroy: _tube_manager_finalize takes the tubes down one
\* after the other.
Finalize(m) ==
    /\ "stop" \in Env
    /\ phase[m] \in {"ready", "ended"}
    /\ phase' = [phase EXCEPT ![m] = "finalizing"]
    /\ keep_going' = [keep_going EXCEPT ![m] = FALSE]
    /\ UNCHANGED <<policy, st, peer, chan, owner, accepted, abandoned>>

FinalizeTube(m, id) ==
    /\ phase[m] = "finalizing"
    /\ \/ /\ st[m][id] \in Usable
          /\ CleanTube(m, id)
          /\ UNCHANGED phase
       \/ /\ st[m][id] = "freed"
          /\ UB(m)
          /\ UNCHANGED <<st, chan, abandoned>>
    /\ UNCHANGED <<keep_going, policy, peer, owner, accepted>>

FinalizeEnd(m) ==
    /\ phase[m] = "finalizing"
    /\ \A id \in Id : st[m][id] = "absent"
    /\ phase' = [phase EXCEPT ![m] = "destroyed"]
    /\ UNCHANGED <<keep_going, policy, st, peer, chan, owner, accepted, abandoned>>

------------------------------------------------------------------------------
(***************************************************************************)
(* The loop.                                                               *)
(***************************************************************************)

\* The application enters tube_manager_loop, again after an error if it likes.
LoopStart(m) ==
    /\ phase[m] \in {"ready", "ended"}
    /\ keep_going[m]
    /\ phase' = [phase EXCEPT ![m] = "looping"]
    /\ UNCHANGED <<keep_going, policy, st, peer, chan, owner, accepted, abandoned>>

\* tube_manager_wait returns -2.
LoopExit(m) ==
    /\ phase[m] = "looping"
    /\ ~keep_going[m]
    /\ phase' = [phase EXCEPT ![m] = "ended"]
    /\ UNCHANGED <<keep_going, policy, st, peer, chan, owner, accepted, abandoned>>

\* Mutant of Accept: no look at the command.
AcceptAny(m, p, ch) ==
    /\ policy[m]
    /\ Len(chan[p.from]) < MaxWaiting
    /\ SetState(m, p.id, "running")
    /\ peer' = [peer EXCEPT ![m][p.id] = p.from]
    /\ accepted' = [accepted EXCEPT ![m][p.id] = IF @ < AcceptCap THEN @ + 1 ELSE @]
    /\ chan' \in Sent(ch, m, p.id, "ACK", p.from)
    /\ LoopNext(m)
    /\ UNCHANGED abandoned

\* Mutant of Accept: no ACK.
AcceptSilent(m, p, ch) ==
    /\ p.cmd = "OPEN"
    /\ policy[m]
    /\ SetState(m, p.id, "running")
    /\ peer' = [peer EXCEPT ![m][p.id] = p.from]
    /\ accepted' = [accepted EXCEPT ![m][p.id] = IF @ < AcceptCap THEN @ + 1 ELSE @]
    /\ chan' = ch
    /\ LoopNext(m)
    /\ UNCHANGED abandoned

\* An OPEN for an ID that is not in the table, at a responder.
\* (ch is chan without the packet.)
Accept(m, p, ch) ==
    /\ p.cmd = "OPEN"
    /\ policy[m]
    /\ Len(chan[p.from]) < MaxWaiting
    /\ \/ \* RUNNING, and the ACK is sent; or it is not, and the loop goes on
          /\ SetState(m, p.id, "running")
          /\ peer' = [peer EXCEPT ![m][p.id] = p.from]
          /\ accepted' = [accepted EXCEPT ![m][p.id] =
                            IF @ < AcceptCap THEN @ + 1 ELSE @]
          /\ chan' \in Sent(ch, m, p.id, "ACK", p.from)
          /\ LoopNext(m)
       \/ \* tube_create, tube_set_local or ls_htable_put fails
          /\ "alloc" \in Env
          /\ chan' = ch
          /\ LoopError(m)
          /\ UNCHANGED <<st, peer, accepted>>
       \/ \* the "add" event cannot be triggered: the tube stays behind
          /\ "alloc" \in Env
          /\ SetState(m, p.id, "unknown")
          /\ peer' = [peer EXCEPT ![m][p.id] = p.from]
          /\ chan' = ch
          /\ LoopError(m)
          /\ UNCHANGED accepted
    /\ UNCHANGED abandoned

\* Mutant of Ignore: the ACK leaves before the policy is looked at.
IgnoreAcks(m, p, ch) ==
    /\ p.cmd # "OPEN" \/ ~policy[m]
    /\ chan' \in Sent(ch, m, p.id, "ACK", p.from)
    /\ LoopNext(m)
    /\ UNCHANGED <<st, peer, accepted, abandoned>>

\* Anything else for an ID that is not in the table.
Ignore(m, p, ch) ==
    /\ p.cmd # "OPEN" \/ ~policy[m]
    /\ chan' = ch
    /\ LoopNext(m)
    /\ UNCHANGED <<st, peer, accepted, abandoned>>

\* The "data" event, which may fail, while RUNNING; nothing otherwise.
HandleData(m, p, ch) ==
    /\ p.cmd = "DATA"
    /\ chan' = ch
    /\ \/ LoopNext(m)
       \/ "alloc" \in Env /\ st[m][p.id] = "running" /\ LoopError(m)
    /\ UNCHANGED <<st, peer, accepted, abandoned>>

\* "Double open.  no-op.": no second ACK.
HandleOpen(m, p, ch) ==
    /\ p.cmd = "OPEN"
    /\ chan' = ch
    /\ LoopNext(m)
    /\ UNCHANGED <<st, peer, accepted, abandoned>>

\* Mutant of HandleAck: any ACK makes the tube RUNNING.
HandleAckAlways(m, p, ch) ==
    /\ p.cmd = "ACK"
    /\ chan' = ch
    /\ SetState(m, p.id, "running")
    /\ LoopNext(m)
    /\ UNCHANGED <<peer, accepted, abandoned>>

HandleAck(m, p, ch) ==
    /\ p.cmd = "ACK"
    /\ chan' = ch
    /\ IF st[m][p.id] = "opening"
       THEN /\ SetState(m, p.id, "running")
            /\ \/ LoopNext(m)
               \/ "alloc" \in Env /\ LoopError(m)
       ELSE /\ LoopNext(m)
            /\ UNCHANGED st
    /\ UNCHANGED <<peer, accepted, abandoned>>

\* The peer's CLOSE: the "close" event, then tube_manager_remove of a tube
\* that is UNKNOWN by now, so that no CLOSE answers it.
HandleClose(m, p, ch) ==
    /\ p.cmd = "CLOSE"
    /\ chan' = ch
    /\ \/ /\ st[m][p.id] = "unknown"
          /\ LoopNext(m)
          /\ UNCHANGED st
       \/ /\ st[m][p.id] # "unknown"
          /\ SetState(m, p.id, "absent")
          /\ LoopNext(m)
       \/ /\ st[m][p.id] # "unknown"
          /\ "alloc" \in Env
          /\ SetState(m, p.id, "unknown")
          /\ LoopError(m)
    /\ UNCHANGED <<peer, accepted, abandoned>>

\* The packet p through the loop's look-up of its tube and its switch.
Handle(m, p, ch) ==
    \/ /\ st[m][p.id] = "absent"
       /\ Accept(m, p, ch) \/ Ignore(m, p, ch)
    \/ /\ st[m][p.id] \in Usable
       /\ \/ HandleData(m, p, ch) \/ HandleOpen(m, p, ch)
          \/ HandleAck(m, p, ch)  \/ HandleClose(m, p, ch)
    \/ /\ st[m][p.id] = "freed"
       /\ chan' = ch
       /\ UB(m)
       /\ UNCHANGED <<st, peer, accepted, abandoned>>

\* recvmsg returns packet i of those waiting; the network may keep a copy.
Receive(m) ==
    /\ phase[m] = "looping"
    /\ \E i \in DOMAIN chan[m] :
        /\ i = 1 \/ "reorder" \in Env
        /\ \E ch \in {[chan EXCEPT ![m] = RemoveAt(@, i)]}
                        \cup (IF "dup" \in Env THEN {chan} ELSE {}) :
                Handle(m, chan[m][i], ch)
    /\ UNCHANGED <<keep_going, policy, owner>>

\* tube_manager_loop returns false before it has looked at a packet: the lock,
\* select, gettimeofday or recvmsg fails; when gettimeofday fails after recvmsg,
\* the packet is gone.
LoopFails(m) ==
    /\ "loopfail" \in Env
    /\ phase[m] = "looping"
    /\ LoopError(m)
    /\ \/ UNCHANGED chan
       \/ \E i \in DOMAIN chan[m] :
            /\ i = 1 \/ "reorder" \in Env
            /\ chan' = [chan EXCEPT ![m] = RemoveAt(@, i)]
    /\ UNCHANGED <<keep_going, policy, st, peer, owner, accepted, abandoned>>

\* The network drops a packet.
Lose(m) ==
    /\ "loss" \in Env
    /\ \E i \in DOMAIN chan[m] : chan' = [chan EXCEPT ![m] = RemoveAt(@, i)]
    /\ UNCHANGED <<phase, keep_going, policy, st, peer, owner, accepted, abandoned>>

------------------------------------------------------------------------------
Next ==
    \E m \in Mgr :
        \/ \E id \in Id :
            \/ \E dest \in Mgr : OpenTube(m, id, dest)
            \/ TubeData(m, id)
            \/ TubeClose(m, id)
            \/ TubeManagerRemove(m, id)
            \/ FinalizeTube(m, id)
        \/ SetPolicyResponder(m)
        \/ Stop(m)
        \/ Finalize(m)
        \/ FinalizeEnd(m)
        \/ LoopStart(m)
        \/ LoopExit(m)
        \/ Receive(m)
        \/ LoopFails(m)
        \/ Lose(m)

Spec == Init /\ [][Next]_vars

(***************************************************************************)
(* A program that has created a manager enters its loop, and the loop      *)
(* handles what has arrived.  Nothing obliges an application to close, to  *)
(* stop or to send.                                                        *)
(***************************************************************************)
Fairness == \A m \in Mgr : WF_vars(LoopStart(m)) /\ WF_vars(Receive(m))

FairSpec == Spec /\ Fairness

------------------------------------------------------------------------------
(***************************************************************************)
(* Properties.                                                             *)
(***************************************************************************)

\* What the ends of a tube promise each other: see TubeSession.
ClientPhase(id) ==
    IF owner[id] = None THEN "idle"
    ELSE LET s == st[owner[id]][id] IN
         IF s \in {"opening", "running"} THEN s ELSE "over"

ServerSeen == {id \in Id : \E m \in Mgr : accepted[m][id] > 0}

Session == INSTANCE TubeSession WITH client <- [id \in Id |-> ClientPhase(id)],
                                     server <- ServerSeen

\* The loops' handling of OPEN, ACK and CLOSE, whatever the network does to
\* the packets, takes a tube's opener through the abstract session: RUNNING
\* only after the other end accepted, and never again once over.
Refinement == Session!Spec

\* A manager holds a tube only because it opened it, or because the peer
\* it holds the tube against did: tube_manager_loop creates tubes for OPENs
\* only, and an ID stays with the two ends that exchanged it.
Provenance ==
    \A m \in Mgr, id \in Id :
        /\ st[m][id] = "opening" => owner[id] = m
        /\ st[m][id] # "absent" => owner[id] \in {m, peer[m][id]}
        /\ accepted[m][id] > 0 => owner[id] \notin {m, None}

\* A packet on its way tells the truth about how it came to be there: its ID
\* was opened, an OPEN comes from the opener and from no one else, and an ACK
\* from a manager that did accept.  The loop acts on packets alone, so this
\* is what its handlers may rely on.
PacketsGenuine ==
    \A m \in Mgr : \A p \in Range(chan[m]) :
        /\ owner[p.id] # None
        /\ p.cmd = "OPEN" => owner[p.id] = p.from /\ p.from # m
        /\ p.cmd = "ACK" => accepted[p.from][p.id] > 0

\* Without duplication a responder accepts an ID once: the loop itself never
\* makes a second tube of an OPEN it has handled, and a closed tube stays
\* closed.  (A duplicated OPEN that arrives after the CLOSE does revive it.)
AcceptedOnce == \A m \in Mgr, id \in Id : accepted[m][id] =< 1

\* No packet is on its way.
Quiet == \A m \in Mgr : chan[m] = <<>>

\* Over a network that delivers everything in order, the two ends of a tube
\* agree whenever no packet is on its way: clean_tube, tube_close and the
\* CLOSE handler leave no end RUNNING alone.  The exception is a tube its
\* opener removed while OPENING, for which clean_tube sends no CLOSE.
Agreement ==
    Quiet => \A m \in Mgr, id \in Id :
                st[m][id] = "running" =>
                    \/ st[peer[m][id]][id] = "running"
                    \/ id \in abandoned

\* A program calling the API in any legal order never makes the library use
\* or free a tube that tube_destroy has already reclaimed.
NoUseAfterDestroy == \A m \in Mgr : phase[m] # "undefined"

\* The program that owns m has neither asked its manager to stop nor begun to
\* destroy it.
Serving(m) == keep_going[m] /\ Alive(m)

\* An OPEN to a responder is answered: over a reliable network its sender does
\* not stay OPENING, unless an end stops or the other end is no responder.
OpenIsAnswered ==
    \A m \in Mgr, id \in Id :
        LET to == peer[m][id] IN
        (st[m][id] = "opening" /\ \E p \in Range(chan[to]) : p.cmd = "OPEN" /\ p.id = id)
            ~> (st[m][id] # "opening" \/ ~policy[to] \/ ~Serving(m) \/ ~Serving(to))

\* tube_close reaches the other end: over a reliable network the peer of a
\* closed tube does not stay RUNNING while its loop goes on.
CloseTakesEffect ==
    \A m \in Mgr, id \in Id :
        LET to == peer[m][id] IN
        (st[m][id] = "unknown") ~> (st[to][id] # "running" \/ ~Serving(to))
=============================================================================
