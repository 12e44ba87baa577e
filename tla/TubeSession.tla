---------------------------- MODULE TubeSession ----------------------------
(***************************************************************************)
(* What a tube promises its two ends, whatever happens to packets: the end *)
(* that opens it is RUNNING only after the other end has accepted, goes    *)
(* through its states once, in order, and an accepted tube was asked for.  *)
(***************************************************************************)
CONSTANT Id

VARIABLES
    client,     \* client[id]: the end that opens tube id
    server      \* the tubes some other end has accepted

svars == <<client, server>>

SInit ==
    /\ client = [id \in Id |-> "idle"]
    /\ server = {}

Request(id) ==
    /\ client[id] = "idle"
    /\ client' = [client EXCEPT ![id] = "opening"]
    /\ UNCHANGED server

Accept(id) ==
    /\ client[id] # "idle"
    /\ server' = server \cup {id}
    /\ UNCHANGED client

Establish(id) ==
    /\ client[id] = "opening"
    /\ id \in server
    /\ client' = [client EXCEPT ![id] = "running"]
    /\ UNCHANGED server

\* Closed by either end, removed, or never opened because of an error.
Finish(id) ==
    /\ client' = [client EXCEPT ![id] = "over"]
    /\ UNCHANGED server

SNext == \E id \in Id : Request(id) \/ Accept(id) \/ Establish(id) \/ Finish(id)

Spec == SInit /\ [][SNext]_svars
=============================================================================
