------------------------------ MODULE Sessions ------------------------------
(***************************************************************************)
(* What the server promises about players, whatever threads and lists it   *)
(* uses: a descriptor has one client and one player at a time; the player  *)
(* goes through the states of the protocol in their order, and only as     *)
(* long as its client is connected; and the next client of the descriptor  *)
(* finds no player, or one in the state in which every player starts.      *)
(***************************************************************************)
CONSTANTS Fds, Clients, Players,
          Nobody            \* no client

VARIABLES owner,            \* the client of each descriptor
          sessions          \* the players of each descriptor, with their states

vars == <<owner, sessions>>

Session(p, state) == [player |-> p, state |-> state]

Order == {<<"Handshake", "Status">>, <<"Handshake", "Login">>,
          <<"Login", "Configuration">>, <<"Configuration", "Play">>,
          <<"Handshake", "None">>, <<"Status", "None">>, <<"Login", "None">>}

Init ==
    /\ owner = [fd \in Fds |-> Nobody]
    /\ sessions = [fd \in Fds |-> {}]

IsFresh(fd) == \A session \in sessions[fd] : session.state = "Handshake"

Arrive(fd, c) ==
    /\ owner[fd] = Nobody
    /\ \A other \in Fds : owner[other] # c
    /\ IsFresh(fd)
    /\ owner' = [owner EXCEPT ![fd] = c]
    /\ UNCHANGED sessions

Leave(fd) ==
    /\ owner[fd] # Nobody
    /\ IsFresh(fd)
    /\ owner' = [owner EXCEPT ![fd] = Nobody]
    /\ UNCHANGED sessions

Begin(fd, p) ==
    /\ owner[fd] # Nobody
    /\ sessions[fd] = {}
    /\ \A other \in Fds : \A session \in sessions[other] : session.player # p
    /\ sessions' = [sessions EXCEPT ![fd] = {Session(p, "Handshake")}]
    /\ UNCHANGED owner

Move(fd, p, from, to) ==
    /\ owner[fd] # Nobody
    /\ sessions[fd] = {Session(p, from)}
    /\ sessions' = [sessions EXCEPT ![fd] = {Session(p, to)}]
    /\ UNCHANGED owner

End(fd) ==
    /\ owner[fd] # Nobody
    /\ sessions[fd] # {}
    /\ sessions' = [sessions EXCEPT ![fd] = {}]
    /\ UNCHANGED owner

Next ==
    \E fd \in Fds :
        \/ \E c \in Clients : Arrive(fd, c)
        \/ Leave(fd)
        \/ \E p \in Players :
              \/ Begin(fd, p)
              \/ \E step \in Order : Move(fd, p, step[1], step[2])
        \/ End(fd)

Spec == Init /\ [][Next]_vars
=============================================================================
