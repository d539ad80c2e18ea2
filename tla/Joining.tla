------------------------------ MODULE Joining -------------------------------
(***************************************************************************)
(* What joining promises: a client is told its script, item by item.  When *)
(* the server fails to build an item the client is hampered: it may miss   *)
(* items or get garbage, but what it is told is still in order.  Of a      *)
(* client that was taken for being in another state nothing is promised.   *)
(***************************************************************************)
EXTENDS Integers, Sequences, SequencesExt

CONSTANTS Clients, Script, Garbage

VARIABLES told, hampered, confused

vars == <<told, hampered, confused>>

Init ==
    /\ told = [c \in Clients |-> <<>>]
    /\ hampered = {}
    /\ confused = {}

\* Items are compared by their ids first: the fields of others have other types.
IsItem(item, script, k) == item.id = script[k].id /\ item = script[k]

\* The place behind pos where item is in the script, or one behind its end.
PlaceOf(item, script, pos) ==
    LET places == {k \in (pos + 1)..Len(script) : IsItem(item, script, k)}
    IN  IF places = {} THEN Len(script) + 1
        ELSE CHOOSE k \in places : \A j \in places : k <= j

Reached(items, script) ==
    LET upTo[i \in 0..Len(items)] ==
            IF i = 0 THEN 0 ELSE PlaceOf(items[i], script, upTo[i - 1])
    IN  upTo[Len(items)]

IsNext(c) ==
    /\ Len(told'[c]) <= Len(Script[c])
    /\ IsItem(Last(told'[c]), Script[c], Len(told'[c]))

IsLater(c) ==
    \/ Last(told'[c]).id = Garbage.id
    \/ Reached(told'[c], Script[c]) <= Len(Script[c])

Tell(c) ==
    /\ told[c] # told'[c]
    /\ Front(told'[c]) = told[c]
    /\ \A d \in Clients \ {c} : told'[d] = told[d]
    /\ \/ c \notin hampered \cup confused /\ IsNext(c)
       \/ c \in hampered \ confused /\ IsLater(c)
       \/ c \in confused
    /\ UNCHANGED <<hampered, confused>>

Hamper(c) ==
    /\ hampered' = hampered \cup {c}
    /\ UNCHANGED <<told, confused>>

Confuse(c) ==
    /\ confused' = confused \cup {c}
    /\ UNCHANGED <<told, hampered>>

Next == \E c \in Clients : Tell(c) \/ Hamper(c) \/ Confuse(c)

Spec == Init /\ [][Next]_vars
=============================================================================
