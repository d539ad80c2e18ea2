-------------------------- MODULE MCJoinSequences ---------------------------
(* Instances of JoinSequences for TLC.                                     *)
EXTENDS JoinSequences

CONSTANTS c1, c2

MCName == c1 :> <<65>> @@ c2 :> <<66, 66>>
MCRequested == c1 :> 8 @@ c2 :> 1
MCThreeRequested == c2 :> 3
MCLocale == <<101, 110>>
MCRegistries ==
    <<[id |-> <<98>>, entries |-> <<<<112>>, <<113, 113>>>>],
      [id |-> <<100>>, entries |-> <<>>]>>
MCRegistriesTags ==
    <<[name |-> <<98>>,
       tags |-> <<[name |-> <<116>>, entries |-> <<0, 200>>],
                  [name |-> <<117>>, entries |-> <<>>]>>]>>
=============================================================================
