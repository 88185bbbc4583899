----------------------------- MODULE MCCommands -----------------------------
(***************************************************************************)
(* Lines for Commands.  "ann" is a name users choose, "super_fox1" one that *)
(* the generator makes and users may choose as well.                        *)
(***************************************************************************)
EXTENDS Commands, TLC

Typed(words) == [slash |-> TRUE, words |-> words]

MCAlphanumeric == {"", "nick", "NICK", "kick", "members", "create", "join",
                   "leave", "load", "start", "end", "guess", "simon", "ann"} \cup RoomObject
MCGenerated == {"super_fox1"}
MCNicknameWords == MCAlphanumeric \cup MCGenerated
MCLowercase == "NICK" :> "nick"

MCLines ==
  { [slash |-> FALSE, words |-> <<"ann">>],
    Typed(<<"">>), Typed(<<"a!">>), Typed(<<"guess">>), Typed(<<"members">>),
    Typed(<<"create">>), Typed(<<"join">>), Typed(<<"join", "a!">>), Typed(<<"leave">>),
    Typed(<<"NICK", "ann">>), Typed(<<"nick", "super_fox1">>), Typed(<<"nick", "", "ann">>),
    Typed(<<"kick", "ann">>), Typed(<<"kick", "super_fox1">>),
    Typed(<<"load", "simon">>), Typed(<<"start">>), Typed(<<"end">>) }
  \cup {Typed(<<"join", k>>) : k \in RoomObject}

Symmetry == Permutations(User)
=============================================================================
