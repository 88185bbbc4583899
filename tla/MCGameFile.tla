----------------------------- MODULE MCGameFile -----------------------------
(***************************************************************************)
(* Files for GameFile: configurations with every field absent and with     *)
(* values of several types, and specifications that differ from a good one *)
(* in a field, in two, or in their setup and environments.                 *)
(***************************************************************************)
EXTENDS GameFile, TLC

Object(f) == [object |-> f]
Array(s)  == [array |-> s]
Neg  == [number_integer |-> -1]
One  == [number_integer |-> 1]
Text == [string |-> "text"]
True == [boolean |-> TRUE]
Null == [null |-> TRUE]
Unsigned(n) == [number_unsigned |-> n]

OneOfEach == {Neg, Text, True, Null, Unsigned(0), [number_float |-> 2], Array(<<>>),
              Object(EmptyMap), Object([text |-> Text])}

MCUnreadable == [unreadable |-> TRUE]
MCNotJson == [text |-> TRUE]

Absent == [absent |-> TRUE]
Fields(f) == Object([k \in {k \in DOMAIN f : f[k] # Absent} |-> f[k]])

(* PortWidth is 3: 9 does not fit an unsigned short, 17 not even an int. *)
Ports == OneOfEach \cup {Absent, Unsigned(3), Unsigned(7), Unsigned(9), Unsigned(17),
                         [number_float |-> 0], [boolean |-> FALSE]}
MCConfigFiles ==
  {MCUnreadable, MCNotJson} \cup OneOfEach \cup
  {Fields([port |-> p, html |-> h, htmlpath |-> hp, games |-> g]) :
     p \in Ports, h \in {Absent, Text, Null, Unsigned(0)},
     hp \in {Absent, Text, Unsigned(0)}, g \in {Absent, Unsigned(0)}}

Count(min, max) == Fields([min |-> min, max |-> max])
Config(name, count, audience, setup) ==
  Fields([name |-> name, audience |-> audience, setup |-> setup] @@
         [k \in {"player_count"} |-> count])
Game(conf, constants, variables, players) ==
  Fields([configuration |-> conf, constants |-> constants, variables |-> variables,
          rules |-> Array(<<>>)] @@
         [k \in {"per-player"} |-> players] @@ [k \in {"per-audience"} |-> Array(<<>>)])

Empty == Array(<<>>)
GoodConfig == Config(Text, Count(Neg, One), True, Empty)
GoodGame   == Game(GoodConfig, Empty, Empty, Empty)

Changed(j, k, v) == IF v = Absent THEN Object([x \in DOMAIN j.object \ {k} |-> j.object[x]])
                    ELSE Object((k :> v) @@ j.object)
InConfig(k, v) == Changed(GoodGame, "configuration", Changed(GoodConfig, k, v))
InCount(k, v)  == InConfig("player_count", Changed(Count(Neg, One), k, v))

Keys == DOMAIN FIELDS \cup DOMAIN FIELDS_configuration \cup DOMAIN FIELDS_playerCount
          \cup {"extra"}
Values == OneOfEach \cup {Absent}

Single == {Changed(GoodGame, k, v) : k \in Keys, v \in Values}
            \cup {InConfig(k, v) : k \in Keys, v \in Values}
            \cup {InCount(k, v) : k \in Keys, v \in Values}
(* A field is missing and another one is there in its place. *)
Swapped == {Changed(Changed(GoodGame, k, Absent), "extra", Empty) : k \in Keys}
             \cup {Changed(GoodGame, "configuration",
                     Changed(Changed(GoodConfig, k, Absent), "extra", True)) : k \in Keys}
             \cup {InConfig("player_count",
                     Changed(Changed(Count(Neg, One), k, Absent), "extra", One)) : k \in Keys}

Custom == {Fields([kind |-> k, prompt |-> p]) :
             k \in {Absent, [string |-> "integer"], Text, Neg}, p \in {Absent, Text, Neg}}
Setups == {Empty} \cup {Array(<<a>>) : a \in OneOfEach \cup Custom \cup {Unsigned(1)}}
            \cup {Array(<<a, b>>) : a \in {Neg, Null} \cup Custom, b \in {Text, Null}}
Nested == {Array(<<a, b>>) : a \in OneOfEach,
             b \in {One, Text, Object([a |-> Array(<<One, Neg>>), b |-> Text]),
                    Array(<<One, Array(<<Text, Neg>>), True>>)}}
Rules == {Array(<<>>), Array(<<Object([rule |-> [string |-> "add"]])>>),
          Array(<<Object([rule |-> Text])>>), Array(<<Object([rule |-> Neg])>>),
          Array(<<Object([text |-> Text])>>), Array(<<Text>>)}

MCGameFiles ==
  OneOfEach \cup Single \cup Swapped
    \cup {InConfig("setup", s) : s \in Setups}
    \cup {Game(GoodConfig, c, v, Array(<<Array(<<Neg, One, Text>>)>>)) :
            c \in Nested, v \in {Array(<<Object([text |-> Text]), Neg>>)}}
    \cup {Game(GoodConfig, Empty, c, Empty) : c \in Nested}
    \cup {Changed(GoodGame, "rules", r) : r \in Rules}

(* The documents, their parts, the parts of these, and so on. *)
Inside(S) == UNION {Range(JsonParts(j)) : j \in S}
Whole  == MCGameFiles \cup (MCConfigFiles \ {MCUnreadable, MCNotJson})
Inner1 == Inside(Whole)
Inner2 == Inside(Inner1)
Inner3 == Inside(Inner2)
Inner4 == Inside(Inner3)
MCJson == Inner4 \cup Inner3 \cup Inner2 \cup Inner1 \cup Whole
MCDepth(j) ==
  IF j \in Inner4 THEN 0 ELSE IF j \in Inner3 THEN 1 ELSE IF j \in Inner2 THEN 2
  ELSE IF j \in Inner1 THEN 3 ELSE 4

MCIndexName(i) == ToString(i)

(* Every path through an environment of these files, and more. *)
MCPaths == UNION {[1..n -> {"0", "1", "2", "a", "b", "text"}] : n \in 1..4}
=============================================================================
