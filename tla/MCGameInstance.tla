--------------------------- MODULE MCGameInstance ---------------------------
(***************************************************************************)
(* Small games for GameInstance: every pair of nested control rules around *)
(* rules that do and do not finish, and every other rule on its own, with  *)
(* the states that a caller may have put together.                         *)
(***************************************************************************)
EXTENDS GameInstance, TLC

Control(k) == [kind |-> k, next |-> NoRule, nested |-> NoRule]
ForEachOver(l, e) == Control("ForEach") @@ [elemList |-> l, elem |-> e]
TimerOf(m, d) == Control("Timer") @@ [mode |-> m, duration |-> d, flag |-> <<"flag">>]
AddTo(to, value) == Control("Add") @@ [to |-> to, value |-> value]
ListRule(k, l) == Control(k) @@ [list |-> l]
DiscardFrom(l, n) == Control("Discard") @@ [fromList |-> Str_(l, <<>>), count |-> n]
DealOut(f, t, n) == Control("Deal") @@
  [fromList |-> Str_(f, <<>>), toList |-> Str_(t, <<>>), count |-> n]
Say(b) == Control("GlobalMessage") @@ [content |-> [words |-> "Round", braces |-> b]]
AskText(k, who, result) == Control(k) @@
  [targetUser |-> who, prompt |-> [words |-> "Choose", braces |-> TRUE], result |-> result,
   timeout |-> Int_(1)]
Ask(who, choices, result) == AskText("InputChoice", who, result) @@ [choiceList |-> choices]

Loops(e) == {ForEachOver(l, e) : l \in {<<>>, <<Int_(1)>>, <<Int_(1), Int_(2)>>}}
Timers == {TimerOf(m, Int_(1)) : m \in {"EXACT", "AT_MOST", "TRACK"}}
AddOne == AddTo(<<"x">>, Int_(1))

Path(l, a) == <<l, "elements", a>>

Leaves ==
  {AddTo(<<"s", "wins">>, Str_(<<"deck">>, <<[op |-> "size"]>>)),
   AddTo(<<"x">>, Str_(<<"x">>, <<[op |-> "upfrom", arg |-> Int_(0)], [op |-> "size"]>>)),
   AddTo(<<"x">>, Str_(<<"deck">>, <<[op |-> "contains", arg |-> Name("ace")]>>)),
   AddTo(<<"x">>, Str_(<<"x">>, <<[op |-> "size"]>>)),
   AddTo(<<"nobody">>, Int_(1)), AddTo(<<"x">>, Name("deck")), AddTo(<<"x">>, Name("rounds")),
   TimerOf("EXACT", Bool_(TRUE)),
   ListRule("Reverse", "deck"), ListRule("Reverse", "nobody"), ListRule("Reverse", "x"),
   ListRule("Shuffle", "deck"), ListRule("Shuffle", "nobody"),
   DiscardFrom(<<"deck">>, 2), DiscardFrom(<<"deck">>, -1), DiscardFrom(<<"nobody">>, 1),
   DiscardFrom(Path("players", "name"), 1), DiscardFrom(Path("players", "name"), 0),
   DiscardFrom(Path("players", "age"), 1), DiscardFrom(Path("players", "collect"), 1),
   DealOut(Path("players", "name"), Path("players", "name"), 1),
   DealOut(Path("nobody", "name"), Path("players", "name"), 1),
   DealOut(Path("deck", "name"), Path("players", "name"), 1),
   Say(TRUE), Say(FALSE),
   Ask(Name("s"), List_(<<>>), <<"x">>), Ask(Name("me"), List_(<<>>), <<"x">>),
   Ask(Name("me"), Name("deck"), <<"x">>),
   Ask(Name("me"), List_(<<>>), <<"nobody">>),
   AskText("InputText", Name("me"), <<"x">>), Control("Loop") @@ [type |-> "WHILE"]}

Variables(audience) ==
  [x |-> Int_(0), flag |-> Bool_(FALSE), s |-> Map_([wins |-> Int_(0)]),
   me |-> Map_([name |-> Name("me")]), deck |-> List_(<<Name("ace"), Name("ace"), Name("king")>>)]
  @@ audience

Game(rules, first, scopes, audience) ==
  [rules |-> rules, first |-> first, constants |-> [rounds |-> Int_(2)],
   variables |-> Variables(audience), perPlayer |-> [wins |-> Int_(0)],
   perAudience |-> EmptyMap, context |-> scopes]

Watched == [audience |-> Bool_(TRUE)]

(* outer { middle { inner } } last, or outer { middle inner } last. *)
Nested(outer, middle, inner, last) ==
  [r1 |-> [outer EXCEPT !.nested = "r2", !.next = "r4"],
   r2 |-> IF middle.kind = "Add" THEN [middle EXCEPT !.next = "r3"]
          ELSE [middle EXCEPT !.nested = "r3"],
   r3 |-> inner, r4 |-> last]

MCGames ==
  {Game(Nested(o, m, i, l), "r1", <<EmptyMap>>, Watched) :
     o \in Loops("e") \cup Timers, m \in Loops("f") \cup Timers \cup {AddTo(<<"x">>, Name("e"))},
     i \in {AddOne, ListRule("Reverse", "deck")}, l \in {AddOne, DiscardFrom(<<"deck">>, 1)}}
  \cup {Game([r4 |-> l], "r4", <<EmptyMap>>, a) :
          l \in Leaves, a \in {Watched, [audience |-> Bool_(FALSE)], EmptyMap}}
  \cup {Game([r4 |-> l], "r4", <<>>, Watched) : l \in Loops("e")}
=============================================================================
