---------------------------- MODULE GameInstance ----------------------------
(***************************************************************************)
(* A game of the rule language: the loop of GameInstance::updateState, the *)
(* visitors of InterpretVisitor and the controller that drives them from   *)
(* the server's tick.  One step is one round of the loop.                  *)
(*                                                                         *)
(* updateState takes a COPY of the top of the stack, lets the visitor      *)
(* change the original, and then decides on the copy.                      *)
(***************************************************************************)
EXTENDS Expression

CONSTANTS
  Games,      \* what may be loaded: [rules, first, constants, variables,
              \*   perPlayer, perAudience, context]
  NoRule,     \* the null pointer
  Users,      \* the users who may be in the room
  MaxQueue    \* entries of a message or request queue that are kept apart

(* What the rules of the language consist of, beside the rule after them   *)
(* and the first of those nested in them.                                  *)
FlowAndListRules == [
  ForEach |-> {"elemList", "elem"},      ParallelFor |-> {"elemList", "elem"},
  InParallel |-> {},                     Loop |-> {"type"},
  Switch |-> {"switchTarget", "valuesList", "rules", "caseToRules"},
  When |-> {"condToRules"},              Add |-> {"to", "value"},
  Discard |-> {"fromList", "count"},     Deal |-> {"fromList", "toList", "count"},
  Extend |-> {"targetList", "list"},     Reverse |-> {"list"},
  Shuffle |-> {"list"},                  Sort |-> {"list", "key"},
  Message |-> {"targetUsers", "content"}]

InputOutputRules == [
  InputChoice |-> {"targetUser", "prompt", "choiceList", "result", "timeout"},
  InputText |-> {"targetUser", "prompt", "result", "timeout"},
  InputVote |-> {"targetUsers", "prompt", "choiceList", "resultMap", "timeout"},
  Timer |-> {"duration", "mode", "flag"},
  GlobalMessage |-> {"content"},
  Scores |-> {"scoreAttribute", "isAscending"}]

(* A rule has the fields of its kind. *)
IsRuleRecord(r) ==
  \E kinds \in {FlowAndListRules, InputOutputRules} :
    r.kind \in DOMAIN kinds /\ DOMAIN r = {"kind", "next", "nested"} \cup kinds[r.kind]

(* What a name is split into: getPtr asserts that there is something.     *)
IsPath(names) == names \in Seq(Range(names)) /\ names # <<>>

ASSUME GameInstanceAssumption ==
  /\ MaxQueue \in Nat
  /\ \A g \in Games : \A r \in DOMAIN g.rules : IsRuleRecord(g.rules[r])
  /\ \A g \in Games : /\ NoRule \notin DOMAIN g.rules
                      /\ g.first \in DOMAIN g.rules
                      /\ \A r \in DOMAIN g.rules :
                           {g.rules[r].next, g.rules[r].nested} \subseteq DOMAIN g.rules \cup {NoRule}
  /\ \A g \in Games : \A r \in DOMAIN g.rules :
       g.rules[r].kind = "ForEach" => Len(g.rules[r].elemList) \in Nat
  /\ \A g \in Games : g.context \in Seq(Range(g.context))
  /\ \A g \in Games : \A r \in DOMAIN g.rules :
       /\ g.rules[r].kind = "Add" => IsPath(g.rules[r].to)
       /\ g.rules[r].kind = "Timer" => IsPath(g.rules[r].flag)
       /\ g.rules[r].kind = "Discard" => g.rules[r].count \in Int
  /\ \A g \in Games : \A n \in DOMAIN g.variables :
       IsList(g.variables[n]) => g.variables[n] \in [list : Seq(Range(g.variables[n].list))]

VARIABLES
  game,           \* the game that was loaded
  stack,          \* state.ruleStateStack, the top last
  variables,      \* state.variables
  context,        \* state.context
  timerList,      \* of every Timer rule, the first timer it owns
  messageQueue,   \* state.messageQueue
  inputRequests,  \* state.inputRequests
  pc              \* where the thread of the game loop is

vars == <<game, stack, variables, context, timerList, messageQueue, inputRequests, pc>>

(* The visitors of these rules are the empty ones of RuleVisitor. *)
Unvisited == {"ParallelFor", "Extend", "InParallel", "Message", "Sort", "Scores",
              "InputVote", "Loop", "Switch", "When"}

NoTimer == [seconds_past |-> -1]

(* bodies counts how often a rule had its nested rules run (history).      *)
RuleState(r) == [rule |-> r, finished |-> FALSE, nestedRulesInProgess |-> FALSE,
                 elemListIndex |-> 0, bodies |-> 0]

Top  == stack[Len(stack)]
rule == game.rules[Top.rule]

Init ==
  /\ game \in Games
  /\ stack = <<RuleState(game.first)>>
  /\ variables = game.variables
  /\ context = game.context
  /\ timerList = [r \in DOMAIN game.rules |-> NoTimer]
  /\ messageQueue = <<>>
  /\ inputRequests = <<>>
  /\ pc = "loaded"

(***************************************************************************)
(* GameInstanceController::start                                           *)
(***************************************************************************)
(* What loadPlayers and loadAudience make of a member and the attributes   *)
(* that every member of its kind has.                                      *)
user_map(u, attributes) ==
  Map_([n \in {"name"} \cup DOMAIN attributes |->
          IF n \in DOMAIN attributes THEN attributes[n] ELSE Name(u)])

loadUsers(us, attributes) ==
  LET seq == SetToSeq(us) IN List_([i \in DOMAIN seq |-> user_map(seq[i], attributes)])

set(map, key, value) ==
  [n \in DOMAIN map \cup {key} |-> IF n = key THEN value ELSE map[n]]

(* variables["audience"] is created by looking at it. *)
with_audience(vs) ==
  [n \in DOMAIN vs \cup {"audience"} |-> IF n \in DOMAIN vs THEN vs[n] ELSE Map_(EmptyMap)]

(* A variable "audience" that is not a bool makes boost::get throw; false  *)
(* stays false.                                                            *)
loadAudience(vs, spectators) ==
  LET listed == loadUsers(spectators, game.perAudience)
  IN  IF "audience" \notin DOMAIN vs \/ ~IsBool(vs["audience"]) THEN Thrown
      ELSE Map_(IF vs["audience"].bool THEN set(vs, "audience", listed) ELSE vs)

start ==
  /\ pc = "loaded"
  /\ \E players \in SUBSET Users :
       LET seated == set(variables, "players", loadUsers(players, game.perPlayer))
           loaded == loadAudience(seated, Users \ players)
       IN  IF Failed(loaded)
           THEN pc' = loaded.failure /\ variables' = with_audience(seated)
           ELSE pc' = "idle" /\ variables' = loaded.map
  /\ UNCHANGED <<game, stack, context, timerList, messageQueue, inputRequests>>

(***************************************************************************)
(* GameInstance::updateState                                               *)
(***************************************************************************)
(* A Timer may run its nested rules any number of times: MaxTimed is many. *)
MaxTimed == 2

counted(copy, s) ==
  [s EXCEPT ![Len(s)].bodies =
     IF game.rules[copy.rule].kind = "Timer" /\ @ >= MaxTimed THEN @ ELSE @ + 1]

(* A variant of advance that must not pass: the finished rule stays.       *)
advance_unpopped(copy, s) ==
  LET nested == game.rules[copy.rule].nested
      next   == game.rules[copy.rule].next
  IN  IF copy.finished
      THEN IF next = NoRule THEN Front(s) ELSE Append(s, RuleState(next))
      ELSE IF copy.nestedRulesInProgess /\ nested # NoRule
      THEN Append(counted(copy, s), RuleState(nested))
      ELSE s

(* Another one: the nested rules are begun if they are in progress still.  *)
advance_by_reference(copy, s) ==
  LET nested == game.rules[copy.rule].nested
      next   == game.rules[copy.rule].next
  IN  IF copy.finished
      THEN Front(s) \o (IF next = NoRule THEN <<>> ELSE <<RuleState(next)>>)
      ELSE IF copy.nestedRulesInProgess /\ s[Len(s)].nestedRulesInProgess /\ nested # NoRule
      THEN Append(counted(copy, s), RuleState(nested))
      ELSE s

advance(copy, s) ==
  LET nested == game.rules[copy.rule].nested
      next   == game.rules[copy.rule].next
  IN  IF copy.finished
      THEN Front(s) \o (IF next = NoRule THEN <<>> ELSE <<RuleState(next)>>)
      ELSE IF copy.nestedRulesInProgess /\ nested # NoRule
      THEN Append(counted(copy, s), RuleState(nested))
      ELSE s

(* The visitor of the top rule is running. *)
Visiting(kinds) == pc = "updating" /\ stack # <<>> /\ rule.kind \in kinds

(* It returns, having left `top` on the stack. *)
Returns(top) ==
  /\ stack' = advance(Top, [stack EXCEPT ![Len(stack)] = top])
  /\ UNCHANGED pc

(* An exception leaves update(), and nobody catches it; or anything goes.  *)
Fails(failure) == pc' = failure.failure /\ UNCHANGED stack

(* The same, when the visitor has changed its RuleState already.           *)
FailsLeaving(failure, top) ==
  pc' = failure.failure /\ stack' = [stack EXCEPT ![Len(stack)] = top]

evaluate(e) == evaluateExpression(context, variables, game.constants, e)

(* The visitor returns without touching its RuleState, having changed the  *)
(* variables to `result`, or it fails.                                     *)
ReturnsUnfinished(result) ==
  /\ IF Failed(result)
     THEN Fails(result) /\ UNCHANGED variables
     ELSE Returns(Top) /\ variables' = result.map
  /\ UNCHANGED <<game, context, timerList, messageQueue, inputRequests>>

(***************************************************************************)
(* ForEach.  The element lives in the innermost scope; nobody enters one,  *)
(* so a game that was given none has no place for it.                      *)
(***************************************************************************)
bind_element(name, value)   == [context EXCEPT ![Len(context)] = set(@, name, value)]
erase_element_kept(name) == context
erase_element(name) ==
  [context EXCEPT ![Len(context)] = [n \in DOMAIN @ \ {name} |-> @[n]]]

elements_done_early(top) == top.elemListIndex + 1 >= Len(rule.elemList)
elements_done(top) == top.elemListIndex >= Len(rule.elemList)

visit_ForEach ==
  /\ Visiting({"ForEach"})
  /\ IF context = <<>>
     THEN Fails(Undefined) /\ UNCHANGED context
     ELSE IF elements_done(Top)
     THEN /\ Returns([Top EXCEPT !.finished = TRUE])
          /\ context' = erase_element(rule.elem)
     ELSE /\ Returns([Top EXCEPT !.nestedRulesInProgess = TRUE, !.elemListIndex = @ + 1])
          /\ context' = bind_element(rule.elem, rule.elemList[Top.elemListIndex + 1])
  /\ UNCHANGED <<game, variables, timerList, messageQueue, inputRequests>>

(***************************************************************************)
(* Add                                                                     *)
(***************************************************************************)
visit_Add ==
  LET to    == castExp(getPtr(variables, rule.to), "int")
      value == castExp(evaluate(rule.value), "int")
      bad   == FirstFailure(<<to, value>>)
  IN  /\ Visiting({"Add"})
      /\ IF Failed(bad)
         THEN Fails(bad) /\ UNCHANGED variables
         ELSE /\ Returns([Top EXCEPT !.finished = TRUE])
              /\ variables' = store(variables, rule.to, Int_(wrap(to.int + value.int))).map
      /\ UNCHANGED <<game, context, timerList, messageQueue, inputRequests>>

(***************************************************************************)
(* Timer.  Timers are never removed and find_if gives the first one of the *)
(* rule, so the later ones of the same rule cannot be told apart from none *)
(* and timerList keeps the first.  A timer stops counting once it is over. *)
(***************************************************************************)
emplace_timer(r) ==
  IF timerList[r] = NoTimer THEN [timerList EXCEPT ![r] = [seconds_past |-> 0]] ELSE timerList

isTimeOut(r) == timerList[r].seconds_past > game.rules[r].duration.int

(* The rule counts as in progress before its duration is looked at.        *)
BeginTimer ==
  /\ Visiting({"Timer"})
  /\ ~Top.nestedRulesInProgess
  /\ LET top == [Top EXCEPT !.nestedRulesInProgess = TRUE]
     IN  IF IsInt(rule.duration)
         THEN Returns(top) /\ timerList' = emplace_timer(Top.rule)
         ELSE FailsLeaving(Thrown, top) /\ UNCHANGED timerList
  /\ UNCHANGED <<game, variables, context, messageQueue, inputRequests>>

timer_finished_early == rule.mode = "AT_MOST"
timer_finished == \/ rule.mode = "AT_MOST"
                  \/ rule.mode = "EXACT" /\ isTimeOut(Top.rule)

(* The flag of a TRACK timer is stored each time its nested rules are done.*)
CheckTimer ==
  LET stored == IF rule.mode = "TRACK" THEN store(variables, rule.flag, Bool_(TRUE))
                ELSE Map_(variables)
      top    == [Top EXCEPT !.nestedRulesInProgess = FALSE]
  IN  /\ Visiting({"Timer"})
      /\ Top.nestedRulesInProgess
      /\ IF timerList[Top.rule] = NoTimer \/ Failed(stored)
         THEN /\ FailsLeaving(IF Failed(stored) THEN stored ELSE Undefined, top)
              /\ UNCHANGED variables
         ELSE /\ Returns([top EXCEPT !.finished = @ \/ timer_finished])
              /\ variables' = stored.map
      /\ UNCHANGED <<game, context, timerList, messageQueue, inputRequests>>

(* A second passes. *)
tick ==
  /\ \E r \in DOMAIN timerList : timerList[r] # NoTimer /\ ~isTimeOut(r)
  /\ timerList' = [r \in DOMAIN timerList |->
                     IF timerList[r] = NoTimer \/ isTimeOut(r) THEN timerList[r]
                     ELSE [seconds_past |-> timerList[r].seconds_past + 1]]
  /\ UNCHANGED <<game, stack, variables, context, messageQueue, inputRequests, pc>>

(***************************************************************************)
(* List rules.  They look at top-level variables only and write a copy of  *)
(* the whole state back.  None of them ever finishes.                      *)
(***************************************************************************)
listVariable(name) ==
  IF name \in DOMAIN variables THEN castExp(variables[name], "list") ELSE NotFound

(* The variables after a list is replaced by `l`. *)
updated(name, l) == Map_(set(variables, name, List_(l)))

reversed_short(l) == Reverse(Tail(l))
reversed(l) == Reverse(l)

visit_Reverse ==
  LET l == listVariable(rule.list)
  IN  /\ Visiting({"Reverse"})
      /\ ReturnsUnfinished(IF Failed(l) THEN l
                           ELSE IF l = NotFound THEN Map_(variables)
                           ELSE updated(rule.list, reversed(l.list)))

(* default_random_engine {} is fixed by the library; any order may be it.  *)
shuffles(l) == {[i \in DOMAIN l |-> l[p[i]]] : p \in {q \in [DOMAIN l -> DOMAIN l] : IsInjective(q)}}

visit_Shuffle ==
  LET l == listVariable(rule.list)
  IN  /\ Visiting({"Shuffle"})
      /\ \E s \in IF IsList(l) THEN shuffles(l.list) ELSE {<<>>} :
           ReturnsUnfinished(IF Failed(l) THEN l
                             ELSE IF l = NotFound THEN Map_(variables)
                             ELSE updated(rule.list, s))

(* With a dotted name the evaluated list is shadowed by an empty one, and  *)
(* a count of 0 then asks for a variable with the dotted name.  A negative *)
(* count is larger than any size.                                          *)
discarded(l, count) == SubSeq(l, count + 1, Len(l))
tooFew(l, count) == count < 0 \/ count > Len(l)

visit_Discard ==
  LET l      == listVariable(rule.fromList.str[1])
      dotted == Len(rule.fromList.str) > 1
      shown  == getEvaluatedList(rule.fromList, variables)
      text   == IF Failed(shown) THEN shown
                ELSE IF \A i \in DOMAIN shown.list : IsStr(shown.list[i]) THEN List_(<<>>)
                ELSE Thrown
      plain  == IF IsList(l) /\ ~tooFew(l.list, rule.count)
                THEN updated(rule.fromList.str[1], discarded(l.list, rule.count))
                ELSE IF Failed(l) THEN l ELSE Map_(variables)
  IN  /\ Visiting({"Discard"})
      /\ ReturnsUnfinished(IF ~dotted THEN plain
                           ELSE IF Failed(text) THEN text
                           ELSE IF rule.count = 0 THEN Thrown ELSE Map_(variables))

(* Deal moves elements between copies that are then forgotten, reading     *)
(* through an iterator that erase() has invalidated.                       *)
visit_Deal ==
  LET from  == listVariable(rule.fromList.str[1])
      to    == listVariable(rule.toList.str[1])
      lists == FirstFailure(<<to, from, getEvaluatedList(rule.fromList, variables),
                              getEvaluatedList(rule.toList, variables)>>)
  IN  /\ Visiting({"Deal"})
      /\ \E result \in IF Len(rule.fromList.str) < 3 \/ Len(rule.toList.str) < 3 THEN {Undefined}
                       ELSE IF NotFound \in {from, to} THEN {Undefined}
                       ELSE IF Failed(lists) THEN {lists}
                       ELSE IF tooFew(from.list, rule.count) \/ rule.count = 0 THEN {Map_(variables)}
                       ELSE {Map_(variables), Undefined} :
           ReturnsUnfinished(result)

(***************************************************************************)
(* Output and input rules.  Neither kind finishes: what was queued is      *)
(* queued again in the next round, and a queue keeps its first MaxQueue    *)
(* entries in the model.                                                   *)
(***************************************************************************)
kept(queue) == SubSeq(queue, 1, IF Len(queue) < MaxQueue THEN Len(queue) ELSE MaxQueue)

(* Only the first {...} is taken out, and a text without one is lost. *)
interpolateString(text) == IF text.braces THEN text.words ELSE ""

(* A message for every user that start() put on the list. *)
messages_to(users, words) ==
  [i \in DOMAIN users |-> [to |-> users[i], content |-> words]]

visit_GlobalMessage ==
  LET listed(kind) == IF kind \in DOMAIN variables THEN castExp(variables[kind], "list")
                      ELSE Thrown
      words   == interpolateString(rule.content)
      toAll   == messages_to(listed("players").list, words)
      toOther == messages_to(listed("audience").list, words)
  IN  /\ Visiting({"GlobalMessage"})
      /\ IF Failed(listed("players"))
         THEN Fails(Thrown) /\ UNCHANGED <<messageQueue, variables>>
         ELSE IF Failed(listed("audience"))
         THEN /\ Fails(Thrown)
              /\ messageQueue' = kept(messageQueue \o toAll)
              /\ variables' = with_audience(variables)
         ELSE /\ Returns(Top)
              /\ messageQueue' = kept(messageQueue \o toAll \o toOther)
              /\ UNCHANGED variables
      /\ UNCHANGED <<game, context, timerList, inputRequests>>

(* The choices are copied into a vector that has no room for any.          *)
createInputRequest(target, prompt, choices, result, timeout) ==
  LET user    == castExp(evaluate(target), "map")
      named   == IF Failed(user) \/ "name" \in DOMAIN user.map THEN user ELSE Undefined
      list    == castExp(evaluate(choices), "list")
      copied  == IF Failed(list) \/ list.list = <<>> THEN list ELSE Undefined
      place   == IF lookupWithIndices(context, variables, game.constants, result) = NotFound
                 THEN Thrown ELSE NotFound
      seconds == IF timeout = NotFound THEN NotFound ELSE castExp(evaluate(timeout), "int")
      bad     == FirstFailure(<<named, copied, place, seconds>>)
  IN  IF Failed(bad) THEN bad
      ELSE [to |-> user, prompt |-> interpolateString(prompt), resultPtr |-> result]

(* InputText passes an empty map for the list of choices. *)
visit_Input ==
  LET choices == IF rule.kind = "InputChoice" THEN rule.choiceList ELSE Map_(EmptyMap)
      request == createInputRequest(rule.targetUser, rule.prompt, choices, rule.result, rule.timeout)
  IN  /\ Visiting({"InputChoice", "InputText"})
      /\ IF Failed(request)
         THEN Fails(request) /\ UNCHANGED inputRequests
         ELSE Returns(Top) /\ inputRequests' = kept(Append(inputRequests, request))
      /\ UNCHANGED <<game, variables, context, timerList, messageQueue>>

visit_nothing ==
  /\ Visiting(Unvisited)
  /\ Returns(Top)
  /\ UNCHANGED <<game, variables, context, timerList, messageQueue, inputRequests>>

(***************************************************************************)
(* GameInstanceController::update, called by every tick of the server.     *)
(***************************************************************************)
update ==
  /\ pc = "idle"
  /\ pc' = "updating"
  /\ UNCHANGED <<game, stack, variables, context, timerList, messageQueue, inputRequests>>

(* Messages are taken out of their queue, requests stay in theirs. *)
popOutgoingPlayerMessages == messageQueue' = <<>>
getInputRequests == UNCHANGED inputRequests

(* No rule is left: the messages are sent to those of the addressed who    *)
(* are players of the room, and the input requests are sent once more.     *)
updateState_returns ==
  /\ pc = "updating"
  /\ stack = <<>>
  /\ popOutgoingPlayerMessages
  /\ getInputRequests
  /\ pc' = "idle"
  /\ UNCHANGED <<game, stack, variables, context, timerList>>

Visit == \/ visit_ForEach \/ visit_Add \/ BeginTimer \/ CheckTimer
         \/ visit_Reverse \/ visit_Shuffle \/ visit_Discard \/ visit_Deal
         \/ visit_GlobalMessage \/ visit_Input \/ visit_nothing

Next == start \/ update \/ Visit \/ updateState_returns \/ tick

Spec == Init /\ [][Next]_vars

(* The loop of updateState has a thread of its own, and time passes. *)
Fairness == WF_vars(Visit) /\ WF_vars(updateState_returns) /\ WF_vars(tick)

FairSpec == Spec /\ Fairness

-----------------------------------------------------------------------------
(***************************************************************************)
(* Properties                                                              *)
(***************************************************************************)
(* r is `from` or comes after it in a list of rules: it is in every set of *)
(* rules that `from` is in and that has with each rule the one after it.   *)
Follows(from, r) ==
  /\ {from, r} \subseteq DOMAIN game.rules
  /\ \A S \in SUBSET DOMAIN game.rules :
       from \in S /\ (\A q \in S : game.rules[q].next \in S \cup {NoRule}) => r \in S

(* The rule stack of updateState is a path through the game: each rule is  *)
(* one of those nested in the rule below it, and the lowest one belongs to *)
(* the outermost list, whatever the stale copy made the loop decide.       *)
StackIsRulePath ==
  \A i \in DOMAIN stack :
    Follows(IF i = 1 THEN game.first ELSE game.rules[stack[i-1].rule].nested, stack[i].rule)

(* visitImpl(ForEach) removes its element on every way out: whatever a     *)
(* scope holds beyond what the game was given belongs to a loop that is    *)
(* still running.                                                          *)
LoopVariablesAreScoped ==
  \A i \in DOMAIN context : \A n \in DOMAIN context[i] \ DOMAIN game.context[i] :
    \E k \in DOMAIN stack : LET r == game.rules[stack[k].rule]
                           IN  r.kind = "ForEach" /\ ~stack[k].finished /\ r.elem = n

(* The branch of visitImpl(Timer) for completed nested rules is entered    *)
(* before they have begun, and the round after it begins them although     *)
(* they are no longer in progress.  A Timer that is through has run them   *)
(* all the same: once if it is "at most", at least once if it is "exact",  *)
(* and then its time is over.  One that tracks never gets through.         *)
TimedRulesRun ==
  \A i \in DOMAIN stack :
    LET r == game.rules[stack[i].rule]
    IN  r.kind = "Timer" /\ stack[i].finished =>
          /\ r.mode \in {"AT_MOST", "EXACT"}
          /\ r.mode = "EXACT" => isTimeOut(stack[i].rule)
          /\ r.nested # NoRule => IF r.mode = "AT_MOST" THEN stack[i].bodies = 1
                                  ELSE stack[i].bodies > 0

(* A ForEach that is through has run its nested rules as often as its list *)
(* has elements, although the decision to run them is a round late.        *)
BodyRunsOncePerElement ==
  \A i \in DOMAIN stack :
    LET r == game.rules[stack[i].rule]
    IN  r.kind = "ForEach" /\ r.nested # NoRule /\ stack[i].finished
        => stack[i].bodies = Len(r.elemList)

(* The rules on the stack are those of the game, and the timers are theirs.*)
GameTypeOK ==
  /\ game \in Games
  /\ stack \in Seq([rule : DOMAIN game.rules, finished : BOOLEAN,
                    nestedRulesInProgess : BOOLEAN, elemListIndex : Nat, bodies : Nat])
  /\ timerList \in [DOMAIN game.rules -> [seconds_past : Nat \cup {-1}]]

(* Scopes are neither entered nor left, and only the innermost changes.    *)
OuterScopesAreKept ==
  /\ context \in Seq(Range(context))
  /\ DOMAIN context = DOMAIN game.context
  /\ \A i \in DOMAIN context \ {Len(context)} : context[i] = game.context[i]

(* Where a ForEach is in its list: it has run its nested rules once less   *)
(* than it has taken elements, and catches up in the round in which it     *)
(* finishes.                                                               *)
IsBehindByOne(s) ==
  LET r == game.rules[s.rule]
  IN  r.kind = "ForEach" =>
        /\ s.elemListIndex <= Len(r.elemList)
        /\ s.finished => s.elemListIndex = Len(r.elemList)
        /\ s.nestedRulesInProgess <=> s.elemListIndex > 0
        /\ r.nested # NoRule =>
             s.bodies = IF s.finished \/ s.elemListIndex = 0 THEN s.elemListIndex
                        ELSE s.elemListIndex - 1

(* A Timer runs its nested rules in the round in which it finishes.        *)
IsTimed(s) ==
  LET r == game.rules[s.rule]
  IN  r.kind = "Timer" =>
        /\ s.finished => \/ r.mode = "AT_MOST"
                         \/ r.mode = "EXACT" /\ timerList[s.rule] # NoTimer /\ isTimeOut(s.rule)
        /\ r.nested # NoRule =>
             /\ r.mode = "AT_MOST" => s.bodies = IF s.finished THEN 1 ELSE 0
             /\ s.finished => s.bodies > 0

RulesAreTimed == \A i \in DOMAIN stack : IsTimed(stack[i])

(* The inductive strengthening of the four invariants above.               *)
GameInvariant ==
  /\ GameTypeOK
  /\ \A i \in DOMAIN stack : IsBehindByOne(stack[i])
  /\ StackIsRulePath
  /\ OuterScopesAreKept
  /\ LoopVariablesAreScoped
  /\ RulesAreTimed

Count(list, x) == Cardinality({i \in DOMAIN list : list[i] = x})

(* The lists of the game that no rule may replace as a whole: start() does *)
(* so with the players, and a TRACK timer with whatever its flag names.    *)
Lists ==
  {n \in DOMAIN game.variables \ {"players"} :
     /\ IsList(game.variables[n])
     /\ \A r \in DOMAIN game.rules :
          game.rules[r].kind = "Timer" /\ game.rules[r].mode = "TRACK" => game.rules[r].flag # <<n>>}

Gone(n) == Len(game.variables[n].list) - Len(variables[n].list)

(* Elements are taken from the list `count` at a time. *)
TakenBy(r, n) ==
  /\ game.rules[r].kind = "Discard"
  /\ game.rules[r].count \in 1..Gone(n)
  /\ Gone(n) % game.rules[r].count = 0

(* Reverse, Shuffle and Discard, which run again and again in the loop,    *)
(* only ever reorder the lists of the game or drop from them: no element   *)
(* is duplicated or invented, and what is gone was taken by a Discard, its *)
(* whole count at a time.                                                  *)
ListsKeepTheirElements ==
  \A n \in Lists :
    LET was == game.variables[n]  is == variables[n]
    IN  /\ IsList(is)
        /\ \A x \in Range(is.list) : Count(is.list, x) <= Count(was.list, x)
        /\ Gone(n) = 0 \/ \E r \in DOMAIN game.rules : TakenBy(r, n)

(* A Discard never finishes, so once one has taken something it is visited *)
(* for ever.                                                               *)
DiscardsStay ==
  \A i \in DOMAIN stack : game.rules[stack[i].rule].kind = "Discard" =>
    ~stack[i].finished /\ ~stack[i].nestedRulesInProgess

IsKept(n) ==
  LET was == game.variables[n].list
  IN  /\ n \in DOMAIN variables
      /\ variables[n] \in [list : Seq(Range(was))]
      /\ \A x \in Range(was) : Count(variables[n].list, x) <= Count(was, x)
      /\ Gone(n) = 0 \/ (stack # <<>> /\ TakenBy(Top.rule, n))

(* The inductive strengthening of ListsKeepTheirElements. *)
ListsInvariant == DiscardsStay /\ \A n \in Lists : IsKept(n)

(* A game of rules that finish: additions, loops, and timers that end.     *)
Finishing == \A r \in DOMAIN game.rules :
  \/ game.rules[r].kind \in {"Add", "ForEach"}
  \/ game.rules[r].kind = "Timer" /\ game.rules[r].mode # "TRACK"

(* updateState comes to an end in such a game: the loop runs out of rules  *)
(* or throws, also when the nested rules of an exact timer are run over    *)
(* and over until its time has passed.                                     *)
FinishingGamesEnd == (pc = "updating" /\ Finishing) ~> (pc # "updating")
=============================================================================
