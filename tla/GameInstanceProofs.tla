------------------------- MODULE GameInstanceProofs -------------------------
(***************************************************************************)
(* What holds of every game of the rule language, however its rules are    *)
(* nested and chained: the rule stack is a path through the game, loops    *)
(* run their rules once per element and clean up, timers run theirs before *)
(* they finish, lists are reordered or shortened and never lose or gain    *)
(* anything else.                                                          *)
(***************************************************************************)
EXTENDS GameInstance, SequenceTheorems, FiniteSetTheorems, TLAPS

\* The records that updateState keeps of the rules on its stack.
RuleStates == [rule : DOMAIN game.rules, finished : BOOLEAN,
               nestedRulesInProgess : BOOLEAN, elemListIndex : Nat, bodies : Nat]

-----------------------------------------------------------------------------
(* The stack after one round of updateState. *)

\* What is on the stack in place of the visited rule when its nested rules are begun.
CountedTop(top) ==
    [top EXCEPT !.bodies = IF game.rules[Top.rule].kind = "Timer" /\ @ >= MaxTimed THEN @ ELSE @ + 1]

\* The finished rule gives way to the next, if there is one.
Passed == LET next == game.rules[Top.rule].next IN
    /\ Top.finished
    /\ next = NoRule => Len(stack') = Len(stack) - 1
    /\ next # NoRule => /\ Len(stack') = Len(stack) /\ next \in DOMAIN game.rules
                        /\ stack'[Len(stack)] = RuleState(next)

\* How long the stack is then.
LEMMA PassedLength ==
    ASSUME Passed
    PROVE  \/ Len(stack') = Len(stack) - 1
           \/ /\ Len(stack') = Len(stack)
              /\ game.rules[Top.rule].next \in DOMAIN game.rules
              /\ stack'[Len(stack)] = RuleState(game.rules[Top.rule].next)
BY DEF Passed

\* The nested rules are begun above the visited one.
Entered(top) == LET nested == game.rules[Top.rule].nested IN
    /\ ~Top.finished /\ Top.nestedRulesInProgess /\ nested # NoRule
    /\ Len(stack') = Len(stack) + 1
    /\ stack'[Len(stack)] = CountedTop(top)
    /\ nested \in DOMAIN game.rules /\ stack'[Len(stack) + 1] = RuleState(nested)

\* The visited rule stays on top.
Stayed(top) ==
    /\ ~Top.finished
    /\ ~Top.nestedRulesInProgess \/ game.rules[Top.rule].nested = NoRule
    /\ Len(stack') = Len(stack)
    /\ stack'[Len(stack)] = top

\* The visitor of the rule on top has returned, leaving `top` in its place.
Visited(top) ==
    /\ game' = game
    /\ stack # <<>>
    /\ top \in RuleStates /\ top.rule = Top.rule
    /\ Returns(top)

\* A new record of a rule of the game is one.
LEMMA RuleStateType ==
    ASSUME NEW r \in DOMAIN game.rules
    PROVE  RuleState(r) \in RuleStates
BY DEF RuleState, RuleStates

\* The top of a stack that is not empty is on it, and is the record of a rule.
LEMMA TopType ==
    ASSUME GameTypeOK, stack # <<>>
    PROVE  /\ Len(stack) \in Nat /\ Len(stack) >= 1 /\ Len(stack) \in DOMAIN stack
           /\ DOMAIN stack = 1..Len(stack)
           /\ stack \in Seq(RuleStates)
           /\ Top \in RuleStates /\ Top.rule \in DOMAIN game.rules
           /\ game.rules[Top.rule].next \in DOMAIN game.rules \cup {NoRule}
           /\ game.rules[Top.rule].nested \in DOMAIN game.rules \cup {NoRule}
           /\ NoRule \notin DOMAIN game.rules
<1>1. stack \in Seq(RuleStates) /\ game \in Games
  BY DEF GameTypeOK, RuleStates
<1>2. Len(stack) \in Nat /\ Len(stack) >= 1 /\ Len(stack) \in 1..Len(stack)
  BY <1>1, EmptySeq
<1>3. Top \in RuleStates
  BY <1>1, <1>2, ElementOfSeq DEF Top
<1>4. Top.rule \in DOMAIN game.rules
  BY <1>3 DEF RuleStates
<1>5. \A r \in DOMAIN game.rules : /\ game.rules[r].next \in DOMAIN game.rules \cup {NoRule}
                                   /\ game.rules[r].nested \in DOMAIN game.rules \cup {NoRule}
  BY <1>1, GameInstanceAssumption
<1>6. NoRule \notin DOMAIN game.rules
  BY <1>1, GameInstanceAssumption
<1>. QED  BY <1>1, <1>2, <1>3, <1>4, <1>5, <1>6

\* The rules on the stack are rules of the game.
LEMMA RulesOnStack ==
    ASSUME GameTypeOK
    PROVE  \A i \in DOMAIN stack : stack[i].rule \in DOMAIN game.rules
<1>1. stack \in Seq(RuleStates)
  BY DEF GameTypeOK, RuleStates
<1>2. \A i \in DOMAIN stack : stack[i] \in RuleStates
  BY <1>1
<1>. QED  BY <1>2 DEF RuleStates

\* updateState changes nothing below the visited rule, and above it only what
\* it decided on the copy it took before the visit.
LEMMA StackAfter ==
    ASSUME GameTypeOK, NEW top, Visited(top)
    PROVE  /\ stack' \in Seq(RuleStates)
           /\ \A i \in 1..Len(stack) - 1 : stack'[i] = stack[i]
           /\ Passed \/ Entered(top) \/ Stayed(top)
<1> DEFINE L == Len(stack)
           s == [stack EXCEPT ![L] = top]
           next == game.rules[Top.rule].next
           nested == game.rules[Top.rule].nested
<1>0. stack # <<>> /\ top \in RuleStates /\ top.rule = Top.rule /\ stack' = advance(Top, s)
  BY DEF Visited, Returns
<1>1. /\ L \in Nat /\ L >= 1 /\ stack \in Seq(RuleStates)
      /\ Top \in RuleStates /\ next \in DOMAIN game.rules \cup {NoRule}
      /\ nested \in DOMAIN game.rules \cup {NoRule} /\ NoRule \notin DOMAIN game.rules
  BY <1>0, TopType
<1>2. s \in Seq(RuleStates) /\ Len(s) = L /\ s[L] = top /\ \A i \in 1..L-1 : s[i] = stack[i]
  BY <1>0, <1>1
<1>3. \A r \in DOMAIN game.rules : RuleState(r) \in RuleStates
  BY RuleStateType
<1> HIDE DEF L, s
<1>4. CASE Top.finished
  <2>1. stack' = Front(s) \o (IF next = NoRule THEN <<>> ELSE <<RuleState(next)>>)
    BY <1>0, <1>4 DEF advance
  <2>2. /\ Front(s) \in Seq(RuleStates) /\ Len(Front(s)) = L - 1
        /\ \A i \in 1..L-1 : Front(s)[i] = stack[i]
    BY <1>1, <1>2 DEF Front
  <2>3. CASE next = NoRule
    <3>1. stack' = Front(s)
      BY <2>1, <2>2, <2>3
    <3>. QED  BY <1>1, <1>4, <2>2, <2>3, <3>1 DEF Passed, L
  <2>4. CASE next # NoRule
    <3>1. stack' = Front(s) \o <<RuleState(next)>> /\ RuleState(next) \in RuleStates
      BY <1>1, <1>3, <2>1, <2>4
    <3> HIDE DEF next
    <3>2. /\ stack' \in Seq(RuleStates) /\ Len(stack') = L
          /\ \A i \in 1..L-1 : stack'[i] = stack[i]
          /\ stack'[L] = RuleState(next)
      BY <1>1, <2>2, <3>1
    <3>3. next \in DOMAIN game.rules
      BY <1>1, <2>4
    <3>. QED  BY <1>4, <2>4, <3>2, <3>3 DEF Passed, L, next
  <2>. QED  BY <2>3, <2>4
<1>5. CASE ~Top.finished /\ Top.nestedRulesInProgess /\ nested # NoRule
  <2>1. stack' = Append(counted(Top, s), RuleState(nested))
    BY <1>0, <1>5 DEF advance
  <2>2. CountedTop(top) \in RuleStates
    BY <1>0 DEF CountedTop, RuleStates
  <2>3. counted(Top, s) = [s EXCEPT ![L] = CountedTop(top)]
    <3>1. s = [s EXCEPT ![L] = top] /\ L \in DOMAIN s /\ s[L] = top
      BY <1>1, <1>2
    <3>. QED  BY <1>2, <3>1 DEF counted, CountedTop
  <2>4. /\ counted(Top, s) \in Seq(RuleStates) /\ Len(counted(Top, s)) = L
        /\ counted(Top, s)[L] = CountedTop(top)
        /\ \A i \in 1..L-1 : counted(Top, s)[i] = stack[i]
    BY <1>1, <1>2, <2>2, <2>3
  <2>5. nested \in DOMAIN game.rules /\ RuleState(nested) \in RuleStates
    BY <1>1, <1>3, <1>5
  <2> HIDE DEF nested
  <2>6. /\ stack' \in Seq(RuleStates) /\ Len(stack') = L + 1
        /\ \A i \in 1..L : stack'[i] = counted(Top, s)[i]
        /\ stack'[L + 1] = RuleState(nested)
    BY <1>1, <2>1, <2>4, <2>5
  <2>7. L \in 1..L /\ \A i \in 1..L-1 : i \in 1..L
    BY <1>1
  <2>. QED  BY <1>5, <2>4, <2>5, <2>6, <2>7 DEF Entered, L, nested
<1>6. CASE ~Top.finished /\ (~Top.nestedRulesInProgess \/ nested = NoRule)
  <2>1. stack' = s
    BY <1>0, <1>6 DEF advance
  <2>. QED  BY <1>2, <1>6, <2>1 DEF Stayed, L
<1>. QED  BY <1>4, <1>5, <1>6

\* So each record on the stack was there before, is the visited one, or is new.
LEMMA EntriesAfter ==
    ASSUME GameTypeOK, NEW top, Visited(top), NEW i \in DOMAIN stack'
    PROVE  \/ i \in DOMAIN stack /\ i < Len(stack) /\ stack'[i] = stack[i]
           \/ i = Len(stack) /\ Stayed(top) /\ stack'[i] = top
           \/ i = Len(stack) /\ Entered(top) /\ stack'[i] = CountedTop(top)
           \/ \E r \in DOMAIN game.rules : stack'[i] = RuleState(r)
<1>1. /\ Len(stack) \in Nat /\ Len(stack) >= 1 /\ DOMAIN stack = 1..Len(stack)
  BY TopType DEF Visited
<1>2. /\ stack' \in Seq(RuleStates)
      /\ \A k \in 1..Len(stack) - 1 : stack'[k] = stack[k]
      /\ Passed \/ Entered(top) \/ Stayed(top)
  BY StackAfter
<1>3. i \in 1..Len(stack') /\ Len(stack') \in Nat
  BY <1>2
<1>4. CASE i < Len(stack)
  BY <1>1, <1>2, <1>3, <1>4
<1>5. CASE i >= Len(stack) /\ Passed
  <2>1. CASE Len(stack') = Len(stack) - 1
    BY <1>1, <1>3, <1>5, <2>1
  <2>2. CASE /\ Len(stack') = Len(stack)
             /\ game.rules[Top.rule].next \in DOMAIN game.rules
             /\ stack'[Len(stack)] = RuleState(game.rules[Top.rule].next)
    <3>1. i = Len(stack)
      BY <1>1, <1>3, <1>5, <2>2
    <3>. QED  BY <2>2, <3>1
  <2>. QED  BY <1>5, <2>1, <2>2, PassedLength, Zenon
<1>6. CASE i >= Len(stack) /\ Entered(top)
  <2>1. i = Len(stack) \/ i = Len(stack) + 1
    BY <1>1, <1>3, <1>6 DEF Entered
  <2>. QED  BY <1>6, <2>1 DEF Entered
<1>7. CASE i >= Len(stack) /\ Stayed(top)
  <2>1. i = Len(stack)
    BY <1>1, <1>3, <1>7 DEF Stayed
  <2>. QED  BY <1>7, <2>1 DEF Stayed
<1>. QED  BY <1>1, <1>2, <1>3, <1>4, <1>5, <1>6, <1>7

\* The record of a visited rule is still one of that rule.
LEMMA CountedTopType ==
    ASSUME NEW top \in RuleStates
    PROVE  /\ CountedTop(top).rule = top.rule
           /\ CountedTop(top).finished = top.finished
           /\ CountedTop(top).nestedRulesInProgess = top.nestedRulesInProgess
           /\ CountedTop(top).elemListIndex = top.elemListIndex
           /\ CountedTop(top).bodies = IF game.rules[Top.rule].kind = "Timer" /\ top.bodies >= MaxTimed
                                       THEN top.bodies ELSE top.bodies + 1
BY DEF CountedTop, RuleStates

-----------------------------------------------------------------------------
(* The path. *)

\* A rule follows itself.
LEMMA FollowsSelf ==
    ASSUME NEW r \in DOMAIN game.rules
    PROVE  Follows(r, r)
BY DEF Follows

\* What comes after a rule follows what that rule follows.
LEMMA FollowsNext ==
    ASSUME NEW from, NEW r, Follows(from, r), NEW next, next = game.rules[r].next,
           next \in DOMAIN game.rules, NoRule \notin DOMAIN game.rules
    PROVE  Follows(from, next)
BY DEF Follows

\* Passing on to the next rule, or into the nested ones, makes a path of a path.
LEMMA PathAfter ==
    ASSUME GameTypeOK, StackIsRulePath, NEW top, Visited(top)
    PROVE  StackIsRulePath'
<1> DEFINE L == Len(stack)
           below(s, i) == IF i = 1 THEN game.first ELSE game.rules[s[i-1].rule].nested
<1>0. game' = game /\ stack # <<>> /\ top \in RuleStates /\ top.rule = Top.rule
  BY DEF Visited
<1>1. /\ L \in Nat /\ L >= 1 /\ L \in DOMAIN stack /\ DOMAIN stack = 1..L
      /\ NoRule \notin DOMAIN game.rules
  BY <1>0, TopType
<1>2. /\ stack' \in Seq(RuleStates)
      /\ \A k \in 1..L - 1 : stack'[k] = stack[k]
      /\ Passed \/ Entered(top) \/ Stayed(top)
  BY StackAfter
<1>3. \A i \in DOMAIN stack : Follows(below(stack, i), stack[i].rule)
  BY DEF StackIsRulePath
<1>4. Follows(below(stack, L), Top.rule)
  BY <1>1, <1>3 DEF Top
<1>5. CountedTop(top).rule = Top.rule
  BY <1>0, CountedTopType
<1>6. \A r : RuleState(r).rule = r
  BY DEF RuleState
<1>7. SUFFICES ASSUME NEW i \in DOMAIN stack'
               PROVE  Follows(below(stack', i), stack'[i].rule)
  BY <1>0 DEF StackIsRulePath, Follows
<1>8. i \in 1..Len(stack') /\ Len(stack') \in Nat
  BY <1>2
<1>9. i <= L => below(stack', i) = below(stack, i)
  BY <1>1, <1>2, <1>8
<1> HIDE DEF L, below
<1>10. CASE i < L
  BY <1>1, <1>2, <1>3, <1>8, <1>9, <1>10
<1>11. CASE i = L /\ Passed
  <2>1. /\ game.rules[Top.rule].next \in DOMAIN game.rules
        /\ stack'[L].rule = game.rules[Top.rule].next
    <3>1. Len(stack') # L - 1
      BY <1>1, <1>8, <1>11
    <3>. QED  BY <1>6, <1>11, <3>1, PassedLength, Zenon DEF L
  <2>. QED  BY <1>1, <1>4, <1>9, <1>11, <2>1, FollowsNext
<1>12. CASE i = L /\ (Entered(top) \/ Stayed(top))
  <2>1. stack'[L].rule = Top.rule
    BY <1>0, <1>5, <1>12 DEF Entered, Stayed, L
  <2>. QED  BY <1>1, <1>4, <1>9, <1>12, <2>1
<1>13. CASE i > L
  <2>0. Len(stack') # L - 1 /\ Len(stack') # L
    BY <1>1, <1>8, <1>13
  <2>1. Entered(top) /\ i = L + 1
    <3>1. Entered(top)
      BY <1>2, <2>0, PassedLength, Zenon DEF Stayed, L
    <3>2. Len(stack') = L + 1
      BY <3>1 DEF Entered, L
    <3>. QED  BY <1>1, <1>8, <1>13, <3>1, <3>2
  <2>2. stack'[i].rule = game.rules[Top.rule].nested /\ stack'[i].rule \in DOMAIN game.rules
    BY <1>6, <2>1 DEF Entered, L
  <2>3. stack'[L].rule = Top.rule
    BY <1>5, <2>1 DEF Entered, L
  <2>4. below(stack', i) = game.rules[stack'[L].rule].nested
    BY <1>1, <2>1 DEF below
  <2>. QED  BY <2>2, <2>3, <2>4, FollowsSelf
<1>. QED  BY <1>1, <1>2, <1>8, <1>10, <1>11, <1>12, <1>13

-----------------------------------------------------------------------------
(* Loops. *)

\* A new record is that of a loop that has not begun.
LEMMA RuleStateBehind ==
    ASSUME game \in Games, NEW r \in DOMAIN game.rules
    PROVE  IsBehindByOne(RuleState(r))
<1>1. game.rules[r].kind = "ForEach" => Len(game.rules[r].elemList) \in Nat
  BY GameInstanceAssumption
<1>. QED  BY <1>1 DEF IsBehindByOne, RuleState

\* So only the visited rule can disturb the count of the loops.
LEMMA LoopsAfter ==
    ASSUME GameTypeOK, \A i \in DOMAIN stack : IsBehindByOne(stack[i]), NEW top, Visited(top),
           Stayed(top) => IsBehindByOne(top),
           Entered(top) => IsBehindByOne(CountedTop(top))
    PROVE  (\A i \in DOMAIN stack : IsBehindByOne(stack[i]))'
<1>1. \A r \in DOMAIN game.rules : IsBehindByOne(RuleState(r))
  BY RuleStateBehind DEF GameTypeOK
<1>2. ASSUME NEW i \in DOMAIN stack' PROVE IsBehindByOne(stack'[i])
  BY <1>1, <1>2, EntriesAfter
<1>3. game' = game
  BY DEF Visited
<1>. QED  BY <1>2, <1>3 DEF IsBehindByOne

\* Rules of other kinds do not.
LEMMA OtherLoopsAfter ==
    ASSUME GameTypeOK, \A i \in DOMAIN stack : IsBehindByOne(stack[i]), NEW top, Visited(top),
           rule.kind # "ForEach"
    PROVE  (\A i \in DOMAIN stack : IsBehindByOne(stack[i]))'
<1>1. IsBehindByOne(top) /\ IsBehindByOne(CountedTop(top))
  BY CountedTopType DEF Visited, IsBehindByOne, rule
<1>. QED  BY <1>1, LoopsAfter

\* A loop that has not finished stays on the stack, unless it is the visited one
\* and finishes.
LEMMA LoopGoesOn ==
    ASSUME GameTypeOK, NEW top, Visited(top), NEW k \in DOMAIN stack, ~stack[k].finished,
           k < Len(stack) \/ ~top.finished
    PROVE  k \in DOMAIN stack' /\ stack'[k].rule = stack[k].rule /\ ~stack'[k].finished
<1>0. stack # <<>> /\ top \in RuleStates /\ top.rule = Top.rule
  BY DEF Visited
<1>1. Len(stack) \in Nat /\ Len(stack) >= 1 /\ DOMAIN stack = 1..Len(stack)
  BY <1>0, TopType
<1>2. /\ stack' \in Seq(RuleStates)
      /\ \A i \in 1..Len(stack) - 1 : stack'[i] = stack[i]
      /\ Passed \/ Entered(top) \/ Stayed(top)
  BY StackAfter
<1>3. DOMAIN stack' = 1..Len(stack') /\ Len(stack') \in Nat
  BY <1>2
<1>4. CASE k < Len(stack)
  <2>1. Len(stack') >= Len(stack) - 1
    <3>1. \/ Len(stack') = Len(stack) - 1 \/ Len(stack') = Len(stack) \/ Len(stack') = Len(stack) + 1
      BY <1>2, PassedLength, Zenon DEF Entered, Stayed
    <3>2. CASE Len(stack') = Len(stack) - 1
      BY <1>1, <3>2
    <3>3. CASE Len(stack') = Len(stack)
      BY <1>1, <3>3
    <3>4. CASE Len(stack') = Len(stack) + 1
      BY <1>1, <3>4
    <3>. QED  BY <3>1, <3>2, <3>3, <3>4, Zenon
  <2>. QED  BY <1>1, <1>2, <1>3, <1>4, <2>1
<1>5. CASE k = Len(stack)
  <2>1. ~Top.finished /\ ~top.finished /\ stack[k].rule = Top.rule
    BY <1>1, <1>5 DEF Top
  <2>2. Entered(top) \/ Stayed(top)
    BY <1>2, <2>1 DEF Passed
  <2>3. Len(stack') >= Len(stack) /\ (stack'[k] = top \/ stack'[k] = CountedTop(top))
    BY <1>1, <1>5, <2>2 DEF Entered, Stayed
  <2>. QED  BY <1>0, <1>1, <1>3, <1>5, <2>1, <2>3, CountedTopType
<1>. QED  BY <1>1, <1>4, <1>5

\* What a scope holds belongs to a loop that has not finished.
Owned(n) == \E k \in DOMAIN stack : /\ game.rules[stack[k].rule].kind = "ForEach"
                                    /\ ~stack[k].finished
                                    /\ game.rules[stack[k].rule].elem = n

\* A name keeps its owner, unless that is the visited loop, which finishes.
LEMMA OwnedAfter ==
    ASSUME GameTypeOK, NEW top, Visited(top), NEW n, Owned(n),
           rule.kind = "ForEach" /\ top.finished => Top.finished \/ rule.elem # n
    PROVE  Owned(n)'
<1>1. PICK k \in DOMAIN stack : /\ game.rules[stack[k].rule].kind = "ForEach"
                                /\ ~stack[k].finished
                                /\ game.rules[stack[k].rule].elem = n
  BY DEF Owned
<1>2. Len(stack) \in Nat /\ DOMAIN stack = 1..Len(stack)
  BY TopType DEF Visited
<1>3. k < Len(stack) \/ ~top.finished
  BY <1>1, <1>2 DEF rule, Top
<1>4. k \in DOMAIN stack' /\ stack'[k].rule = stack[k].rule /\ ~stack'[k].finished
  BY <1>1, <1>3, LoopGoesOn
<1>5. game' = game
  BY DEF Visited
<1>. QED  BY <1>1, <1>4, <1>5 DEF Owned

\* Scopes that do not change stay those of running loops.
LEMMA ScopesAfter ==
    ASSUME GameTypeOK, LoopVariablesAreScoped, NEW top, Visited(top), context' = context,
           rule.kind = "ForEach" => ~top.finished \/ Top.finished, OuterScopesAreKept
    PROVE  OuterScopesAreKept' /\ LoopVariablesAreScoped'
<1>1. \A i \in DOMAIN context : \A n \in DOMAIN context[i] \ DOMAIN game.context[i] : Owned(n)
  BY DEF LoopVariablesAreScoped, Owned
<1>2. \A n : Owned(n) => Owned(n)'
  BY OwnedAfter
<1>3. game' = game
  BY DEF Visited
<1>4. \A i \in DOMAIN context' : \A n \in DOMAIN context'[i] \ DOMAIN game'.context[i] : Owned(n)'
  BY <1>1, <1>2, <1>3
<1>5. OuterScopesAreKept'
  BY <1>3 DEF OuterScopesAreKept
<1>. QED  BY <1>4, <1>5 DEF LoopVariablesAreScoped, Owned

-----------------------------------------------------------------------------
(* Timers. *)

\* A timer that is over stays as it is.
TimersStay ==
    \A r \in DOMAIN game.rules :
      timerList[r] # NoTimer /\ isTimeOut(r) => timerList'[r] = timerList[r]

\* A new record is that of a timer that has not begun.
LEMMA RuleStateTimed ==
    ASSUME NEW r
    PROVE  IsTimed(RuleState(r))
BY DEF IsTimed, RuleState

\* The record of a rule that is timed stays so.
LEMMA TimedStays ==
    ASSUME game' = game, TimersStay,
           \A i \in DOMAIN stack' : stack'[i] \in RuleStates /\ IsTimed(stack'[i])
    PROVE  RulesAreTimed'
<1> SUFFICES ASSUME NEW i \in DOMAIN stack'
             PROVE  IsTimed(stack[i])'
  BY DEF RulesAreTimed
<1> DEFINE r == stack'[i].rule
<1>1. IsTimed(stack'[i]) /\ r \in DOMAIN game.rules
  BY DEF RuleStates
<1>2. timerList[r] # NoTimer /\ isTimeOut(r) => timerList'[r] = timerList[r]
  BY <1>1 DEF TimersStay
<1>. QED  BY <1>1, <1>2 DEF IsTimed, isTimeOut

\* So only the visited rule can disturb that.
LEMMA TimersAfter ==
    ASSUME GameTypeOK, RulesAreTimed, NEW top, Visited(top), TimersStay,
           Stayed(top) => IsTimed(top),
           Entered(top) => IsTimed(CountedTop(top))
    PROVE  RulesAreTimed'
<1>1. game' = game /\ stack' \in Seq(RuleStates)
  BY StackAfter DEF Visited
<1>2. \A i \in DOMAIN stack' : stack'[i] \in RuleStates
  BY <1>1
<1>3. ASSUME NEW i \in DOMAIN stack' PROVE IsTimed(stack'[i])
  <2>1. \A r : IsTimed(RuleState(r))
    BY RuleStateTimed
  <2>. QED  BY <1>3, <2>1, EntriesAfter DEF RulesAreTimed
<1>. QED  BY <1>1, <1>2, <1>3, TimedStays

\* Rules of other kinds do not.
LEMMA OtherTimersAfter ==
    ASSUME GameTypeOK, RulesAreTimed, NEW top, Visited(top), TimersStay, rule.kind # "Timer"
    PROVE  RulesAreTimed'
<1>1. IsTimed(top) /\ IsTimed(CountedTop(top))
  BY CountedTopType DEF Visited, IsTimed, rule
<1>. QED  BY <1>1, TimersAfter

-----------------------------------------------------------------------------
(* Steps. *)

\* The type of the stack and the timers does not depend on anything else.
LEMMA TypeAfter ==
    ASSUME GameTypeOK, NEW top, Visited(top),
           timerList' \in [DOMAIN game.rules -> [seconds_past : Nat \cup {-1}]]
    PROVE  GameTypeOK'
<1>1. stack' \in Seq(RuleStates)
  BY StackAfter
<1>2. game' = game
  BY DEF Visited
<1>. QED  BY <1>1, <1>2 DEF GameTypeOK, RuleStates

\* A visit of a rule that is neither a loop nor a timer preserves the invariant.
LEMMA PlainVisit ==
    ASSUME GameInvariant, NEW top, Visited(top), timerList' = timerList, context' = context,
           rule.kind \notin {"ForEach", "Timer"}
    PROVE  GameInvariant'
<1>1. /\ GameTypeOK /\ (\A i \in DOMAIN stack : IsBehindByOne(stack[i]))
      /\ StackIsRulePath /\ OuterScopesAreKept /\ LoopVariablesAreScoped /\ RulesAreTimed
  BY DEF GameInvariant
<1>2. GameTypeOK'
  BY <1>1, TypeAfter DEF GameTypeOK
<1>3. (\A i \in DOMAIN stack : IsBehindByOne(stack[i]))'
  BY <1>1, OtherLoopsAfter
<1>4. StackIsRulePath'
  BY <1>1, PathAfter
<1>5. OuterScopesAreKept' /\ LoopVariablesAreScoped'
  BY <1>1, ScopesAfter
<1>6. RulesAreTimed'
  BY <1>1, OtherTimersAfter DEF TimersStay
<1>. QED  BY <1>2, <1>3, <1>4, <1>5, <1>6 DEF GameInvariant

\* What a step leaves alone that does not touch the game, the stack, the scopes and
\* the timers.
LEMMA Untouched ==
    ASSUME GameInvariant, UNCHANGED <<game, stack, context, timerList>>
    PROVE  GameInvariant'
BY DEF GameInvariant, GameTypeOK, IsBehindByOne, StackIsRulePath, Follows, OuterScopesAreKept,
       LoopVariablesAreScoped, RulesAreTimed, IsTimed, isTimeOut

\* The visitor of a rule that is not a loop is visiting.
LEMMA VisitingTop ==
    ASSUME GameInvariant, NEW kinds, Visiting(kinds)
    PROVE  /\ stack # <<>> /\ Top \in RuleStates /\ Top.rule \in DOMAIN game.rules
           /\ rule.kind \in kinds /\ GameTypeOK
BY TopType DEF Visiting, GameInvariant

\* A list, message or input rule.
LEMMA UnfinishedVisit ==
    ASSUME GameInvariant, NEW kinds, Visiting(kinds), kinds \cap {"ForEach", "Timer"} = {},
           Returns(Top), UNCHANGED <<game, context, timerList>>
    PROVE  GameInvariant'
<1>1. Visited(Top) /\ rule.kind \notin {"ForEach", "Timer"}
  BY VisitingTop DEF Visited
<1>. QED  BY <1>1, PlainVisit

\* A rule that changes variables only, or fails.
LEMMA ListVisit ==
    ASSUME GameInvariant, NEW kinds, Visiting(kinds), kinds \cap {"ForEach", "Timer"} = {},
           NEW result, ReturnsUnfinished(result)
    PROVE  GameInvariant'
<1>1. CASE Failed(result)
  BY <1>1, Untouched DEF ReturnsUnfinished, Fails
<1>2. CASE ~Failed(result)
  BY <1>2, UnfinishedVisit DEF ReturnsUnfinished
<1>. QED  BY <1>1, <1>2

\* An addition.
LEMMA AddVisit ==
    ASSUME GameInvariant, visit_Add
    PROVE  GameInvariant'
<1>1. Visiting({"Add"}) /\ UNCHANGED <<game, context, timerList>>
  BY DEF visit_Add
<1>2. UNCHANGED stack \/ Returns([Top EXCEPT !.finished = TRUE])
  BY DEF visit_Add, Fails
<1>3. CASE UNCHANGED stack
  BY <1>1, <1>3, Untouched
<1>4. CASE Returns([Top EXCEPT !.finished = TRUE])
  <2>1. /\ stack # <<>> /\ Top \in RuleStates /\ rule.kind \in {"Add"}
    BY <1>1, VisitingTop
  <2>2. PICK top \in RuleStates : top = [Top EXCEPT !.finished = TRUE]
    BY <2>1 DEF RuleStates
  <2>3. top.rule = Top.rule
    BY <2>1, <2>2 DEF RuleStates
  <2>4. Visited(top)
    BY <1>1, <1>4, <2>1, <2>2, <2>3 DEF Visited
  <2>. QED  BY <1>1, <2>1, <2>4, PlainVisit
<1>. QED  BY <1>2, <1>3, <1>4

\* The visitor of a timer failed after it had changed its record.
Interrupted ==
    /\ game' = game
    /\ stack # <<>> /\ rule.kind = "Timer"
    /\ \E flag \in BOOLEAN :
         stack' = [stack EXCEPT ![Len(stack)] = [Top EXCEPT !.nestedRulesInProgess = flag]]

\* Only that the nested rules are in progress may be wrong then.
LEMMA InterruptedStack ==
    ASSUME GameTypeOK, Interrupted
    PROVE  /\ stack' \in Seq(RuleStates) /\ DOMAIN stack' = DOMAIN stack
           /\ \A i \in DOMAIN stack :
                /\ stack'[i].rule = stack[i].rule /\ stack'[i].finished = stack[i].finished
                /\ stack'[i].bodies = stack[i].bodies
                /\ stack'[i].elemListIndex = stack[i].elemListIndex
                /\ \/ stack'[i].nestedRulesInProgess = stack[i].nestedRulesInProgess
                   \/ game.rules[stack[i].rule].kind = "Timer"
<1> DEFINE L == Len(stack)
<1>1. stack \in Seq(RuleStates) /\ L \in DOMAIN stack /\ Top \in RuleStates /\ Top = stack[L]
  BY TopType DEF Interrupted, Top
<1>2. PICK flag \in BOOLEAN : stack' = [stack EXCEPT ![L] = [Top EXCEPT !.nestedRulesInProgess = flag]]
  BY DEF Interrupted
<1>3. PICK top \in RuleStates : top = [Top EXCEPT !.nestedRulesInProgess = flag]
  BY <1>1 DEF RuleStates
<1>4. /\ top.rule = Top.rule /\ top.finished = Top.finished
      /\ top.bodies = Top.bodies /\ top.elemListIndex = Top.elemListIndex
  BY <1>1, <1>3 DEF RuleStates
<1>5. game.rules[stack[L].rule].kind = "Timer"
  BY <1>1 DEF Interrupted, rule
<1> HIDE DEF L
<1>6. stack' = [stack EXCEPT ![L] = top]
  BY <1>2, <1>3
<1>7. stack'[L] = top /\ \A i \in DOMAIN stack : i # L => stack'[i] = stack[i]
  BY <1>1, <1>6
<1>8. stack' \in Seq(RuleStates) /\ DOMAIN stack' = DOMAIN stack
  BY <1>1, <1>6
<1>. QED  BY <1>1, <1>4, <1>5, <1>7, <1>8

\* Nothing of the invariant depends on that.
LEMMA InterruptedVisit ==
    ASSUME GameInvariant, Interrupted, UNCHANGED <<context, timerList>>
    PROVE  GameInvariant'
<1>1. /\ GameTypeOK /\ (\A i \in DOMAIN stack : IsBehindByOne(stack[i]))
      /\ StackIsRulePath /\ OuterScopesAreKept /\ LoopVariablesAreScoped /\ RulesAreTimed
  BY DEF GameInvariant
<1>2. game' = game
  BY DEF Interrupted
<1>3. /\ stack' \in Seq(RuleStates) /\ DOMAIN stack' = DOMAIN stack
      /\ \A i \in DOMAIN stack :
           /\ stack'[i].rule = stack[i].rule /\ stack'[i].finished = stack[i].finished
           /\ stack'[i].bodies = stack[i].bodies
           /\ stack'[i].elemListIndex = stack[i].elemListIndex
           /\ \/ stack'[i].nestedRulesInProgess = stack[i].nestedRulesInProgess
              \/ game.rules[stack[i].rule].kind = "Timer"
  BY <1>1, InterruptedStack
<1>4. GameTypeOK'
  BY <1>1, <1>2, <1>3 DEF GameTypeOK, RuleStates
<1>5. (\A i \in DOMAIN stack : IsBehindByOne(stack[i]))'
  BY <1>1, <1>2, <1>3 DEF IsBehindByOne
<1>6. StackIsRulePath'
  <2>1. \A i \in DOMAIN stack : i # 1 => i - 1 \in DOMAIN stack
    BY <1>1, TopType DEF Interrupted
  <2>2. ASSUME NEW i \in DOMAIN stack'
        PROVE  Follows(IF i = 1 THEN game.first ELSE game.rules[stack'[i-1].rule].nested, stack'[i].rule)
    <3>1. CASE i = 1
      BY <1>1, <1>3, <2>2, <3>1 DEF StackIsRulePath
    <3>2. CASE i # 1
      BY <1>1, <1>3, <2>1, <2>2, <3>2 DEF StackIsRulePath
    <3>. QED  BY <3>1, <3>2
  <2>. QED  BY <1>2, <2>2 DEF StackIsRulePath, Follows
<1>7. OuterScopesAreKept' /\ LoopVariablesAreScoped'
  BY <1>1, <1>2, <1>3 DEF OuterScopesAreKept, LoopVariablesAreScoped
<1>8. RulesAreTimed'
  BY <1>1, <1>2, <1>3 DEF RulesAreTimed, IsTimed, isTimeOut
<1>. QED  BY <1>4, <1>5, <1>6, <1>7, <1>8 DEF GameInvariant

\* A timer is begun: nothing is run yet.
LEMMA BeginTimerVisit ==
    ASSUME GameInvariant, BeginTimer
    PROVE  GameInvariant'
<1>1. Visiting({"Timer"}) /\ UNCHANGED <<game, context>>
  BY DEF BeginTimer
<1>2. \/ Interrupted /\ UNCHANGED timerList
      \/ /\ Returns([Top EXCEPT !.nestedRulesInProgess = TRUE])
         /\ timerList' = emplace_timer(Top.rule)
  BY <1>1 DEF BeginTimer, FailsLeaving, Interrupted, Visiting
<1>3. CASE Interrupted /\ UNCHANGED timerList
  BY <1>1, <1>3, InterruptedVisit
<1>4. CASE /\ Returns([Top EXCEPT !.nestedRulesInProgess = TRUE])
           /\ timerList' = emplace_timer(Top.rule)
  <2>1. /\ stack # <<>> /\ Top \in RuleStates /\ Top.rule \in DOMAIN game.rules
        /\ rule.kind = "Timer"
    BY <1>1, VisitingTop
  <2>2. PICK top \in RuleStates : top = [Top EXCEPT !.nestedRulesInProgess = TRUE]
    BY <2>1 DEF RuleStates
  <2>3. top.rule = Top.rule /\ top.finished = Top.finished /\ top.bodies = Top.bodies
    BY <2>1, <2>2 DEF RuleStates
  <2>4. Visited(top)
    BY <1>1, <1>4, <2>1, <2>2, <2>3 DEF Visited
  <2>5. /\ GameTypeOK /\ (\A i \in DOMAIN stack : IsBehindByOne(stack[i]))
        /\ StackIsRulePath /\ OuterScopesAreKept /\ LoopVariablesAreScoped /\ RulesAreTimed
    BY DEF GameInvariant
  <2>6. timerList \in [DOMAIN game.rules -> [seconds_past : Nat \cup {-1}]]
    BY <2>5 DEF GameTypeOK
  <2>7. [seconds_past |-> 0] \in [seconds_past : Nat \cup {-1}] /\ [seconds_past |-> 0] # NoTimer
    <3>1. [seconds_past |-> 0].seconds_past = 0 /\ NoTimer.seconds_past = -1
      BY DEF NoTimer
    <3>. QED  BY <3>1
  <2>8. /\ timerList' \in [DOMAIN game.rules -> [seconds_past : Nat \cup {-1}]]
        /\ TimersStay
    BY <1>4, <2>1, <2>6, <2>7 DEF emplace_timer, TimersStay
  <2>9. GameTypeOK'
    BY <1>1, <2>4, <2>5, <2>8, TypeAfter
  <2>10. (\A i \in DOMAIN stack : IsBehindByOne(stack[i]))'
    BY <2>1, <2>4, <2>5, OtherLoopsAfter
  <2>11. StackIsRulePath' /\ OuterScopesAreKept' /\ LoopVariablesAreScoped'
    BY <1>1, <2>1, <2>4, <2>5, PathAfter, ScopesAfter
  <2>12. RulesAreTimed'
    <3>1. ~Entered(top)
      BY DEF BeginTimer, Entered
    <3>2. IsTimed(Top)
      BY <2>1, <2>5, TopType DEF RulesAreTimed, Top
    <3>3. IsTimed(top)
      BY <2>3, <3>2 DEF IsTimed
    <3>. QED  BY <2>4, <2>5, <2>8, <3>1, <3>3, TimersAfter
  <2>. QED  BY <2>9, <2>10, <2>11, <2>12 DEF GameInvariant
<1>. QED  BY <1>2, <1>3, <1>4

\* The nested rules of a timer are through.
LEMMA CheckTimerVisit ==
    ASSUME GameInvariant, CheckTimer
    PROVE  GameInvariant'
<1>1. Visiting({"Timer"}) /\ UNCHANGED <<game, context, timerList>>
  BY DEF CheckTimer
<1> DEFINE begun == [Top EXCEPT !.nestedRulesInProgess = FALSE]
           checked == [begun EXCEPT !.finished = @ \/ timer_finished]
<1>2. Interrupted \/ (Returns(checked) /\ timerList[Top.rule] # NoTimer)
  BY <1>1 DEF CheckTimer, FailsLeaving, Interrupted, Visiting
<1>3. CASE Interrupted
  BY <1>1, <1>3, InterruptedVisit
<1>4. CASE Returns(checked) /\ timerList[Top.rule] # NoTimer
  <2>1. /\ stack # <<>> /\ Top \in RuleStates /\ rule.kind = "Timer"
    BY <1>1, VisitingTop
  <2>2. PICK top \in RuleStates : top = checked
    <3>1. (Top.finished \/ timer_finished) \in BOOLEAN
      OBVIOUS
    <3>. QED  BY <2>1, <3>1 DEF RuleStates
  <2>3. /\ top.rule = Top.rule /\ top.bodies = Top.bodies
        /\ top.finished = (Top.finished \/ timer_finished)
    BY <2>1, <2>2 DEF RuleStates
  <2>4. Visited(top)
    BY <1>1, <1>4, <2>1, <2>2, <2>3 DEF Visited
  <2>5. /\ GameTypeOK /\ (\A i \in DOMAIN stack : IsBehindByOne(stack[i]))
        /\ StackIsRulePath /\ OuterScopesAreKept /\ LoopVariablesAreScoped /\ RulesAreTimed
    BY DEF GameInvariant
  <2>6. timerList \in [DOMAIN game.rules -> [seconds_past : Nat \cup {-1}]]
    BY <2>5 DEF GameTypeOK
  <2>7. GameTypeOK'
    BY <1>1, <2>4, <2>5, <2>6, TypeAfter
  <2>8. (\A i \in DOMAIN stack : IsBehindByOne(stack[i]))'
    BY <2>1, <2>4, <2>5, OtherLoopsAfter
  <2>9. StackIsRulePath' /\ OuterScopesAreKept' /\ LoopVariablesAreScoped'
    BY <1>1, <2>1, <2>4, <2>5, PathAfter, ScopesAfter
  <2>10. RulesAreTimed'
    <3>1. IsTimed(Top) /\ Top.nestedRulesInProgess /\ Top.bodies \in Nat
      BY <2>1, <2>5, TopType DEF RulesAreTimed, Top, CheckTimer, RuleStates
    <3>2. top.finished /\ ~Top.finished <=> ~Top.finished /\ timer_finished
      BY <2>3
    <3>3. ASSUME Stayed(top) PROVE IsTimed(top)
      <4>1. ~Top.finished /\ rule.nested = NoRule
        BY <3>1, <3>3 DEF Stayed, rule
      <4>. QED  BY <1>4, <2>1, <2>3, <3>2, <4>1 DEF IsTimed, timer_finished, rule
    <3>4. ASSUME Entered(top) PROVE IsTimed(CountedTop(top))
      <4>1. ~Top.finished /\ rule.nested # NoRule
        BY <3>4 DEF Entered, rule
      <4>2. rule.mode = "AT_MOST" => Top.bodies = 0
        BY <2>1, <3>1, <4>1 DEF IsTimed, rule
      <4>3. /\ CountedTop(top).rule = Top.rule /\ CountedTop(top).finished = top.finished
            /\ CountedTop(top).bodies > 0
            /\ rule.mode = "AT_MOST" => CountedTop(top).bodies = 1
        <5>1. top.rule = Top.rule /\ top.bodies = Top.bodies
          BY <2>3
        <5>. QED  BY <3>1, <4>2, <5>1, CountedTopType DEF MaxTimed
      <4>. QED  BY <1>4, <2>1, <3>2, <4>1, <4>3 DEF IsTimed, timer_finished, rule
    <3>5. TimersStay
      BY <1>1 DEF TimersStay
    <3>. QED  BY <2>4, <2>5, <3>3, <3>4, <3>5, TimersAfter
  <2>. QED  BY <2>7, <2>8, <2>9, <2>10 DEF GameInvariant
<1>. QED  BY <1>2, <1>3, <1>4

\* Time makes timers older, but not those that are over.
LEMMA TickStep ==
    ASSUME GameInvariant, tick
    PROVE  GameInvariant'
<1>1. UNCHANGED <<game, stack, context>>
  BY DEF tick
<1>2. GameTypeOK /\ RulesAreTimed
  BY DEF GameInvariant
<1>3. timerList \in [DOMAIN game.rules -> [seconds_past : Nat \cup {-1}]]
  BY <1>2 DEF GameTypeOK
<1>4. \A n \in Nat : /\ [seconds_past |-> n + 1] \in [seconds_past : Nat \cup {-1}]
                     /\ [seconds_past |-> n + 1] # NoTimer
  <2>1. ASSUME NEW n \in Nat PROVE [seconds_past |-> n + 1].seconds_past # NoTimer.seconds_past
    BY DEF NoTimer
  <2>. QED  BY <2>1
<1>5. \A r \in DOMAIN game.rules :
        timerList[r] # NoTimer => timerList[r].seconds_past \in Nat
  BY <1>3 DEF NoTimer
<1>6. \A r \in DOMAIN game.rules :
        \/ timerList'[r] = timerList[r]
        \/ timerList[r] # NoTimer /\ timerList'[r] = [seconds_past |-> timerList[r].seconds_past + 1]
  BY <1>3 DEF tick
<1>7. timerList' = [r \in DOMAIN game.rules |-> timerList'[r]]
  BY <1>3 DEF tick
<1>8. \A r \in DOMAIN game.rules : /\ timerList'[r] \in [seconds_past : Nat \cup {-1}]
                                   /\ timerList[r] # NoTimer => timerList'[r] # NoTimer
  BY <1>3, <1>4, <1>5, <1>6
<1>9. GameTypeOK'
  BY <1>1, <1>2, <1>7, <1>8 DEF GameTypeOK
<1>10. RulesAreTimed'
  <2>1. TimersStay
    BY <1>3 DEF tick, TimersStay
  <2>2. stack \in Seq(RuleStates)
    BY <1>2 DEF GameTypeOK, RuleStates
  <2>3. \A i \in DOMAIN stack : stack[i] \in RuleStates /\ IsTimed(stack[i])
    BY <1>2, <2>2 DEF RulesAreTimed
  <2>. QED  BY <1>1, <2>1, <2>3, TimedStays
<1>11. (\A i \in DOMAIN stack : IsBehindByOne(stack[i]))' /\ StackIsRulePath' /\ OuterScopesAreKept' /\ LoopVariablesAreScoped'
  BY <1>1 DEF GameInvariant, IsBehindByOne, StackIsRulePath, Follows, OuterScopesAreKept,
            LoopVariablesAreScoped
<1>. QED  BY <1>9, <1>10, <1>11 DEF GameInvariant

\* The innermost scope is one, and changing it changes no other.
LEMMA InnermostScope ==
    ASSUME OuterScopesAreKept, context # <<>>
    PROVE  /\ Len(context) \in DOMAIN context
           /\ \A scope : game' = game /\ context' = [context EXCEPT ![Len(context)] = scope] =>
                OuterScopesAreKept' /\ Len(context') = Len(context) /\ context'[Len(context)] = scope
<1>1. context \in Seq(Range(context))
  BY DEF OuterScopesAreKept
<1>2. Len(context) \in Nat /\ Len(context) >= 1 /\ DOMAIN context = 1..Len(context)
  BY <1>1, EmptySeq
<1>3. ASSUME NEW scope, game' = game, context' = [context EXCEPT ![Len(context)] = scope]
      PROVE  OuterScopesAreKept' /\ Len(context') = Len(context) /\ context'[Len(context)] = scope
  <2>0. context' = [i \in 1..Len(context) |-> IF i = Len(context) THEN scope ELSE context[i]]
    BY <1>2, <1>3, Zenon
  <2>1. /\ DOMAIN context' = 1..Len(context)
        /\ context'[Len(context)] = scope
        /\ \A i \in 1..Len(context) : i # Len(context) => context'[i] = context[i]
    <3>1. Len(context) \in 1..Len(context)
      BY <1>2
    <3>. QED  BY <2>0, <3>1, Zenon
  <2>2. \A i \in 1..Len(context) : context'[i] \in Range(context')
    BY <2>1 DEF Range
  <2>3. context' \in Seq(Range(context'))
    <3>1. context' \in [1..Len(context) -> Range(context')]
      BY <2>0, <2>1, <2>2, Zenon
    <3>. QED  BY <1>2, <3>1, SeqDef
  <2>4. Len(context') = Len(context)
    <3>1. Len(context') \in Nat /\ DOMAIN context' = 1..Len(context')
      BY <2>3, LenProperties
    <3>2. \A a, b \in Nat : 1..a = 1..b => a = b
      OBVIOUS
    <3>. QED  BY <1>2, <2>1, <3>1, <3>2, Zenon
  <2>. QED  BY <1>2, <1>3, <2>1, <2>3, <2>4 DEF OuterScopesAreKept
<1>. QED  BY <1>2, <1>3

\* So only what is in the innermost scope needs an owner.
LEMMA InnerScoped ==
    ASSUME OuterScopesAreKept', game' = game, Len(context') = Len(context),
           \A n \in DOMAIN context'[Len(context)] \ DOMAIN game.context[Len(context)] : Owned(n)'
    PROVE  LoopVariablesAreScoped'
<1>1. \A i \in DOMAIN context' : i # Len(context) => context'[i] = game'.context[i]
  BY DEF OuterScopesAreKept
<1>2. \A i \in DOMAIN context' : \A n \in DOMAIN context'[i] \ DOMAIN game'.context[i] : Owned(n)'
  BY <1>1
<1>. QED  BY <1>2 DEF LoopVariablesAreScoped, Owned

\* A loop that is through: its element goes, and if it has just finished, its
\* nested rules are run once more, for the last element.
LEMMA LoopEnds ==
    ASSUME GameInvariant, visit_ForEach, context # <<>>, elements_done(Top)
    PROVE  GameInvariant'
<1>1. /\ Visiting({"ForEach"}) /\ UNCHANGED <<game, timerList>>
      /\ Returns([Top EXCEPT !.finished = TRUE]) /\ context' = erase_element(rule.elem)
  BY DEF visit_ForEach
<1>2. /\ stack # <<>> /\ Top \in RuleStates /\ Top.rule \in DOMAIN game.rules
      /\ rule.kind = "ForEach"
  BY <1>1, VisitingTop
<1>3. PICK top \in RuleStates : top = [Top EXCEPT !.finished = TRUE]
  BY <1>2 DEF RuleStates
<1>4. /\ top.rule = Top.rule /\ top.finished /\ top.elemListIndex = Top.elemListIndex
      /\ top.nestedRulesInProgess = Top.nestedRulesInProgess /\ top.bodies = Top.bodies
  BY <1>2, <1>3 DEF RuleStates
<1>5. Visited(top)
  BY <1>1, <1>2, <1>3, <1>4 DEF Visited
<1>6. /\ GameTypeOK /\ (\A i \in DOMAIN stack : IsBehindByOne(stack[i]))
      /\ StackIsRulePath /\ OuterScopesAreKept /\ LoopVariablesAreScoped /\ RulesAreTimed
  BY DEF GameInvariant
<1>7. /\ OuterScopesAreKept' /\ Len(context') = Len(context)
      /\ context'[Len(context)] = [n \in DOMAIN context[Len(context)] \ {rule.elem}
                                     |-> context[Len(context)][n]]
  <2>1. context' = [context EXCEPT ![Len(context)] = [n \in DOMAIN context[Len(context)] \ {rule.elem}
                                                       |-> context[Len(context)][n]]]
    BY <1>1 DEF erase_element
  <2>. QED  BY <1>1, <1>6, <2>1, InnermostScope
<1>8. GameTypeOK'
  <2>1. timerList' \in [DOMAIN game.rules -> [seconds_past : Nat \cup {-1}]]
    BY <1>1, <1>6 DEF GameTypeOK
  <2>. QED  BY <1>5, <1>6, <1>7, <2>1, TypeAfter
<1>9. (\A i \in DOMAIN stack : IsBehindByOne(stack[i]))'
  <2>1. IsBehindByOne(Top)
    BY <1>2, <1>6, TopType DEF Top
  <2>2. Len(rule.elemList) \in Nat /\ Top.elemListIndex \in Nat /\ Top.bodies \in Nat
    BY <1>2, <1>6, GameInstanceAssumption DEF GameTypeOK, RuleStates, rule
  <2>3. Stayed(top) => IsBehindByOne(top)
    BY <1>2, <1>4, <2>1, <2>2 DEF Stayed, IsBehindByOne, elements_done, rule
  <2>4. ASSUME Entered(top) PROVE IsBehindByOne(CountedTop(top))
    <3>1. Top.nestedRulesInProgess /\ ~Top.finished /\ rule.nested # NoRule
      BY <2>4 DEF Entered, rule
    <3>2. /\ Top.elemListIndex = Len(rule.elemList) /\ Top.elemListIndex > 0
          /\ Top.bodies = Top.elemListIndex - 1
      BY <1>2, <2>1, <2>2, <3>1 DEF IsBehindByOne, elements_done, rule
    <3>3. /\ CountedTop(top).rule = Top.rule /\ CountedTop(top).finished
          /\ CountedTop(top).elemListIndex = Top.elemListIndex
          /\ CountedTop(top).nestedRulesInProgess = Top.nestedRulesInProgess
          /\ CountedTop(top).bodies = Top.elemListIndex
      BY <1>2, <1>4, <2>2, <3>2, CountedTopType DEF rule
    <3>. QED  BY <2>2, <3>1, <3>2, <3>3 DEF IsBehindByOne, rule
  <2>. QED  BY <1>5, <1>6, <2>3, <2>4, LoopsAfter
<1>10. StackIsRulePath'
  BY <1>5, <1>6, PathAfter
<1>11. RulesAreTimed'
  BY <1>1, <1>2, <1>5, <1>6, OtherTimersAfter DEF TimersStay
<1>12. LoopVariablesAreScoped'
  <2>1. \A n \in DOMAIN context[Len(context)] \ DOMAIN game.context[Len(context)] : Owned(n)
    BY <1>6, InnermostScope DEF LoopVariablesAreScoped, Owned
  <2>2. \A n : Owned(n) /\ n # rule.elem => Owned(n)'
    BY <1>5, <1>6, OwnedAfter
  <2>3. \A n \in DOMAIN context'[Len(context)] : n \in DOMAIN context[Len(context)] /\ n # rule.elem
    BY <1>7
  <2>. QED  BY <1>1, <1>7, <2>1, <2>2, <2>3, InnerScoped
<1>. QED  BY <1>7, <1>8, <1>9, <1>10, <1>11, <1>12 DEF GameInvariant

\* A loop that goes on: it takes the next element, and runs its nested rules for
\* the one before.
LEMMA LoopGoesRound ==
    ASSUME GameInvariant, visit_ForEach, context # <<>>, ~elements_done(Top)
    PROVE  GameInvariant'
<1> DEFINE C == Len(context)
           value == rule.elemList[Top.elemListIndex + 1]
<1>1. /\ Visiting({"ForEach"}) /\ UNCHANGED <<game, timerList>>
      /\ Returns([Top EXCEPT !.nestedRulesInProgess = TRUE, !.elemListIndex = @ + 1])
      /\ context' = bind_element(rule.elem, value)
  BY DEF visit_ForEach
<1>2. /\ stack # <<>> /\ Top \in RuleStates /\ Top.rule \in DOMAIN game.rules
      /\ rule.kind = "ForEach"
  BY <1>1, VisitingTop
<1>3. PICK top \in RuleStates :
        top = [Top EXCEPT !.nestedRulesInProgess = TRUE, !.elemListIndex = @ + 1]
  <2>1. Top.elemListIndex + 1 \in Nat
    BY <1>2 DEF RuleStates
  <2>. QED  BY <1>2, <2>1 DEF RuleStates
<1>4. /\ top.rule = Top.rule /\ top.finished = Top.finished /\ top.bodies = Top.bodies
      /\ top.nestedRulesInProgess /\ top.elemListIndex = Top.elemListIndex + 1
  BY <1>2, <1>3 DEF RuleStates
<1>5. Visited(top)
  BY <1>1, <1>2, <1>3, <1>4 DEF Visited
<1>6. /\ GameTypeOK /\ (\A i \in DOMAIN stack : IsBehindByOne(stack[i]))
      /\ StackIsRulePath /\ OuterScopesAreKept /\ LoopVariablesAreScoped /\ RulesAreTimed
  BY DEF GameInvariant
<1>7. /\ OuterScopesAreKept' /\ Len(context') = C
      /\ context'[C] = set(context[C], rule.elem, value)
  <2>1. context' = [context EXCEPT ![C] = set(context[C], rule.elem, value)]
    BY <1>1 DEF bind_element
  <2>. QED  BY <1>1, <1>6, <2>1, InnermostScope
<1>8. GameTypeOK'
  <2>1. timerList' \in [DOMAIN game.rules -> [seconds_past : Nat \cup {-1}]]
    BY <1>1, <1>6 DEF GameTypeOK
  <2>. QED  BY <1>5, <1>6, <2>1, TypeAfter
<1>9. IsBehindByOne(Top)
  BY <1>2, <1>6, TopType DEF Top
<1>10. Len(rule.elemList) \in Nat /\ Top.elemListIndex \in Nat /\ Top.bodies \in Nat
  BY <1>2, <1>6, GameInstanceAssumption DEF GameTypeOK, RuleStates, rule
<1>11. Top.elemListIndex < Len(rule.elemList) /\ ~Top.finished
  BY <1>2, <1>9, <1>10 DEF IsBehindByOne, elements_done, rule
<1>12. (\A i \in DOMAIN stack : IsBehindByOne(stack[i]))'
  <2>1. ASSUME Stayed(top) PROVE IsBehindByOne(top)
    <3>1. rule.nested = NoRule \/ ~Top.nestedRulesInProgess
      BY <2>1 DEF Stayed, rule
    <3>2. rule.nested # NoRule => Top.elemListIndex = 0 /\ Top.bodies = 0
      BY <1>2, <1>9, <1>10, <3>1 DEF IsBehindByOne, rule
    <3>. QED  BY <1>2, <1>4, <1>10, <1>11, <3>2 DEF IsBehindByOne, rule
  <2>2. ASSUME Entered(top) PROVE IsBehindByOne(CountedTop(top))
    <3>1. Top.nestedRulesInProgess /\ rule.nested # NoRule
      BY <2>2 DEF Entered, rule
    <3>2. Top.elemListIndex > 0 /\ Top.bodies = Top.elemListIndex - 1
      BY <1>2, <1>9, <1>10, <1>11, <3>1 DEF IsBehindByOne, rule
    <3>3. /\ CountedTop(top).rule = Top.rule /\ ~CountedTop(top).finished
          /\ CountedTop(top).elemListIndex = Top.elemListIndex + 1
          /\ CountedTop(top).nestedRulesInProgess
          /\ CountedTop(top).bodies = Top.elemListIndex
      BY <1>2, <1>4, <1>10, <1>11, <3>2, CountedTopType DEF rule
    <3>. QED  BY <1>10, <1>11, <3>1, <3>2, <3>3 DEF IsBehindByOne, rule
  <2>. QED  BY <1>5, <1>6, <2>1, <2>2, LoopsAfter
<1>13. StackIsRulePath'
  BY <1>5, <1>6, PathAfter
<1>14. RulesAreTimed'
  BY <1>1, <1>2, <1>5, <1>6, OtherTimersAfter DEF TimersStay
<1>15. LoopVariablesAreScoped'
  <2>1. \A n \in DOMAIN context[C] \ DOMAIN game.context[C] : Owned(n)
    BY <1>6, InnermostScope DEF LoopVariablesAreScoped, Owned
  <2>2. \A n : Owned(n) => Owned(n)'
    BY <1>4, <1>5, <1>6, <1>11, OwnedAfter
  <2>3. Owned(rule.elem)
    BY <1>2, <1>6, <1>11, TopType DEF Owned, rule, Top
  <2>4. \A n \in DOMAIN context'[C] : n \in DOMAIN context[C] \/ n = rule.elem
    BY <1>7 DEF set
  <2>5. \A n \in DOMAIN context'[C] \ DOMAIN game.context[C] : Owned(n)'
    <3> HIDE DEF C
    <3>. QED  BY <2>1, <2>2, <2>3, <2>4, Zenon
  <2>. QED  BY <1>1, <1>7, <2>5, InnerScoped
<1>. QED  BY <1>7, <1>8, <1>12, <1>13, <1>14, <1>15 DEF GameInvariant

\* Every step preserves the invariant.
LEMMA NextInvariant ==
    ASSUME GameInvariant, [Next]_vars
    PROVE  GameInvariant'
<1>1. CASE visit_ForEach
  <2>1. CASE context = <<>>
    BY <1>1, <2>1, Untouched DEF visit_ForEach, Fails
  <2>. QED  BY <1>1, <2>1, LoopEnds, LoopGoesRound
<1>2. CASE visit_Add \/ BeginTimer \/ CheckTimer \/ tick
  BY <1>2, AddVisit, BeginTimerVisit, CheckTimerVisit, TickStep
<1>3. CASE visit_Reverse
  BY <1>3, ListVisit DEF visit_Reverse
<1>4. CASE visit_Shuffle
  BY <1>4, ListVisit DEF visit_Shuffle
<1>5. CASE visit_Discard
  BY <1>5, ListVisit DEF visit_Discard
<1>6. CASE visit_Deal
  BY <1>6, ListVisit DEF visit_Deal
<1>7. CASE visit_GlobalMessage
  <2>1. /\ Visiting({"GlobalMessage"}) /\ UNCHANGED <<game, context, timerList>>
        /\ UNCHANGED stack \/ Returns(Top)
    BY <1>7 DEF visit_GlobalMessage, Fails
  <2>. QED  BY <2>1, Untouched, UnfinishedVisit
<1>8. CASE visit_Input
  <2>1. /\ Visiting({"InputChoice", "InputText"}) /\ UNCHANGED <<game, context, timerList>>
        /\ UNCHANGED stack \/ Returns(Top)
    BY <1>8 DEF visit_Input, Fails
  <2>. QED  BY <2>1, Untouched, UnfinishedVisit
<1>9. CASE visit_nothing
  BY <1>9, UnfinishedVisit DEF visit_nothing, Unvisited
<1>10. CASE start \/ update \/ updateState_returns \/ UNCHANGED vars
  BY <1>10, Untouched DEF start, update, updateState_returns, vars
<1>. QED  BY <1>1, <1>2, <1>3, <1>4, <1>5, <1>6, <1>7, <1>8, <1>9, <1>10 DEF Next, Visit

\* It holds of a game that was just loaded.
LEMMA InitInvariant ==
    ASSUME Init
    PROVE  GameInvariant
<1>1. /\ game \in Games /\ game.first \in DOMAIN game.rules
      /\ stack = <<RuleState(game.first)>> /\ context = game.context
      /\ context \in Seq(Range(context))
      /\ timerList = [r \in DOMAIN game.rules |-> NoTimer]
  BY GameInstanceAssumption DEF Init
<1>2. /\ stack \in Seq(RuleStates) /\ DOMAIN stack = {1} /\ stack[1] = RuleState(game.first)
  BY <1>1, RuleStateType
<1>3. GameTypeOK
  BY <1>1, <1>2 DEF GameTypeOK, RuleStates, NoTimer
<1>4. \A i \in DOMAIN stack : IsBehindByOne(stack[i])
  BY <1>1, <1>2, RuleStateBehind
<1>5. StackIsRulePath
  <2>1. stack[1].rule = game.first
    BY <1>2 DEF RuleState
  <2>. QED  BY <1>1, <1>2, <2>1, FollowsSelf DEF StackIsRulePath
<1>6. OuterScopesAreKept /\ LoopVariablesAreScoped
  BY <1>1 DEF OuterScopesAreKept, LoopVariablesAreScoped
<1>7. RulesAreTimed
  BY <1>2, RuleStateTimed DEF RulesAreTimed
<1>. QED  BY <1>3, <1>4, <1>5, <1>6, <1>7 DEF GameInvariant

\* The inductive invariant of the rule interpreter.
THEOREM GameInvariantHolds == Spec => []GameInvariant
<1>1. Init => GameInvariant
  BY InitInvariant
<1>2. GameInvariant /\ [Next]_vars => GameInvariant'
  BY NextInvariant
<1>. QED  BY <1>1, <1>2, PTL DEF Spec

-----------------------------------------------------------------------------
(* What it says. *)

\* The rule stack of updateState is a path through the game, although the loop
\* decides on a stale copy of its top.
THEOREM RulePath == Spec => []StackIsRulePath
<1>1. GameInvariant => StackIsRulePath
  BY DEF GameInvariant
<1>. QED  BY <1>1, GameInvariantHolds, PTL

\* Whatever visitImpl(ForEach) puts into a scope it takes out again.
THEOREM Scoping == Spec => []LoopVariablesAreScoped
<1>1. GameInvariant => LoopVariablesAreScoped
  BY DEF GameInvariant
<1>. QED  BY <1>1, GameInvariantHolds, PTL

\* A Timer that finishes has run its nested rules, although the visitor treats them
\* as completed before they have begun, and an exact one has had its time.
THEOREM TimedRules == Spec => []TimedRulesRun
<1>1. ASSUME GameInvariant PROVE TimedRulesRun
  BY <1>1 DEF GameInvariant, RulesAreTimed, IsTimed, TimedRulesRun
<1>. QED  BY <1>1, GameInvariantHolds, PTL

\* A ForEach runs its nested rules once for each element.
THEOREM OnceForEach == Spec => []BodyRunsOncePerElement
<1>1. ASSUME GameInvariant PROVE BodyRunsOncePerElement
  BY <1>1 DEF GameInvariant, IsBehindByOne, BodyRunsOncePerElement
<1>. QED  BY <1>1, GameInvariantHolds, PTL

-----------------------------------------------------------------------------
(* Paths. *)

\* A set of numbers that is not empty has a least one.
LEMMA LeastNumber ==
    ASSUME NEW T \in SUBSET Nat, T # {}
    PROVE  \E n \in T : \A m \in T : n <= m
<1> DEFINE R == {ss \in Nat \X Nat : ss[1] < ss[2]}
<1>1. IsWellFoundedOn(R, Nat)
  BY NatLessThanWellFounded DEF OpToRel
<1> HIDE DEF R
<1>2. PICK n \in T : \A m \in T : ~(<<m, n>> \in R)
  BY <1>1, WFMin
<1>3. \A m \in T : ~(m < n)
  BY <1>2 DEF R
<1>. QED  BY <1>3

\* What one key of a path leads to.
Descend(e, key) ==
    IF IsMap(e) /\ key \in DOMAIN e.map THEN e.map[key] ELSE NotFound

\* `reached` is what getPtr computes on its way.
Reaches(reached, map, path, n) ==
    reached = [k \in 0..n |-> IF k = 0 THEN Map_(map) ELSE Descend(reached[k-1], path[k])]

\* The recursion of getPtr has a solution for paths of any length.
LEMMA ReachedExists ==
    ASSUME NEW map, NEW path, NEW n \in Nat
    PROVE  \E reached : Reaches(reached, map, path, n)
<1> DEFINE T == {m \in Nat : ~ \E f : Reaches(f, map, path, m)}
<1>1. SUFFICES ASSUME T # {} PROVE FALSE
  OBVIOUS
<1>2. PICK m \in T : \A k \in T : m <= k
  BY <1>1, LeastNumber
<1>3. m # 0
  <2> DEFINE f == [k \in 0..0 |-> Map_(map)]
  <2>1. \A k \in 0..0 : k = 0
    OBVIOUS
  <2>2. f = [k \in 0..0 |-> IF k = 0 THEN Map_(map) ELSE Descend(f[k-1], path[k])]
    BY <2>1
  <2>3. Reaches(f, map, path, 0)
    BY <2>2, Zenon DEF Reaches
  <2>. QED  BY <1>2, <2>3
<1>4. m - 1 \in Nat /\ m - 1 \notin T
  BY <1>2, <1>3
<1>5. PICK f : Reaches(f, map, path, m - 1)
  BY <1>4
<1> DEFINE g == [k \in 0..m |-> IF k = m THEN Descend(f[m-1], path[m]) ELSE f[k]]
<1>6. \A k \in 0..m-1 : f[k] = IF k = 0 THEN Map_(map) ELSE Descend(f[k-1], path[k])
  BY <1>5 DEF Reaches
<1>7. \A k \in 0..m : g[k] = IF k = 0 THEN Map_(map) ELSE Descend(g[k-1], path[k])
  <2>1. SUFFICES ASSUME NEW k \in 0..m
                 PROVE  g[k] = IF k = 0 THEN Map_(map) ELSE Descend(g[k-1], path[k])
    OBVIOUS
  <2>2. CASE k = m
    <3>1. m - 1 \in 0..m /\ m - 1 # m /\ m \in 0..m
      BY <1>2, <1>3
    <3>2. g[m-1] = f[m-1] /\ g[m] = Descend(f[m-1], path[m])
      BY <3>1
    <3>. QED  BY <1>3, <2>2, <3>2
  <2>3. CASE k # m
    <3>1. k \in 0..m-1 /\ g[k] = f[k]
      BY <1>2, <2>3
    <3>2. k # 0 => k - 1 \in 0..m /\ k - 1 # m
      BY <1>2, <2>3
    <3>3. k # 0 => g[k-1] = f[k-1]
      BY <3>2
    <3>. QED  BY <1>6, <3>1, <3>3
  <2>. QED  BY <2>2, <2>3
<1>8. g = [k \in 0..m |-> g[k]]
  BY Zenon
<1>9. g = [k \in 0..m |-> IF k = 0 THEN Map_(map) ELSE Descend(g[k-1], path[k])]
  <2> HIDE DEF g
  <2>. QED  BY <1>7, <1>8
<1>10. Reaches(g, map, path, m)
  <2> HIDE DEF g
  <2>. QED  BY <1>9 DEF Reaches
<1>. QED  BY <1>2, <1>10

\* So getPtr follows the keys of the path one after the other.
LEMMA GetPtrReaches ==
    ASSUME NEW map, NEW path, Len(path) \in Nat
    PROVE  \E reached : Reaches(reached, map, path, Len(path)) /\ getPtr(map, path) = reached[Len(path)]
<1> DEFINE r == CHOOSE f : Reaches(f, map, path, Len(path))
<1>1. Reaches(r, map, path, Len(path))
  BY ReachedExists, Zenon
<1>2. getPtr(map, path) = r[Len(path)]
  BY Zenon DEF getPtr, Reaches, Descend
<1>. QED  BY <1>1, <1>2, Zenon

\* A path with more than one key leads to nothing if the first key names
\* something that is not a map.
LEMMA GetPtrOfLeaf ==
    ASSUME NEW map, NEW path, Len(path) \in Nat \ {0},
           path[1] \in DOMAIN map, ~IsMap(map[path[1]])
    PROVE  getPtr(map, path) = IF Len(path) = 1 THEN map[path[1]] ELSE NotFound
<1> DEFINE n == Len(path)
<1>1. PICK reached : Reaches(reached, map, path, n) /\ getPtr(map, path) = reached[n]
  BY GetPtrReaches
<1> HIDE DEF n
<1>2. n \in Nat \ {0}
  BY DEF n
<1>3. \A k \in 0..n : reached[k] = IF k = 0 THEN Map_(map) ELSE Descend(reached[k-1], path[k])
  BY <1>1 DEF Reaches
<1>4. reached[0] = Map_(map) /\ reached[1] = Descend(reached[0], path[1])
  <2>1. 0 \in 0..n /\ 1 \in 0..n /\ 1 # 0 /\ 1 - 1 = 0
    BY <1>2
  <2>. QED  BY <1>3, <2>1
<1>5. reached[1] = map[path[1]]
  BY <1>4 DEF Descend, IsMap, Map_
<1>6. CASE n = 1
  BY <1>1, <1>5, <1>6 DEF n
<1>7. CASE n # 1
  <2> DEFINE T == {k \in 2..n : reached[k] # NotFound}
  <2>0. n \in 2..n
    BY <1>2, <1>7
  <2>1. SUFFICES ASSUME T # {} PROVE FALSE
    <3>1. T = {} => reached[n] = NotFound
      BY <2>0
    <3>. QED  BY <1>1, <1>7, <3>1 DEF n
  <2>2. T \in SUBSET Nat
    BY <1>2
  <2>3. PICK k \in T : \A m \in T : k <= m
    BY <2>1, <2>2, LeastNumber
  <2>4. k \in 0..n /\ k # 0 /\ k - 1 \in 1..n /\ k - 1 \notin T
    BY <1>2, <2>3
  <2>5. reached[k] = Descend(reached[k-1], path[k])
    BY <1>3, <2>4
  <2>6. ~IsMap(reached[k-1])
    <3>1. CASE k - 1 = 1
      BY <1>5, <3>1
    <3>2. CASE k - 1 # 1
      <4>1. reached[k-1] = NotFound
        BY <1>2, <2>4, <3>2
      <4>. QED  BY <4>1 DEF IsMap, NotFound
    <3>. QED  BY <3>1, <3>2
  <2>7. reached[k] = NotFound
    BY <2>5, <2>6 DEF Descend
  <2>. QED  BY <2>3, <2>7
<1>. QED  BY <1>6, <1>7

\* The path of no keys is the map itself.
LEMMA GetPtrOfNothing ==
    ASSUME NEW map, NEW path, Len(path) = 0
    PROVE  getPtr(map, path) = Map_(map)
<1>1. PICK reached : Reaches(reached, map, path, Len(path)) /\ getPtr(map, path) = reached[Len(path)]
  BY GetPtrReaches
<1>. QED  BY <1>1 DEF Reaches

\* One step of the maps that store rebuilds, from the innermost outwards.
Rebuild(map, path, value, n, k, inner) ==
    IF k = n + 1 THEN value
    ELSE Map_([getPtr(map, SubSeq(path, 1, k - 1)).map EXCEPT ![path[k]] = inner])

Rebuilds(rebuilt, map, path, value, n, from) ==
    rebuilt = [k \in from..n+1 |-> Rebuild(map, path, value, n, k, rebuilt[k+1])]

\* The recursion of store has a solution for paths of any length.
LEMMA RebuiltExists ==
    ASSUME NEW map, NEW path, NEW value, NEW n \in Nat
    PROVE  \E rebuilt : Rebuilds(rebuilt, map, path, value, n, 1)
<1> DEFINE from(m) == n + 1 - m
           T == {m \in 0..n : ~ \E f : Rebuilds(f, map, path, value, n, from(m))}
<1>1. SUFFICES ASSUME T # {} PROVE FALSE
  <2>1. n \in 0..n /\ from(n) = 1
    OBVIOUS
  <2>. QED  BY <2>1
<1>2. PICK m \in T : \A k \in T : m <= k
  <2>1. T \in SUBSET Nat
    OBVIOUS
  <2>. QED  BY <1>1, <2>1, LeastNumber
<1>3. m \in 0..n
  BY <1>2
<1> DEFINE a == n + 1 - m
<1>4. a \in 1..n+1
  BY <1>3
<1> SUFFICES \E g : Rebuilds(g, map, path, value, n, a)
  BY <1>2
<1>5. CASE m = 0
  <2> DEFINE g == [k \in n+1..n+1 |-> value]
  <2>1. a = n + 1 /\ \A k \in n+1..n+1 : k = n + 1
    BY <1>5
  <2>2. g = [k \in n+1..n+1 |-> Rebuild(map, path, value, n, k, g[k+1])]
    BY <2>1 DEF Rebuild
  <2>3. Rebuilds(g, map, path, value, n, a)
    BY <2>1, <2>2, Zenon DEF Rebuilds
  <2>. QED  BY <2>3
<1>6. CASE m # 0
  <2>1. m - 1 \in 0..n /\ m - 1 \notin T /\ from(m - 1) = a + 1
    BY <1>2, <1>3, <1>6
  <2>2. PICK f : Rebuilds(f, map, path, value, n, a + 1)
    BY <2>1
  <2> DEFINE g == [k \in a..n+1 |-> IF k = a THEN Rebuild(map, path, value, n, a, f[a+1]) ELSE f[k]]
  <2>3. \A k \in a+1..n+1 : f[k] = Rebuild(map, path, value, n, k, f[k+1])
    BY <2>2 DEF Rebuilds
  <2>4. \A k \in a..n+1 : g[k] = Rebuild(map, path, value, n, k, g[k+1])
    <3>1. SUFFICES ASSUME NEW k \in a..n+1
                   PROVE  g[k] = Rebuild(map, path, value, n, k, g[k+1])
      OBVIOUS
    <3>2. CASE k = n + 1
      <4>1. k # a /\ k \in a+1..n+1
        BY <1>3, <1>6, <3>2
      <4>2. g[k] = f[k]
        BY <4>1
      <4>. QED  BY <2>3, <3>2, <4>1, <4>2 DEF Rebuild
    <3>3. CASE k # n + 1
      <4>1. k + 1 \in a..n+1 /\ k + 1 # a
        BY <1>4, <3>3
      <4>2. g[k+1] = f[k+1]
        BY <4>1
      <4>3. g[k] = Rebuild(map, path, value, n, k, f[k+1])
        <5>1. k # a => k \in a+1..n+1
          BY <1>4
        <5>. QED  BY <2>3, <5>1
      <4> HIDE DEF g
      <4>. QED  BY <4>2, <4>3
    <3>. QED  BY <3>2, <3>3
  <2>5. g = [k \in a..n+1 |-> g[k]]
    BY Zenon
  <2> HIDE DEF g
  <2>6. g = [k \in a..n+1 |-> Rebuild(map, path, value, n, k, g[k+1])]
    BY <2>4, <2>5
  <2>7. Rebuilds(g, map, path, value, n, a)
    BY <2>6 DEF Rebuilds
  <2>. QED  BY <2>7
<1>. QED  BY <1>5, <1>6

\* store changes the variable that the first key names, and no other.
LEMMA StoreChangesOne ==
    ASSUME NEW map, NEW path, NEW value, path \in Seq(Range(path)), path # <<>>,
           getPtr(map, path) # NotFound
    PROVE  \E new : store(map, path, value) = Map_([map EXCEPT ![path[1]] = new])
<1> DEFINE n == Len(path)
           r == CHOOSE f : Rebuilds(f, map, path, value, n, 1)
<1>1. n \in Nat \ {0}
  BY EmptySeq
<1>2. Rebuilds(r, map, path, value, n, 1)
  BY <1>1, RebuiltExists, Zenon
<1>3. store(map, path, value) = r[1]
  BY Zenon DEF store, Rebuilds, Rebuild
<1> HIDE DEF n, r
<1>4. 1 \in 1..n+1 /\ 1 # n + 1
  BY <1>1
<1>5. r[1] = Rebuild(map, path, value, n, 1, r[2])
  <2>1. r[1] = Rebuild(map, path, value, n, 1, r[1+1])
    BY <1>2, <1>4 DEF Rebuilds
  <2>. QED  BY <2>1
<1>6. r[1] = Map_([getPtr(map, SubSeq(path, 1, 0)).map EXCEPT ![path[1]] = r[2]])
  BY <1>4, <1>5 DEF Rebuild
<1>7. getPtr(map, SubSeq(path, 1, 0)) = Map_(map)
  <2>1. Len(SubSeq(path, 1, 0)) = 0
    BY SubSeqProperties
  <2>. QED  BY <2>1, GetPtrOfNothing
<1>8. getPtr(map, SubSeq(path, 1, 0)).map = map
  BY <1>7 DEF Map_
<1>9. r[1] = Map_([map EXCEPT ![path[1]] = r[2]])
  BY <1>6, <1>8
<1>. QED  BY <1>3, <1>9, Zenon

\* It leaves a list alone unless the path is its name.
LEMMA StoreKeepsList ==
    ASSUME NEW map, NEW path, NEW value, path \in Seq(Range(path)), path # <<>>,
           NEW n \in DOMAIN map, IsList(map[n]), ~IsMap(map[n]), path # <<n>>,
           ~Failed(store(map, path, value))
    PROVE  /\ DOMAIN store(map, path, value).map = DOMAIN map
           /\ store(map, path, value).map[n] = map[n]
<1>1. getPtr(map, path) # NotFound
  BY DEF store, Failed, Thrown
<1>2. PICK new : store(map, path, value) = Map_([map EXCEPT ![path[1]] = new])
  BY <1>1, StoreChangesOne
<1>3. Len(path) \in Nat \ {0}
  BY EmptySeq
<1>4. path[1] # n
  <2>1. SUFFICES ASSUME path[1] = n PROVE FALSE
    OBVIOUS
  <2>2. Len(path) # 1
    BY <2>1
  <2>. QED  BY <1>1, <1>3, <2>1, <2>2, GetPtrOfLeaf
<1>. QED  BY <1>2, <1>4 DEF Map_

-----------------------------------------------------------------------------
(* The elements of a list. *)

\* A list whose elements are taken from different places of another has no
\* element more often than that one.
LEMMA CountOfChosen ==
    ASSUME NEW l, NEW m, Len(l) \in Nat, DOMAIN l = 1..Len(l),
           NEW p \in [DOMAIN m -> DOMAIN l],
           \A i, j \in DOMAIN m : p[i] = p[j] => i = j,
           \A i \in DOMAIN m : m[i] = l[p[i]],
           NEW x
    PROVE  Count(m, x) <= Count(l, x)
<1> DEFINE M == {i \in DOMAIN m : m[i] = x}
           L == {i \in DOMAIN l : l[i] = x}
           f == [i \in M |-> p[i]]
<1>1. IsFiniteSet(L)
  <2>1. IsFiniteSet(1..Len(l)) /\ L \in SUBSET (1..Len(l))
    BY FS_Interval
  <2>. QED  BY <2>1, FS_Subset
<1>2. f \in Injection(M, L)
  <2>1. f \in [M -> L]
    OBVIOUS
  <2>2. \A i, j \in M : f[i] = f[j] => i = j
    OBVIOUS
  <2> HIDE DEF M, L, f
  <2>. QED  BY <2>1, <2>2 DEF Injection, IsInjective
<1>3. Cardinality(M) <= Cardinality(L)
  <2> HIDE DEF M, L, f
  <2>. QED  BY <1>1, <1>2, FS_Injection
<1>. QED  BY <1>3 DEF Count

\* The count of an element is a number.
LEMMA CountType ==
    ASSUME NEW l, Len(l) \in Nat, DOMAIN l = 1..Len(l), NEW x
    PROVE  Count(l, x) \in Nat
<1> DEFINE L == {i \in DOMAIN l : l[i] = x}
<1>1. IsFiniteSet(1..Len(l)) /\ L \in SUBSET (1..Len(l))
  BY FS_Interval
<1>2. IsFiniteSet(L)
  BY <1>1, FS_Subset
<1>. QED  BY <1>2, FS_CardinalityType DEF Count

\* `m` is `l` in another order, or a part of it.
IsPartOf(m, l) ==
    /\ Len(m) <= Len(l)
    /\ \A x : Count(m, x) <= Count(l, x)

\* The three list rules that are visited make such a list of the one they find.
LEMMA ReversedPart ==
    ASSUME NEW S, NEW l \in Seq(S)
    PROVE  reversed(l) \in Seq(S) /\ Len(reversed(l)) = Len(l) /\ IsPartOf(reversed(l), l)
<1> DEFINE m == reversed(l)
           p == [i \in 1..Len(l) |-> Len(l) - i + 1]
<1>1. Len(l) \in Nat /\ DOMAIN l = 1..Len(l)
  OBVIOUS
<1>2. m = [i \in 1..Len(l) |-> l[Len(l) - i + 1]]
  BY DEF reversed, Reverse
<1>3. DOMAIN m = 1..Len(l) /\ p \in [1..Len(l) -> 1..Len(l)]
  BY <1>1, <1>2
<1>4. m \in Seq(S) /\ Len(m) = Len(l)
  BY <1>1, <1>2
<1>5. \A i \in 1..Len(l) : m[i] = l[p[i]]
  BY <1>2
<1>6. \A i, j \in 1..Len(l) : p[i] = p[j] => i = j
  BY <1>1
<1> HIDE DEF m, p
<1>7. \A x : Count(m, x) <= Count(l, x)
  BY <1>1, <1>3, <1>5, <1>6, CountOfChosen
<1>. QED  BY <1>1, <1>4, <1>7 DEF IsPartOf, m

\* Shuffle: a permutation of the list.
LEMMA ShuffledPart ==
    ASSUME NEW S, NEW l \in Seq(S), NEW m \in shuffles(l)
    PROVE  m \in Seq(S) /\ Len(m) = Len(l) /\ IsPartOf(m, l)
<1>1. Len(l) \in Nat /\ DOMAIN l = 1..Len(l)
  OBVIOUS
<1>2. PICK p \in {q \in [DOMAIN l -> DOMAIN l] : IsInjective(q)} : m = [i \in DOMAIN l |-> l[p[i]]]
  BY DEF shuffles
<1>3. p \in [1..Len(l) -> 1..Len(l)] /\ DOMAIN m = 1..Len(l)
  BY <1>1, <1>2
<1>4. m \in Seq(S) /\ Len(m) = Len(l)
  BY <1>1, <1>2, <1>3
<1>5. \A i, j \in 1..Len(l) : p[i] = p[j] => i = j
  BY <1>1, <1>2 DEF IsInjective
<1>6. \A i \in 1..Len(l) : m[i] = l[p[i]]
  BY <1>1, <1>2
<1>7. \A x : Count(m, x) <= Count(l, x)
  BY <1>1, <1>3, <1>5, <1>6, CountOfChosen
<1>. QED  BY <1>1, <1>4, <1>7 DEF IsPartOf

\* Discard: what follows the first elements.
LEMMA DiscardedPart ==
    ASSUME NEW S, NEW l \in Seq(S), NEW c \in 0..Len(l)
    PROVE  /\ discarded(l, c) \in Seq(S) /\ Len(discarded(l, c)) = Len(l) - c
           /\ IsPartOf(discarded(l, c), l)
<1> DEFINE m == discarded(l, c)
           n == Len(l) - c
           p == [i \in 1..n |-> c + i]
<1>1. Len(l) \in Nat /\ DOMAIN l = 1..Len(l) /\ n \in Nat /\ c \in Nat /\ c <= Len(l)
  OBVIOUS
<1>2. m \in Seq(S) /\ Len(m) = n /\ \A i \in 1..n : m[i] = l[c + i]
  <2>1. \A i \in c+1..Len(l) : l[i] \in S
    <3>1. \A i \in c+1..Len(l) : i \in 1..Len(l)
      BY <1>1
    <3>. QED  BY <3>1, ElementOfSeq
  <2>2. m \in Seq(S) /\ Len(m) = IF c+1 <= Len(l) THEN Len(l)-(c+1)+1 ELSE 0
    BY <1>1, <2>1, SubSeqProperties DEF discarded
  <2>3. \A i \in 1..Len(l)-(c+1)+1 : m[i] = l[c+1+i-1]
    BY <1>1, <2>1, SubSeqProperties DEF discarded
  <2> HIDE DEF m
  <2>4. Len(m) = n
    <3>1. CASE c + 1 <= Len(l)
      <4>1. Len(m) = Len(l)-(c+1)+1
        BY <2>2, <3>1
      <4>. QED  BY <1>1, <4>1
    <3>2. CASE ~(c + 1 <= Len(l))
      <4>1. Len(m) = 0
        BY <2>2, <3>2
      <4>2. c + 1 > Len(l)
        BY <1>1, <3>2
      <4>3. n <= 0
        BY <1>1, <4>2
      <4>4. n = 0
        <5> HIDE DEF n
        <5>. QED  BY <1>1, <4>3
      <4>. QED  BY <4>1, <4>4
    <3>. QED  BY <3>1, <3>2
  <2>5. ASSUME NEW i \in 1..n PROVE m[i] = l[c + i]
    <3>1. i \in 1..Len(l)-(c+1)+1 /\ c+1+i-1 = c + i
      BY <1>1
    <3>. QED  BY <2>3, <3>1
  <2>. QED  BY <2>2, <2>4, <2>5
<1>3. DOMAIN m = 1..n /\ p \in [1..n -> 1..Len(l)]
  <2> HIDE DEF m
  <2>. QED  BY <1>1, <1>2
<1>4. \A i, j \in 1..n : p[i] = p[j] => i = j
  BY <1>1
<1>5. \A i \in 1..n : m[i] = l[p[i]]
  BY <1>2
<1> HIDE DEF m, n, p
<1>6. \A x : Count(m, x) <= Count(l, x)
  BY <1>1, <1>3, <1>4, <1>5, CountOfChosen
<1>7. Len(m) <= Len(l)
  BY <1>1, <1>2 DEF n
<1>. QED  BY <1>2, <1>6, <1>7 DEF IsPartOf, m, n

\* Taking `c` once more from what was taken `c` at a time.
LEMMA TakenOnceMore ==
    ASSUME NEW gone \in Nat, NEW c \in Nat \ {0}, gone % c = 0
    PROVE  (gone + c) % c = 0
<1>1. PICK q \in Nat : gone = c * q
  OBVIOUS
<1>. QED  BY <1>1

-----------------------------------------------------------------------------
(* The lists of a game. *)

\* Records of Discards never change.
LEMMA DiscardsAfter ==
    ASSUME GameTypeOK, DiscardsStay, NEW top, Visited(top), rule.kind = "Discard" => top = Top
    PROVE  DiscardsStay'
<1>1. game' = game /\ top \in RuleStates /\ top.rule = Top.rule /\ stack # <<>>
  BY DEF Visited
<1>2. Len(stack) \in DOMAIN stack
  BY <1>1, TopType
<1>3. game.rules[top.rule].kind = "Discard" => ~top.finished /\ ~top.nestedRulesInProgess
  BY <1>1, <1>2 DEF DiscardsStay, Top, rule
<1>4. game.rules[CountedTop(top).rule].kind = "Discard" =>
        ~CountedTop(top).finished /\ ~CountedTop(top).nestedRulesInProgess
  BY <1>1, <1>3, CountedTopType
<1>5. \A r : ~RuleState(r).finished /\ ~RuleState(r).nestedRulesInProgess
  BY DEF RuleState
<1>6. ASSUME NEW i \in DOMAIN stack', game.rules[stack'[i].rule].kind = "Discard"
      PROVE  ~stack'[i].finished /\ ~stack'[i].nestedRulesInProgess
  <2>1. CASE i \in DOMAIN stack /\ i < Len(stack) /\ stack'[i] = stack[i]
    BY <1>6, <2>1 DEF DiscardsStay
  <2>2. CASE stack'[i] = top
    BY <1>3, <1>6, <2>2
  <2>3. CASE stack'[i] = CountedTop(top)
    BY <1>4, <1>6, <2>3
  <2>4. CASE \E r \in DOMAIN game.rules : stack'[i] = RuleState(r)
    BY <1>5, <2>4
  <2>. QED  BY <2>1, <2>2, <2>3, <2>4, EntriesAfter
<1>. QED  BY <1>1, <1>6 DEF DiscardsStay

\* A Discard that returns is visited again.
LEMMA DiscardIsVisitedAgain ==
    ASSUME GameTypeOK, DiscardsStay, stack # <<>>, rule.kind = "Discard", Returns(Top)
    PROVE  stack' = stack
<1>1. Len(stack) \in DOMAIN stack /\ stack \in Seq(RuleStates)
  BY TopType
<1>2. ~Top.finished /\ ~Top.nestedRulesInProgess
  BY <1>1 DEF DiscardsStay, Top, rule
<1>3. stack' = [stack EXCEPT ![Len(stack)] = Top]
  BY <1>2 DEF Returns, advance
<1>. QED  BY <1>1, <1>3 DEF Top

\* What a step does with the stack: nothing, or a visitor returns, or fails, that
\* has changed its own record, but not that of a Discard.
Rounded ==
    \/ UNCHANGED stack
    \/ \E top : Visited(top) /\ (rule.kind = "Discard" => top = Top)
    \/ Interrupted

\* So Discards stay, and a visited one is not left.
LEMMA RoundedStack ==
    ASSUME GameTypeOK, DiscardsStay, game' = game, Rounded
    PROVE  /\ DiscardsStay'
           /\ stack # <<>> /\ rule.kind = "Discard" => stack' = stack
<1>1. CASE UNCHANGED stack
  BY <1>1 DEF DiscardsStay
<1>2. ASSUME NEW top, Visited(top), rule.kind = "Discard" => top = Top
      PROVE  /\ DiscardsStay'
             /\ stack # <<>> /\ rule.kind = "Discard" => stack' = stack
  BY <1>2, DiscardsAfter, DiscardIsVisitedAgain DEF Visited
<1>3. CASE Interrupted
  <2>1. DiscardsStay'
    BY <1>3, InterruptedStack DEF DiscardsStay
  <2>. QED  BY <1>3, <2>1 DEF Interrupted
<1>. QED  BY <1>1, <1>2, <1>3 DEF Rounded

\* A list that is not touched is still kept.
LEMMA UntouchedList ==
    ASSUME GameTypeOK, DiscardsStay, game' = game, Rounded, NEW n \in Lists, IsKept(n),
           n \in DOMAIN variables', variables'[n] = variables[n]
    PROVE  IsKept(n)'
<1>1. Gone(n)' = Gone(n)
  BY DEF Gone
<1>2. Gone(n) = 0 \/ (stack' # <<>> /\ TakenBy(Top.rule, n)')
  <2>1. CASE Gone(n) = 0
    BY <2>1
  <2>2. CASE stack # <<>> /\ TakenBy(Top.rule, n)
    <3>1. stack' = stack
      BY <2>2, RoundedStack DEF TakenBy, rule
    <3>. QED  BY <1>1, <2>2, <3>1 DEF TakenBy, Top
  <2>. QED  BY <2>1, <2>2 DEF IsKept
<1>. QED  BY <1>1, <1>2 DEF IsKept

\* No list is touched.
LEMMA UntouchedLists ==
    ASSUME GameTypeOK, ListsInvariant, game' = game, Rounded,
           \A n \in Lists : n \in DOMAIN variables' /\ variables'[n] = variables[n]
    PROVE  ListsInvariant'
<1>1. Lists' = Lists
  BY DEF Lists
<1>2. DiscardsStay'
  BY RoundedStack DEF ListsInvariant
<1>3. \A n \in Lists : IsKept(n)'
  BY UntouchedList DEF ListsInvariant
<1>. QED  BY <1>1, <1>2, <1>3 DEF ListsInvariant

\* What a list was given as, and what it is now, are sequences of its elements.
LEMMA ListTypes ==
    ASSUME game \in Games, NEW n \in Lists, IsKept(n)
    PROVE  LET was == game.variables[n].list IN
           /\ was \in Seq(Range(was)) /\ Len(was) \in Nat
           /\ variables[n].list \in Seq(Range(was)) /\ Len(variables[n].list) \in Nat
           /\ variables[n] = List_(variables[n].list)
           /\ Gone(n) \in Int
           /\ \A x : Count(was, x) \in Nat /\ Count(variables[n].list, x) \in Nat
<1> DEFINE was == game.variables[n].list
           is == variables[n].list
<1>1. game.variables[n] \in [list : Seq(Range(was))]
  BY GameInstanceAssumption DEF Lists
<1>2. variables[n] \in [list : Seq(Range(was))]
  BY DEF IsKept
<1>3. was \in Seq(Range(was)) /\ is \in Seq(Range(was)) /\ variables[n] = List_(is)
  BY <1>1, <1>2 DEF List_
<1> HIDE DEF was, is
<1>4. /\ Len(was) \in Nat /\ DOMAIN was = 1..Len(was)
      /\ Len(is) \in Nat /\ DOMAIN is = 1..Len(is)
  BY <1>3
<1>5. \A x : Count(was, x) \in Nat /\ Count(is, x) \in Nat
  BY <1>4, CountType
<1>6. Gone(n) \in Int
  BY <1>4 DEF Gone, was, is
<1>. QED  BY <1>3, <1>4, <1>5, <1>6 DEF was, is

\* A list that gives way to a part of it is still kept.
LEMMA ReplacedList ==
    ASSUME GameTypeOK, DiscardsStay, game' = game, Rounded, NEW n \in Lists, IsKept(n),
           NEW l \in Seq(Range(game.variables[n].list)), IsPartOf(l, variables[n].list),
           n \in DOMAIN variables', variables'[n] = List_(l),
           NEW c \in Nat, Len(l) = Len(variables[n].list) - c,
           c # 0 => stack # <<>> /\ rule.kind = "Discard" /\ rule.count = c
    PROVE  IsKept(n)'
<1> DEFINE was == game.variables[n].list
           is == variables[n].list
<1>1. /\ game \in Games /\ was \in Seq(Range(was)) /\ Len(was) \in Nat
      /\ is \in Seq(Range(was)) /\ Len(is) \in Nat /\ Gone(n) \in Int
      /\ \A x : Count(was, x) \in Nat /\ Count(is, x) \in Nat
  BY ListTypes DEF GameTypeOK
<1>2. Len(l) \in Nat /\ \A x : Count(l, x) \in Nat
  <2>1. Len(l) \in Nat /\ DOMAIN l = 1..Len(l)
    OBVIOUS
  <2>. QED  BY <2>1, CountType
<1>3. variables'[n].list = l /\ variables'[n] \in [list : Seq(Range(was))]
  BY DEF List_
<1> HIDE DEF was, is
<1>4. \A x \in Range(was) : Count(l, x) <= Count(was, x)
  <2>1. \A x \in Range(was) : Count(is, x) <= Count(was, x)
    BY DEF IsKept, was, is
  <2>2. \A x : Count(l, x) <= Count(is, x)
    BY DEF IsPartOf, is
  <2>. QED  BY <1>1, <1>2, <2>1, <2>2
<1>5. Gone(n)' = Gone(n) + c /\ Gone(n) = Len(was) - Len(is)
  <2>1. Gone(n) = Len(was) - Len(is)
    BY DEF Gone, was, is
  <2>2. Gone(n)' = Len(was) - Len(l)
    BY <1>3 DEF Gone, was
  <2>3. Len(l) = Len(is) - c
    BY DEF is
  <2>4. Len(was) - Len(l) = Len(was) - Len(is) + c
    <3>1. \A a, b, e \in Nat : e = b - c => a - e = a - b + c
      OBVIOUS
    <3>. QED  BY <1>1, <1>2, <2>3, <3>1, Zenon
  <2>. QED  BY <2>1, <2>2, <2>4
<1>6. Gone(n)' = 0 \/ (stack' # <<>> /\ TakenBy(Top.rule, n)')
  <2>1. CASE c = 0
    <3>1. Gone(n)' = Gone(n)
      BY <1>1, <1>5, <2>1
    <3>2. CASE Gone(n) = 0
      BY <3>1, <3>2
    <3>3. CASE stack # <<>> /\ TakenBy(Top.rule, n)
      <4>1. stack' = stack
        BY <3>3, RoundedStack DEF TakenBy, rule
      <4>. QED  BY <3>1, <3>3, <4>1 DEF TakenBy, Top
    <3>. QED  BY <3>2, <3>3 DEF IsKept
  <2>2. CASE c # 0
    <3>1. stack # <<>> /\ rule.kind = "Discard" /\ rule.count = c /\ stack' = stack
      BY <2>2, RoundedStack
    <3>2. Gone(n) = 0 \/ (Gone(n) \in Nat /\ Gone(n) % c = 0)
      <4>1. CASE Gone(n) = 0
        BY <4>1
      <4>2. CASE TakenBy(Top.rule, n)
        BY <1>1, <3>1, <4>2 DEF TakenBy, rule
      <4>. QED  BY <4>1, <4>2 DEF IsKept
    <3>3. Gone(n) \in Nat
      BY <3>2
    <3>4. Gone(n) % c = 0
      <4>1. CASE Gone(n) = 0
        <5>1. 0 % c = 0
          BY <2>2
        <5>. QED  BY <4>1, <5>1
      <4>. QED  BY <3>2, <4>1
    <3>5. (Gone(n) + c) % c = 0
      BY <2>2, <3>3, <3>4, TakenOnceMore
    <3>6. c \in 1..(Gone(n) + c)
      BY <2>2, <3>3
    <3>7. TakenBy(Top.rule, n)'
      <4>1. Gone(n)' % c = 0 /\ c \in 1..Gone(n)'
        BY <1>5, <3>5, <3>6
      <4>2. Top' = Top /\ game'.rules[Top'.rule] = rule
        BY <3>1 DEF Top, rule
      <4>. QED  BY <3>1, <4>1, <4>2 DEF TakenBy
    <3>. QED  BY <3>1, <3>7
  <2>. QED  BY <2>1, <2>2
<1>. QED  BY <1>3, <1>4, <1>6 DEF IsKept, was

\* A visitor that leaves its record alone, or fails.
LEMMA PlainRound ==
    ASSUME GameTypeOK, stack # <<>>, game' = game, UNCHANGED stack \/ Returns(Top)
    PROVE  Rounded
<1>1. Top \in RuleStates
  BY TopType
<1>. QED  BY <1>1 DEF Rounded, Visited

\* A list rule that writes the state back as it was.
LEMMA RuleLeavesLists ==
    ASSUME GameTypeOK, ListsInvariant, stack # <<>>, NEW result, ReturnsUnfinished(result),
           Failed(result) \/ result = Map_(variables)
    PROVE  ListsInvariant'
<1>1. game' = game /\ (UNCHANGED stack \/ Returns(Top)) /\ variables' = variables
  BY DEF ReturnsUnfinished, Fails, Map_
<1>2. Rounded
  BY <1>1, PlainRound
<1>3. \A n \in Lists : n \in DOMAIN variables
  BY DEF ListsInvariant, IsKept
<1>. QED  BY <1>1, <1>2, <1>3, UntouchedLists

\* A list rule that writes the state back with a part of one of the lists.
LEMMA RuleReplacesList ==
    ASSUME GameTypeOK, ListsInvariant, stack # <<>>, NEW name, NEW l, NEW c \in Nat,
           ReturnsUnfinished(updated(name, l)),
           name \in Lists =>
             /\ l \in Seq(Range(game.variables[name].list))
             /\ IsPartOf(l, variables[name].list)
             /\ Len(l) = Len(variables[name].list) - c
             /\ c # 0 => rule.kind = "Discard" /\ rule.count = c
    PROVE  ListsInvariant'
<1>1. game' = game /\ Returns(Top) /\ variables' = set(variables, name, List_(l))
  BY DEF ReturnsUnfinished, updated, Map_, Failed
<1>2. Rounded
  BY <1>1, PlainRound
<1>3. Lists' = Lists
  BY <1>1 DEF Lists
<1>4. DiscardsStay /\ DiscardsStay'
  BY <1>1, <1>2, RoundedStack DEF ListsInvariant
<1>5. ASSUME NEW n \in Lists PROVE IsKept(n)'
  <2>1. IsKept(n) /\ n \in DOMAIN variables
    BY DEF ListsInvariant, IsKept
  <2>2. CASE n = name
    <3>1. n \in DOMAIN variables' /\ variables'[n] = List_(l)
      BY <1>1, <2>2 DEF set
    <3>. QED  BY <1>1, <1>2, <1>4, <2>1, <2>2, <3>1, ReplacedList
  <2>3. CASE n # name
    <3>1. n \in DOMAIN variables' /\ variables'[n] = variables[n]
      BY <1>1, <2>1, <2>3 DEF set
    <3>. QED  BY <1>1, <1>2, <1>4, <2>1, <3>1, UntouchedList
  <2>. QED  BY <2>2, <2>3
<1>. QED  BY <1>3, <1>4, <1>5 DEF ListsInvariant

\* What a list rule finds under the name of a list.
LEMMA ListIsFound ==
    ASSUME GameTypeOK, ListsInvariant, NEW n \in Lists
    PROVE  /\ listVariable(n) = variables[n] /\ IsList(variables[n])
           /\ ~Failed(variables[n]) /\ ~IsMap(variables[n]) /\ ~IsInt(variables[n])
           /\ ~IsBool(variables[n])
           /\ variables[n].list \in Seq(Range(game.variables[n].list))
           /\ n \in DOMAIN variables
<1>1. IsKept(n) /\ n \in DOMAIN variables
  BY DEF ListsInvariant, IsKept
<1>2. /\ variables[n] = List_(variables[n].list)
      /\ variables[n].list \in Seq(Range(game.variables[n].list))
  BY <1>1, ListTypes DEF GameTypeOK
<1>3. DOMAIN variables[n] = {"list"}
  BY <1>2 DEF List_
<1>4. /\ IsList(variables[n]) /\ ~Failed(variables[n])
      /\ ~IsMap(variables[n]) /\ ~IsInt(variables[n]) /\ ~IsBool(variables[n])
  BY <1>3 DEF IsList, Failed, IsMap, IsInt, IsBool
<1>5. listVariable(n) = variables[n]
  BY <1>1, <1>3 DEF listVariable, castExp
<1>. QED  BY <1>1, <1>2, <1>4, <1>5

\* Reverse stores the reversed list where it found the list.
LEMMA ReverseKeepsLists ==
    ASSUME GameTypeOK, ListsInvariant, visit_Reverse
    PROVE  ListsInvariant'
<1> DEFINE l == listVariable(rule.list)
<1>1. stack # <<>>
  BY DEF visit_Reverse, Visiting
<1>2. ReturnsUnfinished(IF Failed(l) THEN l
                        ELSE IF l = NotFound THEN Map_(variables)
                        ELSE updated(rule.list, reversed(l.list)))
  BY DEF visit_Reverse
<1> HIDE DEF l
<1>3. CASE Failed(l) \/ l = NotFound
  <2>1. PICK result : ReturnsUnfinished(result) /\ (Failed(result) \/ result = Map_(variables))
    BY <1>2, <1>3
  <2>. QED  BY <1>1, <2>1, RuleLeavesLists
<1>4. CASE ~(Failed(l) \/ l = NotFound)
  <2>1. ReturnsUnfinished(updated(rule.list, reversed(l.list)))
    BY <1>2, <1>4
  <2>2. ASSUME rule.list \in Lists
        PROVE  /\ reversed(l.list) \in Seq(Range(game.variables[rule.list].list))
               /\ IsPartOf(reversed(l.list), variables[rule.list].list)
               /\ Len(reversed(l.list)) = Len(variables[rule.list].list) - 0
    <3>1. l = variables[rule.list] /\ l.list \in Seq(Range(game.variables[rule.list].list))
      BY <2>2, ListIsFound DEF l
    <3>2. /\ reversed(l.list) \in Seq(Range(game.variables[rule.list].list))
          /\ Len(reversed(l.list)) = Len(l.list) /\ IsPartOf(reversed(l.list), l.list)
      BY <3>1, ReversedPart
    <3>3. Len(l.list) - 0 = Len(l.list)
      BY <3>1
    <3>. QED  BY <3>1, <3>2, <3>3
  <2>. QED  BY <1>1, <2>1, <2>2, RuleReplacesList
<1>. QED  BY <1>3, <1>4

\* Shuffle stores a permutation of the list where it found it.
LEMMA ShuffleKeepsLists ==
    ASSUME GameTypeOK, ListsInvariant, visit_Shuffle
    PROVE  ListsInvariant'
<1> DEFINE l == listVariable(rule.list)
<1>1. stack # <<>>
  BY DEF visit_Shuffle, Visiting
<1>2. PICK s \in IF IsList(l) THEN shuffles(l.list) ELSE {<<>>} :
        ReturnsUnfinished(IF Failed(l) THEN l
                          ELSE IF l = NotFound THEN Map_(variables)
                          ELSE updated(rule.list, s))
  BY DEF visit_Shuffle
<1> HIDE DEF l
<1>3. CASE Failed(l) \/ l = NotFound
  <2>1. PICK result : ReturnsUnfinished(result) /\ (Failed(result) \/ result = Map_(variables))
    BY <1>2, <1>3
  <2>. QED  BY <1>1, <2>1, RuleLeavesLists
<1>4. CASE ~(Failed(l) \/ l = NotFound)
  <2>1. ReturnsUnfinished(updated(rule.list, s))
    BY <1>2, <1>4
  <2>2. ASSUME rule.list \in Lists
        PROVE  /\ s \in Seq(Range(game.variables[rule.list].list))
               /\ IsPartOf(s, variables[rule.list].list)
               /\ Len(s) = Len(variables[rule.list].list) - 0
    <3>1. /\ l = variables[rule.list] /\ l.list \in Seq(Range(game.variables[rule.list].list))
          /\ IsList(l)
      BY <2>2, ListIsFound DEF l
    <3>2. /\ s \in Seq(Range(game.variables[rule.list].list))
          /\ Len(s) = Len(l.list) /\ IsPartOf(s, l.list)
      BY <1>2, <3>1, ShuffledPart
    <3>3. Len(l.list) - 0 = Len(l.list)
      BY <3>1
    <3>. QED  BY <3>1, <3>2, <3>3
  <2>. QED  BY <1>1, <2>1, <2>2, RuleReplacesList
<1>. QED  BY <1>3, <1>4

\* Discard takes as many elements off the front as it says, if there are as many.
LEMMA DiscardKeepsLists ==
    ASSUME GameTypeOK, ListsInvariant, visit_Discard
    PROVE  ListsInvariant'
<1> DEFINE name   == rule.fromList.str[1]
           l      == listVariable(name)
           dotted == Len(rule.fromList.str) > 1
           shown  == getEvaluatedList(rule.fromList, variables)
           text   == IF Failed(shown) THEN shown
                     ELSE IF \A i \in DOMAIN shown.list : IsStr(shown.list[i]) THEN List_(<<>>)
                     ELSE Thrown
           plain  == IF IsList(l) /\ ~tooFew(l.list, rule.count)
                     THEN updated(name, discarded(l.list, rule.count))
                     ELSE IF Failed(l) THEN l ELSE Map_(variables)
<1>1. stack # <<>> /\ rule.kind = "Discard"
  BY DEF visit_Discard, Visiting
<1>2. ReturnsUnfinished(IF ~dotted THEN plain
                        ELSE IF Failed(text) THEN text
                        ELSE IF rule.count = 0 THEN Thrown ELSE Map_(variables))
  BY DEF visit_Discard
<1>3. rule.count \in Int
  BY <1>1, TopType, GameInstanceAssumption DEF rule, GameTypeOK
<1>4. Failed(Thrown)
  BY DEF Failed, Thrown
<1> HIDE DEF l, dotted, text, shown, name
<1>5. CASE dotted \/ ~(IsList(l) /\ ~tooFew(l.list, rule.count))
  <2>1. PICK result : ReturnsUnfinished(result) /\ (Failed(result) \/ result = Map_(variables))
    BY <1>2, <1>4, <1>5
  <2>. QED  BY <1>1, <2>1, RuleLeavesLists
<1>6. CASE ~dotted /\ IsList(l) /\ ~tooFew(l.list, rule.count)
  <2>1. ReturnsUnfinished(updated(name, discarded(l.list, rule.count)))
    BY <1>2, <1>6
  <2>2. rule.count >= 0
    BY <1>3, <1>6 DEF tooFew
  <2>3. rule.count \in Nat
    BY <1>3, <2>2
  <2>4. ASSUME name \in Lists
        PROVE  /\ discarded(l.list, rule.count) \in Seq(Range(game.variables[name].list))
               /\ IsPartOf(discarded(l.list, rule.count), variables[name].list)
               /\ Len(discarded(l.list, rule.count)) = Len(variables[name].list) - rule.count
    <3>1. l = variables[name] /\ l.list \in Seq(Range(game.variables[name].list))
      BY <2>4, ListIsFound DEF l
    <3>2. Len(l.list) \in Nat
      BY <3>1
    <3>3. rule.count \in 0..Len(l.list)
      BY <1>6, <2>3, <3>2 DEF tooFew
    <3>. QED  BY <3>1, <3>3, DiscardedPart
  <2>. QED  BY <1>1, <2>1, <2>3, <2>4, RuleReplacesList
<1>. QED  BY <1>5, <1>6

\* Deal stores nothing: it leaves the variables as they are, or fails.
LEMMA DealKeepsLists ==
    ASSUME GameTypeOK, ListsInvariant, visit_Deal
    PROVE  ListsInvariant'
<1> DEFINE from  == listVariable(rule.fromList.str[1])
           to    == listVariable(rule.toList.str[1])
           lists == FirstFailure(<<to, from, getEvaluatedList(rule.fromList, variables),
                                   getEvaluatedList(rule.toList, variables)>>)
           short == Len(rule.fromList.str) < 3 \/ Len(rule.toList.str) < 3
           same  == tooFew(from.list, rule.count) \/ rule.count = 0
<1>1. stack # <<>>
  BY DEF visit_Deal, Visiting
<1>2. PICK result \in IF short THEN {Undefined}
                      ELSE IF NotFound \in {from, to} THEN {Undefined}
                      ELSE IF Failed(lists) THEN {lists}
                      ELSE IF same THEN {Map_(variables)}
                      ELSE {Map_(variables), Undefined} : ReturnsUnfinished(result)
  BY DEF visit_Deal
<1>3. Failed(Undefined)
  BY DEF Failed, Undefined
<1> HIDE DEF lists, short, same, from, to
<1>4. Failed(result) \/ result = Map_(variables)
  BY <1>2, <1>3
<1>. QED  BY <1>1, <1>2, <1>4, RuleLeavesLists

\* The sum of an Add is stored where an int was found.
LEMMA AddKeepsLists ==
    ASSUME GameTypeOK, ListsInvariant, visit_Add
    PROVE  ListsInvariant'
<1> DEFINE to    == castExp(getPtr(variables, rule.to), "int")
           value == castExp(evaluate(rule.value), "int")
           bad   == FirstFailure(<<to, value>>)
           sum   == Int_(wrap(to.int + value.int))
<1>1. stack # <<>> /\ rule.kind = "Add" /\ game' = game
  BY DEF visit_Add, Visiting
<1>2. IF Failed(bad) THEN Fails(bad) /\ UNCHANGED variables
      ELSE /\ Returns([Top EXCEPT !.finished = TRUE])
           /\ variables' = store(variables, rule.to, sum).map
  BY DEF visit_Add
<1>3. IsPath(rule.to)
  BY <1>1, TopType, GameInstanceAssumption DEF rule, GameTypeOK
<1>4. ~Failed(bad) => ~Failed(to)
  <2>1. SUFFICES ASSUME Failed(to) PROVE Failed(bad)
    OBVIOUS
  <2> DEFINE I == {i \in 1..Len(<<to, value>>) : Failed(<<to, value>>[i])}
  <2>2. bad = IF (IF I # {} THEN Min(I) ELSE 0) = 0 THEN NotFound
              ELSE <<to, value>>[IF I # {} THEN Min(I) ELSE 0]
    BY DEF FirstFailure, SelectInSeq
  <2> HIDE DEF to, value, bad
  <2>3. 1 \in I /\ I \in SUBSET Nat /\ \A i \in I : 1 <= i
    BY <2>1
  <2> HIDE DEF I
  <2>4. Min(I) = 1
    <3>1. \E x \in I : \A y \in I : x <= y
      BY <2>3
    <3>2. Min(I) \in I /\ \A y \in I : Min(I) <= y
      BY <3>1, Zenon DEF Min
    <3>3. Min(I) \in Nat /\ Min(I) <= 1 /\ 1 <= Min(I)
      BY <2>3, <3>2
    <3>4. \A a \in Nat : a <= 1 /\ 1 <= a => a = 1
      OBVIOUS
    <3>. QED  BY <3>3, <3>4, Zenon
  <2>5. bad = to
    BY <2>2, <2>3, <2>4
  <2>. QED  BY <2>1, <2>5
<1> HIDE DEF value, bad, sum
<1>5. \A n \in Lists : n \in DOMAIN variables
  BY ListIsFound
<1>6. CASE Failed(bad)
  <2>1. UNCHANGED stack /\ variables' = variables
    BY <1>2, <1>6 DEF Fails
  <2>2. Rounded
    BY <2>1 DEF Rounded
  <2>. QED  BY <1>1, <1>5, <2>1, <2>2, UntouchedLists
<1>7. CASE ~Failed(bad)
  <2>1. Returns([Top EXCEPT !.finished = TRUE]) /\ variables' = store(variables, rule.to, sum).map
    BY <1>2, <1>7
  <2>2. Rounded
    <3> DEFINE top == [Top EXCEPT !.finished = TRUE]
    <3>1. top \in RuleStates /\ top.rule = Top.rule
      BY <1>1, TopType DEF RuleStates
    <3>. QED  BY <1>1, <2>1, <3>1 DEF Rounded, Visited
  <2>3. IsInt(getPtr(variables, rule.to)) /\ ~Failed(getPtr(variables, rule.to))
    BY <1>4, <1>7 DEF castExp, IsInt, Failed, Thrown
  <2>4. getPtr(variables, rule.to) # NotFound
    BY <2>3 DEF IsInt, NotFound
  <2>5. PICK new : store(variables, rule.to, sum) = Map_([variables EXCEPT ![rule.to[1]] = new])
    BY <1>3, <2>4, StoreChangesOne DEF IsPath
  <2>6. variables' = [variables EXCEPT ![rule.to[1]] = new]
    BY <2>1, <2>5 DEF Map_
  <2>7. ASSUME NEW n \in Lists PROVE rule.to[1] # n
    <3>1. SUFFICES ASSUME rule.to[1] = n PROVE FALSE
      OBVIOUS
    <3>2. n \in DOMAIN variables /\ ~IsMap(variables[n]) /\ ~IsInt(variables[n])
      BY ListIsFound
    <3>3. Len(rule.to) \in Nat \ {0}
      BY <1>3, EmptySeq DEF IsPath
    <3>4. getPtr(variables, rule.to) = IF Len(rule.to) = 1 THEN variables[n] ELSE NotFound
      BY <3>1, <3>2, <3>3, GetPtrOfLeaf
    <3>. QED  BY <2>3, <2>4, <3>2, <3>4
  <2>8. \A n \in Lists : n \in DOMAIN variables' /\ variables'[n] = variables[n]
    BY <1>5, <2>6, <2>7
  <2>. QED  BY <1>1, <2>2, <2>8, UntouchedLists
<1>. QED  BY <1>6, <1>7

\* A visitor that leaves the variables alone and changes at most its own record.
LEMMA VisitLeavesLists ==
    ASSUME GameTypeOK, ListsInvariant, stack # <<>>, game' = game, variables' = variables,
           NEW top, UNCHANGED stack \/ Returns(top) \/ Interrupted, top \in RuleStates, top.rule = Top.rule,
           rule.kind = "Discard" => top = Top
    PROVE  ListsInvariant'
<1>1. Rounded
  BY DEF Rounded, Visited
<1>2. \A n \in Lists : n \in DOMAIN variables
  BY ListIsFound
<1>. QED  BY <1>1, <1>2, UntouchedLists

\* The flag of a timer names no list, and a path through a list leads nowhere.
LEMMA CheckTimerKeepsLists ==
    ASSUME GameTypeOK, ListsInvariant, CheckTimer
    PROVE  ListsInvariant'
<1> DEFINE stored == IF rule.mode = "TRACK" THEN store(variables, rule.flag, Bool_(TRUE))
                     ELSE Map_(variables)
           missing == timerList[Top.rule] = NoTimer \/ Failed(stored)
           begun == [Top EXCEPT !.nestedRulesInProgess = FALSE]
           top == [begun EXCEPT !.finished = @ \/ timer_finished]
<1>1. stack # <<>> /\ rule.kind = "Timer" /\ game' = game
  BY DEF CheckTimer, Visiting
<1>2. IF missing THEN Interrupted /\ UNCHANGED variables
      ELSE Returns(top) /\ variables' = stored.map
  BY <1>1 DEF CheckTimer, FailsLeaving, Interrupted
<1>3. Top \in RuleStates /\ Top.rule \in DOMAIN game.rules
  BY <1>1, TopType
<1>4. top \in RuleStates /\ top.rule = Top.rule
  BY <1>3 DEF RuleStates
<1>5. \A n \in Lists : n \in DOMAIN variables
  BY ListIsFound
<1>6. CASE missing
  <2>1. Interrupted /\ variables' = variables
    BY <1>2, <1>6
  <2> HIDE DEF top
  <2>. QED  BY <1>1, <1>4, <2>1, VisitLeavesLists
<1>7. CASE ~missing
  <2>1. Returns(top) /\ variables' = stored.map /\ ~Failed(stored)
    BY <1>2, <1>7
  <2>2. Rounded
    <3> HIDE DEF top
    <3>. QED  BY <1>1, <1>4, <2>1 DEF Rounded, Visited
  <2>3. CASE rule.mode = "TRACK"
    <3>1. stored = store(variables, rule.flag, Bool_(TRUE))
      BY <2>3
    <3>2. rule.flag \in Seq(Range(rule.flag)) /\ rule.flag # <<>>
      BY <1>1, <1>3, GameInstanceAssumption DEF rule, GameTypeOK, IsPath
    <3>3. ASSUME NEW n \in Lists PROVE n \in DOMAIN variables' /\ variables'[n] = variables[n]
      <4>1. rule.flag # <<n>>
        BY <1>1, <1>3, <2>3 DEF Lists, rule
      <4>2. n \in DOMAIN variables /\ IsList(variables[n]) /\ ~IsMap(variables[n])
        BY ListIsFound
      <4> DEFINE flag == rule.flag
                 value == Bool_(TRUE)
      <4>3. ~Failed(store(variables, flag, value)) /\ variables' = store(variables, flag, value).map
        BY <2>1, <3>1
      <4> HIDE DEF stored, flag, value
      <4>4. /\ DOMAIN store(variables, flag, value).map = DOMAIN variables
            /\ store(variables, flag, value).map[n] = variables[n]
        <5>1. flag \in Seq(Range(flag)) /\ flag # <<>> /\ flag # <<n>>
          BY <3>2, <4>1 DEF flag
        <5>. QED  BY <4>2, <4>3, <5>1, StoreKeepsList
      <4>. QED  BY <4>2, <4>3, <4>4
    <3>. QED  BY <1>1, <2>2, <3>3, UntouchedLists
  <2>4. CASE rule.mode # "TRACK"
    <3>1. variables' = variables
      BY <2>1, <2>4 DEF Map_
    <3>. QED  BY <1>1, <1>5, <2>2, <3>1, UntouchedLists
  <2>. QED  BY <2>3, <2>4
<1>. QED  BY <1>6, <1>7

\* A Timer that begins stores nothing but its state.
LEMMA BeginTimerKeepsLists ==
    ASSUME GameTypeOK, ListsInvariant, BeginTimer
    PROVE  ListsInvariant'
<1> DEFINE top == [Top EXCEPT !.nestedRulesInProgess = TRUE]
<1>1. /\ stack # <<>> /\ rule.kind = "Timer" /\ game' = game /\ variables' = variables
      /\ Interrupted \/ Returns(top)
  BY DEF BeginTimer, Visiting, FailsLeaving, Interrupted
<1>2. top \in RuleStates /\ top.rule = Top.rule
  BY <1>1, TopType DEF RuleStates
<1> HIDE DEF top
<1>. QED  BY <1>1, <1>2, VisitLeavesLists

\* ForEach only reads the list that it goes through.
LEMMA ForEachKeepsLists ==
    ASSUME GameTypeOK, ListsInvariant, visit_ForEach
    PROVE  ListsInvariant'
<1> DEFINE done == [Top EXCEPT !.finished = TRUE]
           more == [Top EXCEPT !.nestedRulesInProgess = TRUE, !.elemListIndex = @ + 1]
<1>1. /\ stack # <<>> /\ rule.kind = "ForEach" /\ game' = game /\ variables' = variables
      /\ UNCHANGED stack \/ Returns(done) \/ Returns(more)
  BY DEF visit_ForEach, Visiting, Fails
<1>2. done \in RuleStates /\ done.rule = Top.rule
  BY <1>1, TopType DEF RuleStates
<1>3. more \in RuleStates /\ more.rule = Top.rule
  <2>1. Top \in RuleStates
    BY <1>1, TopType
  <2>2. Top.elemListIndex + 1 \in Nat
    BY <2>1 DEF RuleStates
  <2>. QED  BY <2>1, <2>2 DEF RuleStates
<1> HIDE DEF done, more
<1>. QED  BY <1>1, <1>2, <1>3, VisitLeavesLists

\* The visitors that have no effect on the variables, but for an empty
\* "audience" that comes into being when it is asked for.
LEMMA OutputKeepsLists ==
    ASSUME GameTypeOK, ListsInvariant, visit_GlobalMessage \/ visit_Input \/ visit_nothing
    PROVE  ListsInvariant'
<1>1. /\ stack # <<>> /\ game' = game
      /\ UNCHANGED stack \/ Returns(Top)
      /\ variables' = variables \/ variables' = with_audience(variables)
  BY DEF visit_GlobalMessage, visit_Input, visit_nothing, Visiting, Fails
<1>2. Rounded
  BY <1>1, PlainRound
<1>3. \A n \in Lists : n \in DOMAIN variables' /\ variables'[n] = variables[n]
  BY <1>1, ListIsFound DEF with_audience
<1>. QED  BY <1>1, <1>2, <1>3, UntouchedLists

\* start() replaces the players, and the audience only if it is a bool.
LEMMA StartKeepsLists ==
    ASSUME GameTypeOK, ListsInvariant, start
    PROVE  ListsInvariant'
<1>1. PICK players \in SUBSET Users :
        LET seated == set(variables, "players", loadUsers(players, game.perPlayer))
            loaded == loadAudience(seated, Users \ players)
        IN  \/ Failed(loaded) /\ variables' = with_audience(seated)
            \/ ~Failed(loaded) /\ variables' = loaded.map
  BY DEF start
<1>2. game' = game /\ Rounded
  BY DEF start, Rounded
<1> DEFINE seated == set(variables, "players", loadUsers(players, game.perPlayer))
           loaded == loadAudience(seated, Users \ players)
           listed == loadUsers(Users \ players, game.perAudience)
<1>3. ASSUME NEW n \in Lists PROVE n \in DOMAIN variables' /\ variables'[n] = variables[n]
  <2>1. n # "players" /\ n \in DOMAIN variables /\ ~IsBool(variables[n])
    BY ListIsFound DEF Lists
  <2>2. n \in DOMAIN seated /\ seated[n] = variables[n]
    BY <2>1 DEF set
  <2> HIDE DEF seated
  <2>3. CASE Failed(loaded)
    <3>1. variables' = with_audience(seated)
      BY <1>1, <2>3 DEF seated
    <3>. QED  BY <2>2, <3>1 DEF with_audience
  <2>4. CASE ~Failed(loaded)
    <3>1. variables' = loaded.map
      BY <1>1, <2>4 DEF seated
    <3>2. IsBool(seated["audience"])
      BY <2>4 DEF loadAudience, Failed, Thrown
    <3>3. loaded = Map_(IF seated["audience"].bool THEN set(seated, "audience", listed) ELSE seated)
      BY <2>4 DEF loadAudience, Failed, Thrown
    <3>4. n # "audience"
      BY <2>1, <2>2, <3>2
    <3>5. variables' = set(seated, "audience", listed) \/ variables' = seated
      BY <3>1, <3>3 DEF Map_
    <3>. QED  BY <2>2, <3>4, <3>5 DEF set
  <2>. QED  BY <2>3, <2>4
<1>. QED  BY <1>2, <1>3, UntouchedLists

\* Every step preserves the invariant.
LEMMA NextKeepsLists ==
    ASSUME GameTypeOK, ListsInvariant, [Next]_vars
    PROVE  ListsInvariant'
<1>1. CASE Visit
  BY <1>1, ReverseKeepsLists, ShuffleKeepsLists, DiscardKeepsLists, DealKeepsLists,
     AddKeepsLists, CheckTimerKeepsLists, BeginTimerKeepsLists, ForEachKeepsLists,
     OutputKeepsLists DEF Visit
<1>2. CASE start
  BY <1>2, StartKeepsLists
<1>3. CASE update \/ updateState_returns \/ tick \/ UNCHANGED vars
  <2>1. game' = game /\ stack' = stack /\ variables' = variables
    BY <1>3 DEF update, updateState_returns, tick, vars
  <2>2. Rounded
    BY <2>1 DEF Rounded
  <2>3. \A n \in Lists : n \in DOMAIN variables
    BY ListIsFound
  <2>. QED  BY <2>1, <2>2, <2>3, UntouchedLists
<1>. QED  BY <1>1, <1>2, <1>3 DEF Next

\* At the beginning the lists are those of the specification.
LEMMA InitKeepsLists ==
    ASSUME Init
    PROVE  ListsInvariant
<1>1. game \in Games /\ stack = <<RuleState(game.first)>> /\ variables = game.variables
  BY DEF Init
<1>2. DiscardsStay
  BY <1>1 DEF DiscardsStay, RuleState
<1>3. ASSUME NEW n \in Lists PROVE IsKept(n)
  <2> DEFINE was == game.variables[n].list
  <2>1. n \in DOMAIN game.variables /\ game.variables[n] \in [list : Seq(Range(was))]
    BY <1>1, GameInstanceAssumption DEF Lists
  <2>2. was \in Seq(Range(was)) /\ Len(was) \in Nat /\ DOMAIN was = 1..Len(was)
    <3>1. was \in Seq(Range(was))
      BY <2>1
    <3> HIDE DEF was
    <3>. QED  BY <3>1
  <2>3. \A x : Count(was, x) \in Nat
    <3> HIDE DEF was
    <3>. QED  BY <2>2, CountType
  <2>4. Gone(n) = 0
    BY <1>1, <2>2 DEF Gone
  <2>5. \A x : Count(was, x) <= Count(was, x)
    BY <2>3
  <2>. QED  BY <1>1, <2>1, <2>4, <2>5 DEF IsKept
<1>. QED  BY <1>2, <1>3 DEF ListsInvariant

\* The inductive invariant of the lists.
THEOREM ListsInvariantHolds == Spec => []ListsInvariant
<1>1. Init => ListsInvariant
  BY InitKeepsLists
<1>2. GameInvariant /\ ListsInvariant /\ [Next]_vars => ListsInvariant'
  BY NextKeepsLists DEF GameInvariant
<1>. QED  BY <1>1, <1>2, GameInvariantHolds, PTL DEF Spec

\* Whatever the list rules do again and again, a list of the game is only
\* reordered, or shortened by a Discard, its whole count at a time.
THEOREM ListsAreKept == Spec => []ListsKeepTheirElements
<1>1. ASSUME GameTypeOK, ListsInvariant PROVE ListsKeepTheirElements
  <2>1. SUFFICES ASSUME NEW n \in Lists
                 PROVE  /\ IsList(variables[n])
                        /\ \A x \in Range(variables[n].list) :
                             Count(variables[n].list, x) <= Count(game.variables[n].list, x)
                        /\ Gone(n) = 0 \/ \E r \in DOMAIN game.rules : TakenBy(r, n)
    BY DEF ListsKeepTheirElements
  <2>2. IsKept(n)
    BY <1>1 DEF ListsInvariant
  <2>3. IsList(variables[n]) /\ variables[n].list \in Seq(Range(game.variables[n].list))
    BY <1>1, ListIsFound
  <2>4. \A x \in Range(variables[n].list) : x \in Range(game.variables[n].list)
    <3>1. \A i \in DOMAIN variables[n].list : variables[n].list[i] \in Range(game.variables[n].list)
      BY <2>3
    <3>. QED  BY <3>1 DEF Range
  <2>5. stack # <<>> => Top.rule \in DOMAIN game.rules
    BY <1>1, TopType
  <2>. QED  BY <2>2, <2>3, <2>4, <2>5 DEF IsKept
<1>2. GameInvariant => GameTypeOK
  BY DEF GameInvariant
<1>. QED  BY <1>1, <1>2, GameInvariantHolds, ListsInvariantHolds, PTL
=============================================================================
