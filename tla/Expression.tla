----------------------------- MODULE Expression -----------------------------
(***************************************************************************)
(* The values of the game language and the operators that read and write   *)
(* them: src/module/game_spec (Expression, ExpressionPtr) and the helpers   *)
(* of src/module/game_manager/src/DSLInterpreter.cpp.                       *)
(*                                                                         *)
(* A value is a record with one field, named for the alternative of the    *)
(* boost::variant that it holds.  A string that names something is kept as *)
(* tokenizeDotNotation leaves it: the names before the first attribute,    *)
(* and the attributes.  What cannot be computed is a failure: "thrown"     *)
(* where the code throws, "undefined" where its behaviour is undefined (an *)
(* assertion, a missing return, an iterator past the end).                 *)
(***************************************************************************)
EXTENDS Integers, Sequences, FiniteSets, SequencesExt

CONSTANT IntWidth   \* the number of bits of an int

ASSUME IntWidthAssumption == IntWidth \in Nat \ {0}

Int_(n)  == [int |-> n]
Bool_(b) == [bool |-> b]
List_(s) == [list |-> s]
Map_(f)  == [map |-> f]
Str_(names, attrs) == [str |-> names, attrs |-> attrs]
Name(n)  == Str_(<<n>>, <<>>)
EmptyMap == [n \in {} |-> 0]

NotFound  == [missing |-> TRUE]
Thrown    == [failure |-> "thrown"]
Undefined == [failure |-> "undefined"]

IsInt(e)  == "int" \in DOMAIN e
IsBool(e) == "bool" \in DOMAIN e
IsList(e) == "list" \in DOMAIN e
IsMap(e)  == "map" \in DOMAIN e
IsStr(e)  == "str" \in DOMAIN e
Failed(e) == "failure" \in DOMAIN e

(* castExp of a value that has the type asked for, or has failed before. *)
castExp(e, type) == IF Failed(e) \/ type \in DOMAIN e THEN e ELSE Thrown

(* The first failure of results that are computed one after the other. *)
FirstFailure(results) ==
  LET first == SelectInSeq(results, Failed)
  IN  IF first = 0 THEN NotFound ELSE results[first]

(* Sums are stored in an int, which wraps around in the builds we know. *)
wrap(n) == LET half == 2^(IntWidth - 1) IN ((n + half) % (2 * half)) - half
Ints == -(2^(IntWidth - 1))..(2^(IntWidth - 1) - 1)

(***************************************************************************)
(* ExpressionPtr: a path of keys through nested maps.  reached[k] is what  *)
(* the first k keys lead to.                                               *)
(***************************************************************************)
getPtr(map, path) ==
  LET reached[k \in 0..Len(path)] ==
        IF k = 0 THEN Map_(map)
        ELSE IF IsMap(reached[k-1]) /\ path[k] \in DOMAIN reached[k-1].map
             THEN reached[k-1].map[path[k]]
             ELSE NotFound
  IN  reached[Len(path)]

store(map, path, value) ==
  LET at(k) == getPtr(map, SubSeq(path, 1, k))
      rebuilt[k \in 1..Len(path)+1] ==
        IF k = Len(path) + 1 THEN value
        ELSE Map_([at(k-1).map EXCEPT ![path[k]] = rebuilt[k+1]])
  IN  IF getPtr(map, path) = NotFound THEN Thrown ELSE rebuilt[1]

(* Innermost scope first, then the variables, then the constants. *)
lookupWithIndices(context, variables, constants, path) ==
  LET scopes == Reverse(context) \o <<variables, constants>>
      hits   == SelectSeq(scopes, LAMBDA m : getPtr(m, path) # NotFound)
  IN  IF path = <<>> THEN Undefined
      ELSE IF hits = <<>> THEN NotFound
      ELSE getPtr(Head(hits), path)

(***************************************************************************)
(* Attributes.  The ones nobody implemented give 0 ("elements") or, a char *)
(* pointer becoming a bool, true ("collect").                              *)
(***************************************************************************)
applyContainsAttribute(e, arg) ==
  LET comparable(x) == IF IsInt(arg) THEN IsInt(x) ELSE IsStr(x)
      upTo == SelectInSeq(e.list, LAMBDA x : ~comparable(x) \/ x = arg)
  IN  IF ~IsList(e) THEN Bool_(FALSE)
      ELSE IF upTo = 0 THEN Bool_(FALSE)
      ELSE IF comparable(e.list[upTo]) THEN Bool_(TRUE) ELSE Thrown

applyAttribute(e, attr) ==
  CASE attr.op = "size"     -> IF IsList(e) THEN Int_(Len(e.list)) ELSE Undefined
    [] attr.op = "upfrom"   -> List_(IF ~IsInt(e) THEN <<>>
                                     ELSE [i \in 1..(e.int - attr.arg.int + 1)
                                             |-> Int_(attr.arg.int + i - 1)])
    [] attr.op = "contains" -> applyContainsAttribute(e, attr.arg)
    [] attr.op = "collect"  -> Bool_(TRUE)
    [] OTHER                -> Int_(0)

evaluateExpression(context, variables, constants, e) ==
  LET found == lookupWithIndices(context, variables, constants, e.str)
      applied[k \in 0..Len(e.attrs)] ==
        IF k = 0 THEN found
        ELSE IF Failed(applied[k-1]) THEN applied[k-1]
        ELSE applyAttribute(applied[k-1], e.attrs[k])
  IN  IF ~IsStr(e) THEN e
      ELSE IF found = NotFound THEN Thrown
      ELSE applied[Len(e.attrs)]

(***************************************************************************)
(* List expressions of the form list.elements.attribute and                *)
(* list.elements.collect(condition).                                       *)
(***************************************************************************)
getlistAttribute(list, attribute) ==
  LET inner(m)  == m[CHOOSE k \in DOMAIN m : TRUE]
      holder(x) == IF ~IsMap(x) THEN Thrown
                   ELSE IF attribute \in DOMAIN x.map THEN x
                   ELSE IF DOMAIN x.map = {} THEN Undefined
                   ELSE castExp(inner(x.map), "map")
      holders   == [i \in DOMAIN list |-> holder(list[i])]
      having    == SelectSeq(holders, LAMBDA h : attribute \in DOMAIN h.map)
  IN  IF FirstFailure(holders) # NotFound THEN FirstFailure(holders)
      ELSE List_([i \in DOMAIN having |-> having[i].map[attribute]])

(* The comparison is cut out of the condition as if it were "<": any other *)
(* one throws, and with "<" the operands are looked up in empty vectors.   *)
getCollectList(list, comparison) ==
  IF comparison # "<" THEN Thrown
  ELSE IF list = <<>> THEN List_(<<>>) ELSE Undefined

(* A list expression needs three names, the second of which is ignored;   *)
(* the comparison of a condition is kept in its place among the attributes.*)
getEvaluatedList(e, variables) ==
  LET list == castExp(variables[e.str[1]], "list")
  IN  IF Len(e.str) < 3 THEN Undefined
      ELSE IF e.str[1] \notin DOMAIN variables THEN List_(<<>>)
      ELSE IF Failed(list) THEN list
      ELSE IF e.str[3] = "collect"
           THEN getCollectList(list.list, IF e.attrs = <<>> THEN "none" ELSE e.attrs[1].op)
      ELSE getlistAttribute(list.list, e.str[3])
=============================================================================
