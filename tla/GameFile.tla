------------------------------ MODULE GameFile ------------------------------
(***************************************************************************)
(* The files the server reads: its configuration, which main() loads, and  *)
(* the specification of a game (src/module/serializer, load_config_from_   *)
(* json).                                                                  *)
(*                                                                         *)
(* A JSON value is a record with one field, named for its value_t.  The    *)
(* library's parser gives number_unsigned to numbers that are not          *)
(* negative, number_integer only to negative ones; a document that was put *)
(* together in C++ may have either.                                        *)
(***************************************************************************)
EXTENDS Expression

CONSTANTS
  ConfigFiles,   \* what may be at the path of the server configuration
  GameFiles,     \* the documents that may be passed to parseGameSpecification
  Unreadable,    \* a file that cannot be opened
  NotJson,       \* a file that is not JSON
  PortWidth,     \* the number of bits of an unsigned short
  Json,          \* the JSON values: the documents and all their parts
  Depth(_),      \* how deep a JSON value is nested
  IndexName(_),  \* the number of an element of an array, as items() gives it
  Paths          \* the paths that are followed into what was parsed

(***************************************************************************)
(* JSON values                                                             *)
(***************************************************************************)
type(j) == CHOOSE t \in DOMAIN j : TRUE
IsObject(j)   == type(j) = "object"
contains(j, key) == IsObject(j) /\ key \in DOMAIN j.object
at(j, key)    == j.object[key]
Numbers == {"number_integer", "number_unsigned", "number_float"}
number(j) == j[type(j)]

(* The elements of an array are listed under their index. *)
indexed(seq) ==
  [k \in {IndexName(i - 1) : i \in DOMAIN seq} |->
     seq[CHOOSE i \in DOMAIN seq : IndexName(i - 1) = k]]

items(j) == CASE type(j) = "object" -> j.object
              [] type(j) = "array"  -> indexed(j.array)
              [] OTHER              -> [k \in {""} |-> j]

size(j) == IF type(j) = "null" THEN 0 ELSE Cardinality(DOMAIN items(j))

(* A value is a finite tree. *)
IsInside(part, j) == part \in Json /\ Depth(part) < Depth(j)

IsJson(j) ==
  \/ /\ DOMAIN j = {"object"} /\ IsFiniteSet(DOMAIN j.object)
     /\ \A key \in DOMAIN j.object : IsInside(j.object[key], j)
  \/ /\ DOMAIN j = {"array"} /\ j.array \in Seq(Range(j.array))
     /\ \A i \in DOMAIN j.array : IsInside(j.array[i], j)
     /\ \A i, k \in DOMAIN j.array : IndexName(i - 1) = IndexName(k - 1) => i = k
  \/ DOMAIN j = {"string"}
  \/ DOMAIN j = {"boolean"} /\ j.boolean \in BOOLEAN
  \/ DOMAIN j = {"null"}
  \/ \E t \in Numbers : DOMAIN j = {t} /\ j[t] \in Int

ASSUME GameFileAssumption ==
  /\ PortWidth \in Nat \ {0} /\ PortWidth < IntWidth
  /\ \A j \in Json : IsJson(j) /\ Depth(j) \in Nat
  /\ GameFiles \subseteq Json
  /\ ConfigFiles \subseteq Json \cup {Unreadable, NotJson}
  /\ \A path \in Paths : path \in Seq(Range(path)) /\ path # <<>>

(* What the provers do not know of powers of two. *)
ASSUME PowersAreNumbers == {2^PortWidth, 2^(IntWidth - 1)} \subseteq Nat \ {0}

VARIABLES
  call,     \* the function of the serializer that is called
  file,     \* the file that is read
  ndebug,   \* does the build leave assertions out?
  pc,       \* the function that runs next, or how it ended
  config,   \* the configuration of the server or the game, as far as it is read
  state     \* the environments of a game, as far as they are read

vars == <<call, file, ndebug, pc, config, state>>

(* An assertion that does not hold. *)
Aborted == [failure |-> "aborted"]
assertion_fails(otherwise) == IF ndebug THEN otherwise ELSE Aborted

(* "exit": main returns 1.  "rejected": a rethrow where nothing was thrown, *)
(* which ends the program just as an exception that nobody catches does.   *)
Ended == {"listening", "parsed", "exit", "rejected", "thrown", "undefined", "aborted"}

Init ==
  /\ ndebug \in BOOLEAN
  /\ config = EmptyMap
  /\ state = EmptyMap
  /\ \/ /\ call = "load_config_from_json" /\ pc = "load_config_from_json"
        /\ file \in ConfigFiles
     \/ /\ call = "parseGameSpecification" /\ pc = "hasAllRequiredFields"
        /\ file \in GameFiles
     \/ /\ call = "parseRule" /\ pc = "parseRule"
        /\ file \in GameFiles

(* The function returns v for the variable, or fails as v says. *)
Continue(v, next) == pc' = IF Failed(v) THEN v.failure ELSE next

(***************************************************************************)
(* The configuration of the server                                         *)
(***************************************************************************)
(* arepa::Result: a value or an error, and unwrapping the wrong one throws. *)
Ok(v)    == [ok |-> TRUE, value |-> v]
Error(e) == [ok |-> FALSE, error |-> e]
is_ok(r) == r.ok
unwrap(r) == IF r.ok THEN r.value ELSE Thrown
error(r)  == IF r.ok THEN Thrown ELSE r.error

(* A file that cannot be read is an error, one with the wrong content an   *)
(* exception of parseServerConfig.                                         *)
load_config_from_json ==
  /\ pc = "load_config_from_json"
  /\ \/ /\ file \in {Unreadable, NotJson}
        /\ config' = Error(IF file = Unreadable THEN Name("errno") ELSE Name("invalid_json"))
        /\ pc' = "main"
     \/ file \notin {Unreadable, NotJson} /\ pc' = "parseServerConfig" /\ UNCHANGED config
  /\ UNCHANGED <<call, file, ndebug, state>>

(* A key that is missing is null, and null is not equal to NULL, which is  *)
(* the number 0: only a field that is 0 is found to be missing.            *)
isValidServerConfig(j) ==
  \A key \in {"port", "htmlpath", "games"} :
    ~(contains(j, key) /\ type(at(j, key)) \in Numbers /\ number(at(j, key)) = 0)

get_int(j) == CASE type(j) \in Numbers   -> Int_(wrap(number(j)))
                [] type(j) = "boolean" -> Int_(IF j.boolean THEN 1 ELSE 0)
                [] OTHER               -> Thrown
get_string(j) == IF type(j) = "string" THEN Name(j.string) ELSE Thrown

parseServerConfig ==
  LET field(key, get(_)) == IF contains(file, key) THEN get(at(file, key)) ELSE Thrown
      port == field("port", get_int)
      html == field("html", get_string)
      bad  == FirstFailure(<<port, html>>)
  IN  /\ pc = "parseServerConfig"
      /\ \/ ~isValidServerConfig(file) /\ pc' = "rejected" /\ UNCHANGED config
         \/ isValidServerConfig(file) /\ Failed(bad) /\ pc' = "thrown" /\ UNCHANGED config
         \/ /\ isValidServerConfig(file) /\ ~Failed(bad)
            /\ pc' = "main"
            /\ config' = Ok([port |-> port.int, htmlPath |-> html])
      /\ UNCHANGED <<call, file, ndebug, state>>

(* The port becomes an unsigned short. *)
bind_port_signed(n) == n % 2^(PortWidth - 1)
bind_port(n) == n % 2^PortWidth

(* Server's constructor starts the listener; an address that is taken ends *)
(* in a NetworkException that nobody catches.                              *)
start_listener == pc' \in {"listening", "thrown"}

main ==
  /\ pc = "main"
  /\ \/ ~is_ok(config) /\ Continue(error(config), "exit") /\ UNCHANGED config
     \/ /\ is_ok(config)
        /\ config' = [unwrap(config) EXCEPT !.port = bind_port(@)]
        /\ start_listener
  /\ UNCHANGED <<call, file, ndebug, state>>

(***************************************************************************)
(* isValidGameSpec                                                         *)
(***************************************************************************)
FIELDS == [k \in {"configuration", "constants", "variables", "per-player", "per-audience", "rules"} |->
             IF k = "configuration" THEN "object" ELSE "array"]
FIELDS_configuration == [name |-> "string", audience |-> "boolean", setup |-> "array",
                         player_count |-> "object"]
FIELDS_playerCount == [k \in {"min", "max"} |-> "number_integer"]

configuration(j) == at(j, "configuration")
playerCount(j)   == at(configuration(j), "player_count")

has_all(j, fields) == \A key \in DOMAIN fields : contains(j, key)

has_required(j) ==
  /\ has_all(j, FIELDS)
  /\ has_all(configuration(j), FIELDS_configuration)
  /\ has_all(playerCount(j), FIELDS_playerCount)

hasAllRequiredFields ==
  /\ pc = "hasAllRequiredFields"
  /\ pc' = IF has_required(file) THEN "hasNoExtraFields" ELSE "rejected"
  /\ UNCHANGED <<call, file, ndebug, config, state>>

(* The fields are counted, not compared. *)
none_extra_top_only(j) == size(j) = Cardinality(DOMAIN FIELDS)
none_extra(j) ==
  /\ size(j) = Cardinality(DOMAIN FIELDS)
  /\ size(configuration(j)) = Cardinality(DOMAIN FIELDS_configuration)
  /\ size(playerCount(j)) = Cardinality(DOMAIN FIELDS_playerCount)

hasNoExtraFields ==
  /\ pc = "hasNoExtraFields"
  /\ pc' = IF none_extra(file) THEN "validFieldValues" ELSE "rejected"
  /\ UNCHANGED <<call, file, ndebug, config, state>>

(* The first key that is no field, for which FIELDS.at() throws, or whose  *)
(* value has another type ends the loop.                                   *)
has_unknown(j, fields) == DOMAIN items(j) \ DOMAIN fields # {}
has_types(j, fields) ==
  \A key \in DOMAIN items(j) \cap DOMAIN fields : type(items(j)[key]) = fields[key]

validFieldValues ==
  LET levels == {<<file, FIELDS>>, <<configuration(file), FIELDS_configuration>>,
                 <<playerCount(file), FIELDS_playerCount>>}
      throws == \E l \in levels : has_unknown(l[1], l[2])
      wrong  == \E l \in levels : ~has_types(l[1], l[2])
  IN  /\ pc = "validFieldValues"
      /\ \/ throws /\ pc' = "thrown"
         \/ wrong /\ pc' = "rejected"
         \/ ~throws /\ ~wrong /\ pc' = "parseConfig"
      /\ UNCHANGED <<call, file, ndebug, config, state>>

(***************************************************************************)
(* parseConfig                                                             *)
(***************************************************************************)
KINDS == {"integer", "string", "boolean", "question-answer", "multiple-choice"}

(* The assertion is the wrong way round: a kind that is known fails it,    *)
(* and one that is not is read from behind the end of the table.           *)
parseDataKind(j) ==
  IF type(j) # "string" THEN Thrown
  ELSE IF j.string \in KINDS THEN assertion_fails(Name(j.string))
  ELSE Undefined

parseCustomSetup(j) ==
  LET field(key, get(_)) == IF contains(j, key) THEN get(at(j, key)) ELSE Thrown
      kind   == field("kind", parseDataKind)
      prompt == field("prompt", get_string)
      bad    == FirstFailure(<<kind, prompt>>)
  IN  IF Failed(bad) THEN bad ELSE [kind |-> kind, prompt |-> prompt]

parseSetupValue(j) ==
  CASE type(j) = "string"         -> get_string(j)
    [] type(j) = "number_integer" -> get_int(j)
    [] type(j) = "boolean"        -> Bool_(j.boolean)
    [] type(j) = "object"         -> parseCustomSetup(j)
    [] OTHER                      -> assertion_fails(Int_(0))

AnyFailure(f) == IF \E k \in DOMAIN f : Failed(f[k])
                 THEN f[CHOOSE k \in DOMAIN f : Failed(f[k])] ELSE NotFound

parseSetup(j) == [key \in DOMAIN items(j) |-> parseSetupValue(items(j)[key])]

parseConfig ==
  LET conf  == configuration(file)
      setup == parseSetup(at(conf, "setup"))
      count == [k \in {"min", "max"} |-> get_int(at(playerCount(file), k)).int]
  IN  /\ pc = "parseConfig"
      /\ Continue(AnyFailure(setup), "parseGameState")
      /\ config' = [name |-> at(conf, "name").string, count |-> count,
                    allowAudience |-> at(conf, "audience").boolean,
                    setup |-> IF Failed(AnyFailure(setup)) THEN EmptyMap ELSE setup]
      /\ UNCHANGED <<call, file, ndebug, state>>

(***************************************************************************)
(* parseGameState                                                          *)
(***************************************************************************)
in_order_reversed(s) == Reverse(s)
in_order(s) == s

(* From what the members of an object, or the elements of an array, were   *)
(* parsed to.                                                              *)
parseExpMap(parsed) ==
  IF Failed(AnyFailure(parsed)) THEN AnyFailure(parsed) ELSE Map_(parsed)

parseExpList(parsed) ==
  IF Failed(FirstFailure(parsed)) THEN FirstFailure(parsed) ELSE List_(in_order(parsed))

parseLiteral(j) ==
  CASE type(j) = "string"         -> get_string(j)
    [] type(j) = "number_integer" -> get_int(j)
    [] type(j) = "boolean"        -> Bool_(j.boolean)
    [] OTHER                      -> assertion_fails(Undefined)

parseExpression[j \in Json] ==
  CASE type(j) = "object" ->
         parseExpMap([key \in DOMAIN j.object |-> parseExpression[j.object[key]]])
    [] type(j) = "array" ->
         parseExpList([i \in DOMAIN j.array |-> parseExpression[j.array[i]]])
    [] OTHER -> parseLiteral(j)

(* The elements of the array of an environment become members of a map.    *)
parseEnvironment(j) ==
  parseExpMap([key \in DOMAIN items(j) |-> parseExpression[items(j)[key]]])

Environments == <<"constants", "variables", "per-player", "per-audience">>

(* The rules are not parsed: the call of ruleSelector is commented out. *)
parseGameState ==
  LET parsed == [i \in DOMAIN Environments |-> parseEnvironment(at(file, Environments[i]))]
      bad    == FirstFailure(parsed)
  IN  /\ pc = "parseGameState"
      /\ Continue(bad, "parsed")
      /\ state' = IF Failed(bad) THEN EmptyMap
                  ELSE [e \in Range(Environments) |->
                          parsed[CHOOSE i \in DOMAIN Environments : Environments[i] = e]]
      /\ UNCHANGED <<call, file, ndebug, config>>

(***************************************************************************)
(* parseRule, which nobody calls yet                                       *)
(***************************************************************************)
RULE_NAMES == {"foreach", "parallelfor", "global-message", "input-choice", "discard",
               "reverse", "inparallel", "extend", "add", "shuffle", "message", "sort",
               "deal", "scores", "input-text", "input-vote", "loop", "timer", "when", "switch"}

(* The bodies of the parsers of the rules are commented out: each of them  *)
(* flows off its end without a value.                                      *)
parseRuleNamed(ruleName) == Undefined

(* So does ruleSelector for a name that it does not know. *)
ruleSelector(ruleName) == IF ruleName \in RULE_NAMES THEN parseRuleNamed(ruleName) ELSE Undefined

parseRule ==
  LET rules      == at(file, "rules")
      name(r)    == IF contains(r, "rule") THEN get_string(at(r, "rule")) ELSE Thrown
      selected(r) == IF Failed(name(r)) THEN Thrown ELSE ruleSelector(name(r).str[1])
      parsed     == [i \in DOMAIN rules.array |-> selected(rules.array[i])]
      result     == IF ~IsObject(file) THEN Thrown
                    ELSE IF ~contains(file, "rules") THEN assertion_fails(Undefined)
                    ELSE IF type(rules) # "array" THEN Thrown
                    ELSE FirstFailure(parsed)
  IN  /\ pc = "parseRule"
      /\ Continue(result, "parsed")
      /\ config' = [rules |-> IF Failed(result) THEN <<>> ELSE parsed]
      /\ UNCHANGED <<call, file, ndebug, state>>

Done == pc \in Ended /\ UNCHANGED vars

Next == \/ load_config_from_json \/ parseServerConfig \/ main
        \/ hasAllRequiredFields \/ hasNoExtraFields \/ validFieldValues
        \/ parseConfig \/ parseGameState \/ parseRule \/ Done

Spec == Init /\ [][Next]_vars

-----------------------------------------------------------------------------
(***************************************************************************)
(* Properties                                                              *)
(***************************************************************************)
IsGame == call = "parseGameSpecification"

(* A server listens on the port of its file if that is a port at all, and  *)
(* has the page that its file names: what isValidServerConfig lets through *)
(* without either never gets past parseServerConfig.                       *)
ServesWhatIsConfigured ==
  pc = "listening" =>
    /\ contains(file, "port") /\ contains(file, "html")
    /\ config.port \in 0..2^PortWidth - 1
    /\ get_int(at(file, "port")).int \in 0..2^PortWidth - 1
         => get_int(at(file, "port")).int = config.port
    /\ get_string(at(file, "html")) = config.htmlPath

(* What isValidGameSpec stands for: each level has exactly the fields of   *)
(* its table, and each of them the type that the table gives.              *)
Conforms(j, fields) ==
  /\ IsObject(j) /\ DOMAIN j.object = DOMAIN fields
  /\ \A key \in DOMAIN fields : type(j.object[key]) = fields[key]

IsSpecification(j) ==
  /\ Conforms(j, FIELDS)
  /\ Conforms(configuration(j), FIELDS_configuration)
  /\ Conforms(playerCount(j), FIELDS_playerCount)

(* isValidGameSpec decides that by looking for fields, counting them and   *)
(* comparing types: a document goes on to parseConfig exactly if it        *)
(* conforms, whatever is missing, surplus or of another type in it.  Its   *)
(* earlier checks keep the later ones from looking up what is not there:   *)
(* FIELDS.at() never meets a key that is no field.                         *)
ValidationIsExact ==
  IsGame => /\ pc = "rejected" => ~IsSpecification(file)
            /\ pc \in {"parseConfig", "parseGameState", "parsed"} => IsSpecification(file)
            /\ pc = "thrown" => config # EmptyMap

(* What is in a value of a document, or of the parsed state.               *)
JsonParts(j)  == IF type(j) \in {"object", "array"} THEN items(j) ELSE EmptyMap
ValueParts(v) == IF IsMap(v) THEN v.map ELSE IF IsList(v) THEN indexed(v.list) ELSE EmptyMap

(* Where a path through it leads. *)
Follow(whole, parts(_), path) ==
  LET reached[k \in 0..Len(path)] ==
        IF k = 0 THEN whole
        ELSE IF path[k] \in DOMAIN parts(reached[k-1]) THEN parts(reached[k-1])[path[k]]
        ELSE NotFound
  IN  reached[Len(path)]

Means(v, j) == CASE type(j) = "string"         -> v = Name(j.string)
                 [] type(j) = "number_integer" -> IsInt(v) /\ (j.number_integer \in Ints =>
                                                               v.int = j.number_integer)
                 [] type(j) = "boolean"        -> v = Bool_(j.boolean)
                 [] type(j) = "array"          -> IsList(v) /\ Len(v.list) = Len(j.array)
                 [] type(j) = "object"         -> IsMap(v) /\ DOMAIN v.map = DOMAIN j.object
                 [] j = NotFound               -> v = NotFound
                 [] OTHER                      -> FALSE

(* A setup of one of the types that parseSetupValue knows. *)
SetupMeans(v, j) ==
  IF IsObject(j)
  THEN v = [kind |-> Name(at(j, "kind").string), prompt |-> Name(at(j, "prompt").string)]
  ELSE type(j) \in {"string", "number_integer", "boolean"} => Means(v, j)

SetupOf(j) == items(at(configuration(j), "setup"))

(* Every value of the environments of a document is at the same path of    *)
(* the parsed state, and nothing else is: no element of a list changes its *)
(* place on the way.  Every setup is in the parsed configuration, and has  *)
(* its value if it is of a type that parseSetupValue knows.                *)
ParsedFaithfully ==
  IsGame /\ pc = "parsed" =>
    /\ \A e \in Range(Environments) : \A path \in Paths :
         Means(Follow(state[e], ValueParts, path), Follow(at(file, e), JsonParts, path))
    /\ DOMAIN config.setup = DOMAIN SetupOf(file)
    /\ \A key \in DOMAIN SetupOf(file) : SetupMeans(config.setup[key], SetupOf(file)[key])
=============================================================================
