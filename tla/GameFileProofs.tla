--------------------------- MODULE GameFileProofs ---------------------------
(***************************************************************************)
(* Proofs about GameFile, for all documents: what the server is configured *)
(* with, that validation is exact, and that parsing keeps every value of a *)
(* document in its place.                                                  *)
(***************************************************************************)
EXTENDS GameFile, SequenceTheorems, FiniteSetTheorems, WellFoundedInduction, TLAPS

-----------------------------------------------------------------------------
(* JSON values. *)

\* A value with one field has the type of that field.
LEMMA TypeOfField ==
    ASSUME NEW j, NEW t, DOMAIN j = {t}
    PROVE  type(j) = t
BY DEF type

\* What is known of a JSON value from its type.
LEMMA JsonByType ==
    ASSUME NEW j \in Json
    PROVE  /\ DOMAIN j = {type(j)}
           /\ type(j) \in {"object", "array", "string", "boolean", "null"} \cup Numbers
           /\ type(j) = "object" =>
                /\ IsFiniteSet(DOMAIN j.object)
                /\ \A key \in DOMAIN j.object : IsInside(j.object[key], j)
           /\ type(j) = "array" =>
                /\ j.array \in Seq(Range(j.array))
                /\ \A i \in DOMAIN j.array : IsInside(j.array[i], j)
                /\ \A i, k \in DOMAIN j.array : IndexName(i - 1) = IndexName(k - 1) => i = k
           /\ type(j) = "boolean" => j.boolean \in BOOLEAN
           /\ type(j) \in Numbers => number(j) \in Int
<1>0. IsJson(j)
  BY GameFileAssumption
<1>1. CASE DOMAIN j = {"object"} /\ IsFiniteSet(DOMAIN j.object)
           /\ \A key \in DOMAIN j.object : IsInside(j.object[key], j)
  <2>1. type(j) = "object"
    BY <1>1, TypeOfField
  <2>. QED  BY <1>1, <2>1 DEF Numbers
<1>2. CASE /\ DOMAIN j = {"array"} /\ j.array \in Seq(Range(j.array))
           /\ \A i \in DOMAIN j.array : IsInside(j.array[i], j)
           /\ \A i, k \in DOMAIN j.array : IndexName(i - 1) = IndexName(k - 1) => i = k
  <2>1. type(j) = "array"
    BY <1>2, TypeOfField
  <2>. QED  BY <1>2, <2>1, Zenon DEF Numbers
<1>3. CASE DOMAIN j = {"string"}
  <2>1. type(j) = "string"
    BY <1>3, TypeOfField
  <2>. QED  BY <1>3, <2>1 DEF Numbers
<1>4. CASE DOMAIN j = {"boolean"} /\ j.boolean \in BOOLEAN
  <2>1. type(j) = "boolean"
    BY <1>4, TypeOfField
  <2>. QED  BY <1>4, <2>1 DEF Numbers
<1>5. CASE DOMAIN j = {"null"}
  <2>1. type(j) = "null"
    BY <1>5, TypeOfField
  <2>. QED  BY <1>5, <2>1 DEF Numbers
<1>6. CASE \E t \in Numbers : DOMAIN j = {t} /\ j[t] \in Int
  <2>1. PICK t \in Numbers : DOMAIN j = {t} /\ j[t] \in Int
    BY <1>6
  <2>2. type(j) = t
    BY <2>1, TypeOfField
  <2>. QED  BY <2>1, <2>2 DEF Numbers, number
<1>. QED  BY <1>0, <1>1, <1>2, <1>3, <1>4, <1>5, <1>6 DEF IsJson

\* The members of an object and of an array are JSON values again.
LEMMA PartOfObject ==
    ASSUME NEW j \in Json, NEW key, contains(j, key)
    PROVE  at(j, key) \in Json /\ Depth(at(j, key)) < Depth(j)
BY JsonByType DEF contains, at, IsObject, IsInside

-----------------------------------------------------------------------------
(* The server's configuration. *)

\* An int is an integer, and what fits an unsigned short stays what it is.
LEMMA PortFits ==
    ASSUME NEW n \in Int
    PROVE  /\ wrap(n) \in Int
           /\ bind_port(n) \in 0..2^PortWidth - 1
           /\ n \in 0..2^PortWidth - 1 => bind_port(n) = n
<1> DEFINE half == 2^(IntWidth - 1)
           ports == 2^PortWidth
<1>1. half \in Nat \ {0} /\ ports \in Nat \ {0}
  BY PowersAreNumbers
<1> HIDE DEF half, ports
<1>2. ((n + half) % (2 * half)) - half \in Int
  BY <1>1
<1>3. n % ports \in 0..ports - 1 /\ (n \in 0..ports - 1 => n % ports = n)
  BY <1>1
<1>. QED  BY <1>2, <1>3 DEF wrap, bind_port, half, ports

\* get<int> of a JSON value: an int, or an exception.
LEMMA GetInt ==
    ASSUME NEW j \in Json
    PROVE  get_int(j) = Thrown \/ (~Failed(get_int(j)) /\ get_int(j).int \in Int)
<1>1. CASE type(j) \in Numbers
  <2>1. wrap(number(j)) \in Int
    BY <1>1, JsonByType, PortFits
  <2>2. type(j) # "boolean"
    BY <1>1 DEF Numbers
  <2>3. get_int(j) = Int_(wrap(number(j)))
    BY <1>1, <2>2 DEF get_int
  <2>. QED  BY <2>1, <2>3 DEF Int_, Failed
<1>2. CASE type(j) = "boolean"
  <2>1. type(j) \notin Numbers
    BY <1>2 DEF Numbers
  <2>2. get_int(j) = Int_(IF j.boolean THEN 1 ELSE 0)
    BY <1>2, <2>1 DEF get_int
  <2>. QED  BY <2>2 DEF Int_, Failed
<1>3. CASE type(j) \notin Numbers /\ type(j) # "boolean"
  BY <1>3 DEF get_int
<1>. QED  BY <1>1, <1>2, <1>3

-----------------------------------------------------------------------------
(* Failures. *)

\* A set of natural numbers has a least one.
LEMMA LeastNumber ==
    ASSUME NEW T \in SUBSET Nat, T # {}
    PROVE  \E n \in T : \A m \in T : n <= m
<1> DEFINE R == {ss \in Nat \X Nat : ss[1] < ss[2]}
<1>1. IsWellFoundedOn(R, Nat)
  BY NatLessThanWellFounded DEF OpToRel
<1> HIDE DEF R
<1>2. PICK n \in T : \A m \in T : ~(<<m, n>> \in R)
  BY <1>1, WFMin
<1>3. \A m \in T : ~(m < n)
  BY <1>2 DEF R
<1>. QED  BY <1>3

\* FirstFailure is one of the failures, if there is one.
LEMMA FirstFailureOf ==
    ASSUME NEW S, NEW s \in Seq(S)
    PROVE  /\ Failed(FirstFailure(s)) =>
                \E i \in 1..Len(s) : Failed(s[i]) /\ FirstFailure(s) = s[i]
           /\ (\E i \in 1..Len(s) : Failed(s[i])) => Failed(FirstFailure(s))
<1> DEFINE I == {i \in 1..Len(s) : Failed(s[i])}
           first == SelectInSeq(s, Failed)
<1>0. Len(s) \in Nat
  BY LenProperties
<1>1. first = IF I # {} THEN Min(I) ELSE 0
  BY DEF SelectInSeq
<1>2. CASE I = {}
  <2>1. first = 0
    BY <1>1, <1>2
  <2>2. FirstFailure(s) = NotFound
    BY <2>1 DEF FirstFailure
  <2>. QED  BY <1>2, <2>2 DEF NotFound, Failed
<1>3. CASE I # {}
  <2>0. I \subseteq Nat
    BY <1>0
  <2>1. \E n \in I : \A m \in I : n <= m
    <3> HIDE DEF I
    <3>. QED  BY <1>3, <2>0, LeastNumber
  <2>2. Min(I) \in I
    BY <2>1 DEF Min
  <2>3. first \in 1..Len(s) /\ Failed(s[first])
    BY <1>1, <1>3, <2>2
  <2>4. first # 0
    BY <1>0, <2>3
  <2>5. FirstFailure(s) = s[first]
    BY <2>4 DEF FirstFailure
  <2>. QED  BY <2>3, <2>5
<1>. QED  BY <1>2, <1>3

\* AnyFailure is one of the failures, if there is one.
LEMMA AnyFailureOf ==
    ASSUME NEW f
    PROVE  /\ Failed(AnyFailure(f)) =>
                \E k \in DOMAIN f : Failed(f[k]) /\ AnyFailure(f) = f[k]
           /\ (\E k \in DOMAIN f : Failed(f[k])) => Failed(AnyFailure(f))
<1>1. CASE \E k \in DOMAIN f : Failed(f[k])
  <2> DEFINE c == CHOOSE k \in DOMAIN f : Failed(f[k])
  <2>1. c \in DOMAIN f /\ Failed(f[c])
    BY <1>1
  <2>2. AnyFailure(f) = f[c]
    BY <1>1 DEF AnyFailure
  <2>. QED  BY <2>1, <2>2
<1>2. CASE ~ \E k \in DOMAIN f : Failed(f[k])
  <2>1. AnyFailure(f) = NotFound
    BY <1>2 DEF AnyFailure
  <2>. QED  BY <1>2, <2>1 DEF NotFound, Failed
<1>. QED  BY <1>1, <1>2

-----------------------------------------------------------------------------
(* The recursion over a document has a solution: values are finite trees. *)

\* What parseExpression does with a value, given what it does with the values
\* inside.
ParseStep(f, j) ==
    CASE type(j) = "object" -> parseExpMap([key \in DOMAIN j.object |-> f[j.object[key]]])
      [] type(j) = "array"  -> parseExpList([i \in DOMAIN j.array |-> f[j.array[i]]])
      [] OTHER              -> parseLiteral(j)

Below(n) == {j \in Json : Depth(j) < n}
Solves(f, n) == f = [j \in Below(n) |-> ParseStep(f, j)]

\* The elements of an array under their names.
LEMMA Indexed ==
    ASSUME NEW s, NEW i \in DOMAIN s,
           \A h, k \in DOMAIN s : IndexName(h - 1) = IndexName(k - 1) => h = k
    PROVE  IndexName(i - 1) \in DOMAIN indexed(s) /\ indexed(s)[IndexName(i - 1)] = s[i]
<1> DEFINE k == IndexName(i - 1)
           c == CHOOSE h \in DOMAIN s : IndexName(h - 1) = k
<1>1. c \in DOMAIN s /\ IndexName(c - 1) = k
  <2>1. \E h \in DOMAIN s : IndexName(h - 1) = k
    OBVIOUS
  <2>. QED  BY <2>1, Zenon
<1>2. c = i
  BY <1>1
<1>3. k \in {IndexName(h - 1) : h \in DOMAIN s}
  OBVIOUS
<1>. QED  BY <1>2, <1>3 DEF indexed

\* What is in an object or an array lies deeper.
LEMMA ItemsInside ==
    ASSUME NEW j \in Json, type(j) \in {"object", "array"}, NEW key \in DOMAIN items(j)
    PROVE  IsInside(items(j)[key], j)
<1>1. CASE type(j) = "object"
  BY <1>1, JsonByType DEF items
<1>2. CASE type(j) = "array"
  <2>1. items(j) = indexed(j.array)
    BY <1>2 DEF items
  <2>2. PICK i \in DOMAIN j.array : key = IndexName(i - 1)
    BY <2>1 DEF indexed
  <2>3. \A h, k \in DOMAIN j.array : IndexName(h - 1) = IndexName(k - 1) => h = k
    BY <1>2, JsonByType, Zenon
  <2>4. indexed(j.array)[IndexName(i - 1)] = j.array[i]
    BY <2>3, Indexed, Zenon
  <2>5. items(j)[key] = j.array[i]
    BY <2>1, <2>2, <2>4, Zenon
  <2>. QED  BY <1>2, <2>2, <2>5, JsonByType
<1>. QED  BY <1>1, <1>2

\* Only what is inside matters.
LEMMA StepLooksInside ==
    ASSUME NEW f, NEW g, NEW j \in Json,
           \A part \in Json : Depth(part) < Depth(j) => f[part] = g[part]
    PROVE  ParseStep(f, j) = ParseStep(g, j)
<1>1. CASE type(j) = "object"
  <2>1. \A key \in DOMAIN j.object : f[j.object[key]] = g[j.object[key]]
    BY <1>1, JsonByType DEF IsInside
  <2>2. [key \in DOMAIN j.object |-> f[j.object[key]]]
          = [key \in DOMAIN j.object |-> g[j.object[key]]]
    BY <2>1
  <2>3. \A h : ParseStep(h, j) = parseExpMap([key \in DOMAIN j.object |-> h[j.object[key]]])
    BY <1>1 DEF ParseStep
  <2>. QED  BY <2>2, <2>3
<1>2. CASE type(j) = "array"
  <2>1. \A i \in DOMAIN j.array : f[j.array[i]] = g[j.array[i]]
    BY <1>2, JsonByType DEF IsInside
  <2>2. [i \in DOMAIN j.array |-> f[j.array[i]]] = [i \in DOMAIN j.array |-> g[j.array[i]]]
    BY <2>1
  <2>3. \A h : ParseStep(h, j) = parseExpList([i \in DOMAIN j.array |-> h[j.array[i]]])
    BY <1>2 DEF ParseStep
  <2>. QED  BY <2>2, <2>3
<1>3. CASE type(j) \notin {"object", "array"}
  BY <1>3 DEF ParseStep
<1>. QED  BY <1>1, <1>2, <1>3

\* Of the values that something is wrong with, one has nothing wrong inside.
LEMMA Shallowest ==
    ASSUME NEW Bad \in SUBSET Json, Bad # {}
    PROVE  \E x \in Bad : \A part \in Json : Depth(part) < Depth(x) => part \notin Bad
<1> DEFINE T == {Depth(x) : x \in Bad}
<1>1. T \in SUBSET Nat /\ T # {}
  BY GameFileAssumption
<1>2. PICK d \in T : \A k \in T : d <= k
  BY <1>1, LeastNumber
<1>3. PICK x \in Bad : d = Depth(x)
  BY <1>2
<1>4. ASSUME NEW part \in Json, Depth(part) < Depth(x) PROVE part \notin Bad
  <2>1. part \in Bad => d <= Depth(part)
    BY <1>2
  <2>2. Depth(part) \in Nat /\ Depth(x) \in Nat
    BY <1>3, GameFileAssumption
  <2>. QED  BY <1>3, <1>4, <2>1, <2>2
<1>. QED  BY <1>4

\* There is a solution for values up to any depth.
LEMMA SolutionExists ==
    ASSUME NEW n \in Nat
    PROVE  \E f : Solves(f, n)
<1> DEFINE T == {m \in Nat : ~ \E f : Solves(f, m)}
<1>1. SUFFICES ASSUME T # {} PROVE FALSE
  OBVIOUS
<1>2. PICK m \in T : \A k \in T : m <= k
  BY <1>1, LeastNumber
<1>3. m # 0
  <2> DEFINE f == [j \in Below(0) |-> ParseStep(EmptyMap, j)]
  <2>1. Below(0) = {}
    BY GameFileAssumption DEF Below
  <2>2. f = [j \in Below(0) |-> ParseStep(f, j)]
    BY <2>1
  <2>3. Solves(f, 0)
    BY <2>2, Zenon DEF Solves
  <2>. QED  BY <1>2, <2>3
<1>4. m - 1 \in Nat /\ m - 1 \notin T
  BY <1>2, <1>3
<1>5. PICK f : Solves(f, m - 1)
  BY <1>4
<1> DEFINE g == [j \in Below(m) |-> ParseStep(f, j)]
<1>6. \A j \in Below(m - 1) : j \in Below(m) /\ g[j] = f[j]
  <2>1. Below(m - 1) \subseteq Below(m)
    BY <1>2, GameFileAssumption DEF Below
  <2>2. \A j \in Below(m - 1) : f[j] = ParseStep(f, j)
    BY <1>5, Zenon DEF Solves
  <2>. QED  BY <2>1, <2>2
<1>7. \A j \in Below(m) : ParseStep(f, j) = ParseStep(g, j)
  <2>1. SUFFICES ASSUME NEW j \in Below(m)
                 PROVE  ParseStep(f, j) = ParseStep(g, j)
    OBVIOUS
  <2>2. ASSUME NEW part \in Json, Depth(part) < Depth(j) PROVE f[part] = g[part]
    <3>1. part \in Below(m - 1)
      BY <1>2, <2>1, <2>2, GameFileAssumption DEF Below
    <3>. QED  BY <1>6, <3>1
  <2>3. j \in Json
    BY DEF Below
  <2> HIDE DEF g
  <2>. QED  BY <2>2, <2>3, StepLooksInside
<1>8. g = [j \in Below(m) |-> ParseStep(g, j)]
  BY <1>7
<1>9. Solves(g, m)
  BY <1>8, Zenon DEF Solves
<1>. QED  BY <1>2, <1>9

\* And only one.
LEMMA SolutionUnique ==
    ASSUME NEW n \in Nat, NEW m \in Nat, NEW f, NEW g,
           Solves(f, n), Solves(g, m),
           NEW j \in Below(n), j \in Below(m)
    PROVE  f[j] = g[j]
<1> DEFINE Bad == {x \in Below(n) \cap Below(m) : f[x] # g[x]}
<1>1. SUFFICES ASSUME Bad # {} PROVE FALSE
  OBVIOUS
<1>2. Bad \in SUBSET Json
  BY DEF Below
<1>3. PICK x \in Bad : \A part \in Json : Depth(part) < Depth(x) => part \notin Bad
  <2> HIDE DEF Bad
  <2>. QED  BY <1>1, <1>2, Shallowest
<1>5. x \in Json /\ x \in Below(n) /\ x \in Below(m) /\ f[x] # g[x]
  BY DEF Below
<1>6. ASSUME NEW part \in Json, Depth(part) < Depth(x) PROVE f[part] = g[part]
  <2>1. part \in Below(n) /\ part \in Below(m)
    BY <1>5, <1>6, GameFileAssumption DEF Below
  <2>2. part \notin Bad
    BY <1>3, <1>6
  <2>. QED  BY <2>1, <2>2
<1>7. ParseStep(f, x) = ParseStep(g, x)
  BY <1>5, <1>6, StepLooksInside
<1>8. f[x] = ParseStep(f, x) /\ g[x] = ParseStep(g, x)
  BY <1>5, Zenon DEF Solves
<1>. QED  BY <1>5, <1>7, <1>8

\* So the recursion has a solution on all of Json.
LEMMA RecursionSolved ==
    \E f : f = [j \in Json |-> ParseStep(f, j)]
<1> DEFINE part(n) == CHOOSE f : Solves(f, n)
           f == [j \in Json |-> part(Depth(j) + 1)[j]]
<1>1. \A n \in Nat : Solves(part(n), n)
  BY SolutionExists, Zenon
<1>2. \A j \in Json : Depth(j) + 1 \in Nat /\ j \in Below(Depth(j) + 1)
  BY GameFileAssumption DEF Below
<1> HIDE DEF part
<1>3. ASSUME NEW j \in Json PROVE f[j] = ParseStep(f, j)
  <2> DEFINE p == part(Depth(j) + 1)
  <2>1. Solves(p, Depth(j) + 1)
    BY <1>1, <1>2
  <2>2. p[j] = ParseStep(p, j)
    BY <1>2, <2>1, Zenon DEF Solves
  <2>3. ASSUME NEW x \in Json, Depth(x) < Depth(j) PROVE p[x] = f[x]
    <3>1. x \in Below(Depth(j) + 1)
      BY <2>3, GameFileAssumption DEF Below
    <3>2. Solves(part(Depth(x) + 1), Depth(x) + 1)
      BY <1>1, <1>2
    <3>3. p[x] = part(Depth(x) + 1)[x]
      <4> HIDE DEF p
      <4>. QED  BY <1>2, <2>1, <3>1, <3>2, SolutionUnique
    <3>. QED  BY <3>3
  <2>4. ParseStep(p, j) = ParseStep(f, j)
    <3> HIDE DEF p, f
    <3>. QED  BY <2>3, StepLooksInside
  <2>5. f[j] = p[j]
    OBVIOUS
  <2>. QED  BY <2>2, <2>4, <2>5
<1>4. f = [j \in Json |-> f[j]]
  OBVIOUS
<1>5. f = [j \in Json |-> ParseStep(f, j)]
  <2> HIDE DEF f
  <2>. QED  BY <1>3, <1>4
<1>. QED  BY <1>5

\* parseExpression is such a solution.
LEMMA ParseUnfolds ==
    ASSUME NEW j \in Json
    PROVE  parseExpression[j] = ParseStep(parseExpression, j)
<1>1. \E f : f = [x \in Json |-> ParseStep(f, x)]
  BY RecursionSolved
<1>2. parseExpression = CHOOSE f : f = [x \in Json |-> ParseStep(f, x)]
  BY Zenon DEF parseExpression, ParseStep
<1>3. parseExpression = [x \in Json |-> ParseStep(parseExpression, x)]
  BY <1>1, <1>2, Zenon
<1>. QED  BY <1>3, Zenon

-----------------------------------------------------------------------------
(* What parsing a value gives. *)

\* The ways in which a parser fails.
Failures == {Thrown, Undefined, Aborted}
Orderly(v) == Failed(v) => v \in Failures

\* A string, a negative number and a boolean are parsed; anything else fails.
LEMMA LiteralResult ==
    ASSUME NEW j \in Json
    PROVE  /\ Orderly(parseLiteral(j))
           /\ ~Failed(parseLiteral(j)) <=> type(j) \in {"string", "number_integer", "boolean"}
           /\ type(j) = "string" => parseLiteral(j) = Name(j.string)
           /\ type(j) = "number_integer" => parseLiteral(j) = Int_(wrap(j.number_integer))
           /\ type(j) = "boolean" => parseLiteral(j) = Bool_(j.boolean)
<1>1. CASE type(j) = "string"
  <2>1. parseLiteral(j) = Name(j.string)
    BY <1>1 DEF parseLiteral, get_string
  <2>. QED  BY <1>1, <2>1 DEF Orderly, Failed, Name, Str_
<1>2. CASE type(j) = "number_integer"
  <2>1. type(j) \in Numbers /\ type(j) # "boolean" /\ number(j) = j.number_integer
    BY <1>2 DEF Numbers, number
  <2>2. get_int(j) = Int_(wrap(j.number_integer))
    BY <2>1 DEF get_int
  <2>3. parseLiteral(j) = Int_(wrap(j.number_integer))
    BY <1>2, <2>2 DEF parseLiteral
  <2>. QED  BY <1>2, <2>3 DEF Orderly, Failed, Int_
<1>3. CASE type(j) = "boolean"
  <2>1. parseLiteral(j) = Bool_(j.boolean)
    BY <1>3 DEF parseLiteral
  <2>. QED  BY <1>3, <2>1 DEF Orderly, Failed, Bool_
<1>4. CASE type(j) \notin {"string", "number_integer", "boolean"}
  <2>1. parseLiteral(j) = assertion_fails(Undefined)
    BY <1>4 DEF parseLiteral
  <2>2. assertion_fails(Undefined) \in {Undefined, Aborted}
    BY DEF assertion_fails
  <2>3. Failed(Undefined) /\ Failed(Aborted)
    BY DEF Failed, Undefined, Aborted
  <2>. QED  BY <1>4, <2>1, <2>2, <2>3 DEF Orderly, Failures
<1>. QED  BY <1>1, <1>2, <1>3, <1>4

\* A map of parsed values fails exactly if one of them does.
LEMMA MapResult ==
    ASSUME NEW f, \A k \in DOMAIN f : Orderly(f[k])
    PROVE  /\ Orderly(parseExpMap(f))
           /\ ~Failed(parseExpMap(f)) <=> \A k \in DOMAIN f : ~Failed(f[k])
           /\ ~Failed(parseExpMap(f)) => parseExpMap(f) = Map_(f)
<1>1. CASE Failed(AnyFailure(f))
  BY <1>1, AnyFailureOf DEF parseExpMap, Orderly
<1>2. CASE ~Failed(AnyFailure(f))
  <2>1. parseExpMap(f) = Map_(f)
    BY <1>2 DEF parseExpMap
  <2>2. ~Failed(Map_(f))
    BY DEF Failed, Map_
  <2>. QED  BY <1>2, <2>1, <2>2, AnyFailureOf DEF Orderly
<1>. QED  BY <1>1, <1>2

\* And so does a list of them.
LEMMA ListResult ==
    ASSUME NEW S, NEW s \in Seq(S), \A i \in 1..Len(s) : Orderly(s[i])
    PROVE  /\ Orderly(parseExpList(s))
           /\ ~Failed(parseExpList(s)) <=> \A i \in 1..Len(s) : ~Failed(s[i])
           /\ ~Failed(parseExpList(s)) => parseExpList(s) = List_(s)
<1>1. CASE Failed(FirstFailure(s))
  BY <1>1, FirstFailureOf DEF parseExpList, Orderly
<1>2. CASE ~Failed(FirstFailure(s))
  <2>1. parseExpList(s) = List_(s)
    BY <1>2 DEF parseExpList, in_order
  <2>2. ~Failed(List_(s))
    BY DEF Failed, List_
  <2>. QED  BY <1>2, <2>1, <2>2, FirstFailureOf DEF Orderly
<1>. QED  BY <1>1, <1>2

\* The elements of an array, one for one.
LEMMA InOrder ==
    ASSUME NEW j \in Json, type(j) = "array", NEW f
    PROVE  LET s == [i \in DOMAIN j.array |-> f[j.array[i]]]
           IN  /\ s \in Seq(Range(s)) /\ Len(s) = Len(j.array)
               /\ DOMAIN s = 1..Len(j.array) /\ DOMAIN j.array = 1..Len(j.array)
               /\ \A i \in 1..Len(j.array) : s[i] = f[j.array[i]]
<1> DEFINE s == [i \in DOMAIN j.array |-> f[j.array[i]]]
           n == Len(j.array)
<1>1. j.array \in Seq(Range(j.array))
  BY JsonByType
<1>2. n \in Nat /\ DOMAIN j.array = 1..n
  BY <1>1, LenProperties
<1> HIDE DEF n
<1>3. s = [i \in 1..n |-> f[j.array[i]]]
  BY <1>2
<1>4. DOMAIN s = 1..n /\ \A i \in 1..n : s[i] = f[j.array[i]] /\ s[i] \in Range(s)
  BY <1>3 DEF Range
<1>5. s \in [1..n -> Range(s)]
  BY <1>3, <1>4
<1> HIDE DEF s
<1>6. s \in Seq(Range(s))
  BY <1>2, <1>5, SeqDef
<1>7. Len(s) = n
  BY <1>2, <1>4, <1>6, LenProperties
<1>. QED  BY <1>2, <1>4, <1>6, <1>7 DEF s, n

\* The items of an array are its elements.
LEMMA ArrayItems ==
    ASSUME NEW j \in Json, type(j) = "array"
    PROVE  /\ Range(items(j)) = {j.array[i] : i \in DOMAIN j.array}
           /\ DOMAIN items(j) = {IndexName(i - 1) : i \in DOMAIN j.array}
           /\ \A i \in DOMAIN j.array : items(j)[IndexName(i - 1)] = j.array[i]
<1>1. items(j) = indexed(j.array)
  BY DEF items
<1>2. DOMAIN items(j) = {IndexName(i - 1) : i \in DOMAIN j.array}
  BY <1>1 DEF indexed
<1>3. \A h, k \in DOMAIN j.array : IndexName(h - 1) = IndexName(k - 1) => h = k
  BY JsonByType, Zenon
<1>4. \A i \in DOMAIN j.array : items(j)[IndexName(i - 1)] = j.array[i]
  BY <1>1, <1>3, Indexed, Zenon
<1>5. Range(items(j)) = {items(j)[key] : key \in {IndexName(i - 1) : i \in DOMAIN j.array}}
  BY <1>2 DEF Range
<1>6. {items(j)[key] : key \in {IndexName(i - 1) : i \in DOMAIN j.array}}
        = {j.array[i] : i \in DOMAIN j.array}
  BY <1>4
<1>. QED  BY <1>2, <1>4, <1>5, <1>6

\* A value is parsed, or fails in one of these ways, however deep it is nested.
LEMMA ParseResult ==
    ASSUME NEW j \in Json
    PROVE  Orderly(parseExpression[j])
<1> DEFINE Right(x) == Orderly(parseExpression[x])
           Bad == {x \in Json : ~Right(x)}
<1>1. SUFFICES ASSUME Bad # {} PROVE FALSE
  OBVIOUS
<1>2. PICK x \in Bad : \A part \in Json : Depth(part) < Depth(x) => part \notin Bad
  <2>1. Bad \in SUBSET Json
    OBVIOUS
  <2> HIDE DEF Bad
  <2>. QED  BY <1>1, <2>1, Shallowest
<1>3. x \in Json /\ ~Right(x)
  OBVIOUS
<1>4. \A part \in Json : Depth(part) < Depth(x) => Right(part)
  BY <1>2
<1> HIDE DEF Bad, Right
<1>5. parseExpression[x] = ParseStep(parseExpression, x)
  BY <1>3, ParseUnfolds
<1>6. CASE type(x) = "object"
  <2> DEFINE f == [key \in DOMAIN x.object |-> parseExpression[x.object[key]]]
  <2>1. parseExpression[x] = parseExpMap(f)
    BY <1>5, <1>6, Zenon DEF ParseStep
  <2>2. \A key \in DOMAIN x.object : Right(x.object[key])
    BY <1>3, <1>4, <1>6, JsonByType DEF IsInside
  <2>3. DOMAIN f = DOMAIN x.object /\ \A key \in DOMAIN f : f[key] = parseExpression[x.object[key]]
    OBVIOUS
  <2> HIDE DEF f
  <2>4. \A key \in DOMAIN f : Orderly(f[key])
    BY <2>2, <2>3 DEF Right
  <2>. QED  BY <1>3, <2>1, <2>4, MapResult DEF Right
<1>7. CASE type(x) = "array"
  <2> DEFINE s == [i \in DOMAIN x.array |-> parseExpression[x.array[i]]]
             n == Len(x.array)
  <2>1. parseExpression[x] = parseExpList(s)
    BY <1>5, <1>7, Zenon DEF ParseStep
  <2>2. /\ s \in Seq(Range(s)) /\ Len(s) = n /\ DOMAIN x.array = 1..n
        /\ \A i \in 1..n : s[i] = parseExpression[x.array[i]]
    BY <1>3, <1>7, InOrder
  <2>3. \A i \in 1..n : Right(x.array[i])
    BY <1>3, <1>4, <1>7, <2>2, JsonByType DEF IsInside
  <2> HIDE DEF s, n
  <2>4. \A i \in 1..n : Orderly(s[i])
    BY <2>2, <2>3 DEF Right
  <2>5. Orderly(parseExpList(s))
    BY <2>2, <2>4, ListResult
  <2>. QED  BY <1>3, <2>1, <2>5 DEF Right
<1>8. CASE type(x) \notin {"object", "array"}
  <2>1. parseExpression[x] = parseLiteral(x)
    BY <1>5, <1>8 DEF ParseStep
  <2>. QED  BY <1>3, <1>8, <2>1, LiteralResult DEF Right
<1>. QED  BY <1>6, <1>7, <1>8

-----------------------------------------------------------------------------
(* Where a path leads. *)

\* An int keeps a number that it can hold.
LEMMA WrapFits ==
    ASSUME NEW n \in Int
    PROVE  wrap(n) \in Int /\ (n \in Ints => wrap(n) = n)
<1> DEFINE half == 2^(IntWidth - 1)
<1>1. half \in Nat \ {0}
  BY PowersAreNumbers
<1> HIDE DEF half
<1>2. ((n + half) % (2 * half)) - half \in Int
  BY <1>1
<1>3. n \in -half..half - 1 => ((n + half) % (2 * half)) - half = n
  <2> SUFFICES ASSUME n \in -half..half - 1 PROVE ((n + half) % (2 * half)) - half = n
    OBVIOUS
  <2>1. n + half \in 0..2 * half - 1
    BY <1>1
  <2>2. (n + half) % (2 * half) = n + half
    BY <1>1, <2>1
  <2>. QED  BY <1>1, <2>2
<1>. QED  BY <1>2, <1>3 DEF wrap, Ints, half

\* A document's value is no missing one.
LEMMA NotMissing ==
    ASSUME NEW j \in Json
    PROVE  j # NotFound
<1>1. type(j) # "missing" /\ DOMAIN j = {type(j)}
  BY JsonByType DEF Numbers
<1>. QED  BY <1>1 DEF NotFound

\* A literal that is parsed means what is written.
LEMMA LiteralMeans ==
    ASSUME NEW j \in Json, type(j) \in {"string", "number_integer", "boolean"}, NEW v,
           v = parseLiteral(j)
    PROVE  ~IsMap(v) /\ ~IsList(v) /\ Means(v, j)
<1>0. j # NotFound
  BY NotMissing
<1>1. CASE type(j) = "string"
  <2>1. v = Name(j.string)
    BY <1>1, LiteralResult
  <2>. QED  BY <1>0, <1>1, <2>1 DEF Means, IsMap, IsList, Name, Str_
<1>2. CASE type(j) = "number_integer"
  <2>1. v = Int_(wrap(j.number_integer))
    BY <1>2, LiteralResult
  <2>2. j.number_integer \in Int
    BY <1>2, JsonByType DEF Numbers, number
  <2>3. j.number_integer \in Ints => wrap(j.number_integer) = j.number_integer
    BY <2>2, WrapFits
  <2>4. IsInt(v) /\ v.int = wrap(j.number_integer) /\ ~IsMap(v) /\ ~IsList(v)
    BY <2>1 DEF IsInt, IsMap, IsList, Int_
  <2>. QED  BY <1>0, <1>2, <2>3, <2>4 DEF Means
<1>3. CASE type(j) = "boolean"
  <2>1. v = Bool_(j.boolean)
    BY <1>3, LiteralResult
  <2>2. ~IsMap(v) /\ ~IsList(v)
    BY <2>1 DEF IsMap, IsList, Bool_
  <2>. QED  BY <1>0, <1>3, <2>1, <2>2 DEF Means
<1>. QED  BY <1>1, <1>2, <1>3

\* v is what j was parsed to.
ParsedTo(v, j) == j \in Json /\ v = parseExpression[j] /\ ~Failed(v)

\* A value that was parsed means what the document says, and what is in it was
\* parsed from what is in the document under the same name.
LEMMA ParsedParts ==
    ASSUME NEW v, NEW j, ParsedTo(v, j)
    PROVE  /\ Means(v, j)
           /\ DOMAIN ValueParts(v) = DOMAIN JsonParts(j)
           /\ \A key \in DOMAIN JsonParts(j) : ParsedTo(ValueParts(v)[key], JsonParts(j)[key])
<1>0. j \in Json /\ v = parseExpression[j] /\ ~Failed(v)
  BY DEF ParsedTo
<1>1. v = ParseStep(parseExpression, j)
  BY <1>0, ParseUnfolds
<1>2. j # NotFound
  BY <1>0, NotMissing
<1>3. CASE type(j) = "object"
  <2> DEFINE f == [key \in DOMAIN j.object |-> parseExpression[j.object[key]]]
  <2>1. v = parseExpMap(f)
    BY <1>1, <1>3, Zenon DEF ParseStep
  <2>2. \A key \in DOMAIN j.object : j.object[key] \in Json
    BY <1>0, <1>3, JsonByType DEF IsInside
  <2>3. DOMAIN f = DOMAIN j.object /\ \A key \in DOMAIN f : f[key] = parseExpression[j.object[key]]
    OBVIOUS
  <2> HIDE DEF f
  <2>4. \A key \in DOMAIN f : Orderly(f[key])
    BY <2>2, <2>3, ParseResult
  <2>5. v = Map_(f) /\ \A key \in DOMAIN f : ~Failed(f[key])
    BY <1>0, <2>1, <2>4, MapResult
  <2>6. IsMap(v) /\ v.map = f
    BY <2>5 DEF IsMap, Map_
  <2>7. ValueParts(v) = f /\ JsonParts(j) = j.object
    BY <1>3, <2>6 DEF ValueParts, JsonParts, items
  <2>8. Means(v, j)
    BY <1>2, <1>3, <2>3, <2>6 DEF Means
  <2>. QED  BY <2>2, <2>3, <2>5, <2>7, <2>8 DEF ParsedTo
<1>4. CASE type(j) = "array"
  <2> DEFINE s == [i \in DOMAIN j.array |-> parseExpression[j.array[i]]]
             n == Len(j.array)
  <2>1. v = parseExpList(s)
    BY <1>1, <1>4, Zenon DEF ParseStep
  <2>2. /\ s \in Seq(Range(s)) /\ Len(s) = n /\ DOMAIN j.array = 1..n /\ DOMAIN s = 1..n
        /\ \A i \in 1..n : s[i] = parseExpression[j.array[i]]
    BY <1>0, <1>4, InOrder
  <2>3. \A i \in 1..n : j.array[i] \in Json
    BY <1>0, <1>4, <2>2, JsonByType DEF IsInside
  <2> HIDE DEF s
  <2>4. \A i \in 1..n : Orderly(s[i])
    BY <2>2, <2>3, ParseResult
  <2>5. v = List_(s) /\ \A i \in 1..n : ~Failed(s[i])
    BY <1>0, <2>1, <2>2, <2>4, ListResult
  <2>6. IsList(v) /\ ~IsMap(v) /\ v.list = s
    BY <2>5 DEF IsList, IsMap, List_
  <2>7. ValueParts(v) = indexed(s) /\ JsonParts(j) = items(j)
    BY <1>4, <2>6 DEF ValueParts, JsonParts
  <2>8. Means(v, j)
    BY <1>2, <1>4, <2>2, <2>6 DEF Means
  <2>9. /\ DOMAIN items(j) = {IndexName(i - 1) : i \in DOMAIN s}
        /\ \A i \in DOMAIN s : items(j)[IndexName(i - 1)] = j.array[i]
    BY <1>0, <1>4, <2>2, ArrayItems
  <2>10. DOMAIN indexed(s) = {IndexName(i - 1) : i \in DOMAIN s}
    BY DEF indexed
  <2>11. \A h, k \in DOMAIN s : IndexName(h - 1) = IndexName(k - 1) => h = k
    <3>1. \A h, k \in DOMAIN j.array : IndexName(h - 1) = IndexName(k - 1) => h = k
      BY <1>0, <1>4, JsonByType, Zenon
    <3>. QED  BY <2>2, <3>1, Zenon
  <2>12. \A i \in DOMAIN s : indexed(s)[IndexName(i - 1)] = s[i]
    BY <2>11, Indexed, Zenon
  <2>13. ASSUME NEW key \in DOMAIN items(j) PROVE ParsedTo(indexed(s)[key], items(j)[key])
    <3>1. PICK i \in DOMAIN s : key = IndexName(i - 1)
      BY <2>9
    <3>2. indexed(s)[key] = s[i] /\ items(j)[key] = j.array[i] /\ i \in 1..n
      BY <2>2, <2>9, <2>12, <3>1
    <3>. QED  BY <2>2, <2>3, <2>5, <3>2 DEF ParsedTo
  <2>. QED  BY <2>7, <2>8, <2>9, <2>10, <2>13
<1>5. CASE type(j) \notin {"object", "array"}
  <2>1. v = parseLiteral(j)
    BY <1>1, <1>5 DEF ParseStep
  <2>2. type(j) \in {"string", "number_integer", "boolean"}
    BY <1>0, <2>1, LiteralResult
  <2>3. ~IsMap(v) /\ ~IsList(v) /\ Means(v, j)
    BY <1>0, <2>1, <2>2, LiteralMeans
  <2>4. ValueParts(v) = EmptyMap /\ JsonParts(j) = EmptyMap
    BY <1>5, <2>3 DEF ValueParts, JsonParts
  <2>5. DOMAIN EmptyMap = {}
    BY DEF EmptyMap
  <2>. QED  BY <2>3, <2>4, <2>5
<1>. QED  BY <1>3, <1>4, <1>5

\* One name of a path, through a document or through what was parsed.
PartsOf(which, x) == IF which = "json" THEN JsonParts(x) ELSE ValueParts(x)
Down(which, x, name) == IF name \in DOMAIN PartsOf(which, x) THEN PartsOf(which, x)[name] ELSE NotFound

Walks(which, reached, whole, path, n) ==
    reached = [k \in 0..n |-> IF k = 0 THEN whole ELSE Down(which, reached[k-1], path[k])]

\* A path of any length leads somewhere.
LEMMA WalkExists ==
    ASSUME NEW which, NEW whole, NEW path, NEW n \in Nat
    PROVE  \E reached : Walks(which, reached, whole, path, n)
<1> DEFINE T == {m \in Nat : ~ \E f : Walks(which, f, whole, path, m)}
<1>1. SUFFICES ASSUME T # {} PROVE FALSE
  OBVIOUS
<1>2. PICK m \in T : \A k \in T : m <= k
  BY <1>1, LeastNumber
<1>3. m # 0
  <2> DEFINE f == [k \in 0..0 |-> whole]
  <2>1. \A k \in 0..0 : k = 0
    OBVIOUS
  <2>2. f = [k \in 0..0 |-> IF k = 0 THEN whole ELSE Down(which, f[k-1], path[k])]
    BY <2>1
  <2>3. Walks(which, f, whole, path, 0)
    BY <2>2, Zenon DEF Walks
  <2>. QED  BY <1>2, <2>3
<1>4. m - 1 \in Nat /\ m - 1 \notin T
  BY <1>2, <1>3
<1>5. PICK f : Walks(which, f, whole, path, m - 1)
  BY <1>4
<1> DEFINE g == [k \in 0..m |-> IF k = m THEN Down(which, f[m-1], path[m]) ELSE f[k]]
<1>6. \A k \in 0..m-1 : f[k] = IF k = 0 THEN whole ELSE Down(which, f[k-1], path[k])
  BY <1>5 DEF Walks
<1>7. \A k \in 0..m : g[k] = IF k = 0 THEN whole ELSE Down(which, g[k-1], path[k])
  <2>1. SUFFICES ASSUME NEW k \in 0..m
                 PROVE  g[k] = IF k = 0 THEN whole ELSE Down(which, g[k-1], path[k])
    OBVIOUS
  <2>2. CASE k = m
    <3>1. m - 1 \in 0..m /\ m - 1 # m /\ m \in 0..m
      BY <1>2, <1>3
    <3>2. g[m-1] = f[m-1] /\ g[m] = Down(which, f[m-1], path[m])
      BY <3>1
    <3>. QED  BY <1>3, <2>2, <3>2
  <2>3. CASE k # m
    <3>1. k \in 0..m-1 /\ g[k] = f[k]
      BY <1>2, <2>3
    <3>2. k # 0 => k - 1 \in 0..m /\ k - 1 # m
      BY <1>2, <2>3
    <3>3. k # 0 => g[k-1] = f[k-1]
      BY <3>2
    <3>. QED  BY <1>6, <3>1, <3>3
  <2>. QED  BY <2>2, <2>3
<1>8. g = [k \in 0..m |-> g[k]]
  BY Zenon
<1>9. Walks(which, g, whole, path, m)
  <2> HIDE DEF g
  <2>. QED  BY <1>7, <1>8 DEF Walks
<1>. QED  BY <1>2, <1>9

\* Follow walks along the path: through a document.
LEMMA FollowsJson ==
    ASSUME NEW whole, NEW path, Len(path) \in Nat
    PROVE  \E r : /\ Walks("json", r, whole, path, Len(path))
                  /\ Follow(whole, JsonParts, path) = r[Len(path)]
<1> DEFINE Goes(f) == f = [k \in 0..Len(path) |->
             IF k = 0 THEN whole
             ELSE IF path[k] \in DOMAIN JsonParts(f[k-1]) THEN JsonParts(f[k-1])[path[k]]
             ELSE NotFound]
           r == CHOOSE f : Goes(f)
<1>1. \A f : Walks("json", f, whole, path, Len(path)) <=> Goes(f)
  BY DEF Walks, Down, PartsOf
<1>2. Follow(whole, JsonParts, path) = r[Len(path)]
  BY Zenon DEF Follow
<1> HIDE DEF Goes
<1>3. \E f : Goes(f)
  BY <1>1, WalkExists
<1>4. Goes(r)
  BY <1>3, Zenon
<1>. QED  BY <1>1, <1>2, <1>4

\* Follow walks along the path: through what was parsed.
LEMMA FollowsValue ==
    ASSUME NEW whole, NEW path, Len(path) \in Nat
    PROVE  \E r : /\ Walks("value", r, whole, path, Len(path))
                  /\ Follow(whole, ValueParts, path) = r[Len(path)]
<1> DEFINE Goes(f) == f = [k \in 0..Len(path) |->
             IF k = 0 THEN whole
             ELSE IF path[k] \in DOMAIN ValueParts(f[k-1]) THEN ValueParts(f[k-1])[path[k]]
             ELSE NotFound]
           r == CHOOSE f : Goes(f)
<1>1. \A f : Walks("value", f, whole, path, Len(path)) <=> Goes(f)
  BY DEF Walks, Down, PartsOf
<1>2. Follow(whole, ValueParts, path) = r[Len(path)]
  BY Zenon DEF Follow
<1> HIDE DEF Goes
<1>3. \E f : Goes(f)
  BY <1>1, WalkExists
<1>4. Goes(r)
  BY <1>3, Zenon
<1>. QED  BY <1>1, <1>2, <1>4

\* A path leads to nothing in both, or to a value and what it was parsed to.
Agree(v, j) == (v = NotFound /\ j = NotFound) \/ ParsedTo(v, j)

\* Another name of the path does not change that.
LEMMA AgreeFurther ==
    ASSUME NEW v, NEW j, Agree(v, j), NEW name
    PROVE  Agree(Down("value", v, name), Down("json", j, name))
<1>1. CASE v = NotFound /\ j = NotFound
  <2>1. DOMAIN NotFound = {"missing"}
    BY DEF NotFound
  <2>2. type(NotFound) = "missing"
    BY <2>1, TypeOfField
  <2>3. DOMAIN JsonParts(NotFound) = {} /\ DOMAIN ValueParts(NotFound) = {}
    BY <2>1, <2>2 DEF JsonParts, ValueParts, IsMap, IsList, EmptyMap
  <2>. QED  BY <1>1, <2>3 DEF Down, PartsOf, Agree
<1>2. CASE ParsedTo(v, j)
  BY <1>2, ParsedParts DEF Down, PartsOf, Agree
<1>. QED  BY <1>1, <1>2 DEF Agree

\* What agrees means the same.
LEMMA AgreeMeans ==
    ASSUME NEW v, NEW j, Agree(v, j)
    PROVE  Means(v, j)
<1>1. CASE v = NotFound /\ j = NotFound
  <2>1. type(NotFound) = "missing"
    BY TypeOfField DEF NotFound
  <2>. QED  BY <1>1, <2>1 DEF Means
<1>2. CASE ParsedTo(v, j)
  BY <1>2, ParsedParts
<1>. QED  BY <1>1, <1>2 DEF Agree

\* If an environment is parsed, every path leads to the same in it as in the document.
LEMMA EnvironmentResult ==
    ASSUME NEW j \in Json, type(j) = "array"
    PROVE  /\ Orderly(parseEnvironment(j))
           /\ ~Failed(parseEnvironment(j)) =>
                \A path \in Paths : Means(Follow(parseEnvironment(j), ValueParts, path),
                                         Follow(j, JsonParts, path))
<1> DEFINE f == [key \in DOMAIN items(j) |-> parseExpression[items(j)[key]]]
           v == parseEnvironment(j)
<1>1. v = parseExpMap(f)
  BY DEF parseEnvironment
<1>2. DOMAIN f = DOMAIN items(j) /\ \A key \in DOMAIN f : f[key] = parseExpression[items(j)[key]]
  OBVIOUS
<1>3. \A key \in DOMAIN items(j) : items(j)[key] \in Json
  BY ItemsInside DEF IsInside
<1> HIDE DEF f, v
<1>4. \A key \in DOMAIN f : Orderly(f[key])
  BY <1>2, <1>3, ParseResult
<1>5. /\ Orderly(v) /\ (~Failed(v) <=> \A key \in DOMAIN f : ~Failed(f[key]))
      /\ ~Failed(v) => v = Map_(f)
  BY <1>1, <1>4, MapResult
<1>6. ASSUME ~Failed(v), NEW path \in Paths
      PROVE  Means(Follow(v, ValueParts, path), Follow(j, JsonParts, path))
  <2> DEFINE n == Len(path)
  <2>1. n \in Nat /\ n # 0
    <3>1. path \in Seq(Range(path)) /\ path # <<>>
      BY GameFileAssumption
    <3>. QED  BY <3>1, EmptySeq, LenProperties
  <2>2. PICK r : Walks("value", r, v, path, n) /\ Follow(v, ValueParts, path) = r[n]
    BY <2>1, FollowsValue
  <2>3. PICK d : Walks("json", d, j, path, n) /\ Follow(j, JsonParts, path) = d[n]
    BY <2>1, FollowsJson
  <2> HIDE DEF n
  <2>4. /\ \A k \in 0..n : r[k] = IF k = 0 THEN v ELSE Down("value", r[k-1], path[k])
        /\ \A k \in 0..n : d[k] = IF k = 0 THEN j ELSE Down("json", d[k-1], path[k])
    BY <2>2, <2>3, Zenon DEF Walks
  <2>5. \A name : Agree(Down("value", v, name), Down("json", j, name))
    <3>1. v = Map_(f) /\ \A key \in DOMAIN f : ~Failed(f[key])
      BY <1>5, <1>6
    <3>2. ValueParts(v) = f /\ JsonParts(j) = items(j)
      BY <3>1 DEF ValueParts, JsonParts, IsMap, Map_
    <3>. QED  BY <1>2, <1>3, <3>1, <3>2 DEF Down, PartsOf, Agree, ParsedTo
  <2> DEFINE T == {k \in 1..n : ~Agree(r[k], d[k])}
  <2>6. T = {}
    <3>1. SUFFICES ASSUME T # {} PROVE FALSE
      OBVIOUS
    <3>2. T \in SUBSET Nat
      BY <2>1
    <3>3. PICK k \in T : \A m \in T : k <= m
      BY <3>1, <3>2, LeastNumber
    <3>4. k \in 1..n /\ k \in 0..n /\ k # 0 /\ k - 1 \in 0..n
      BY <2>1
    <3>5. r[k] = Down("value", r[k-1], path[k]) /\ d[k] = Down("json", d[k-1], path[k])
      BY <2>4, <3>4
    <3>6. CASE k = 1
      <4>1. r[k-1] = v /\ d[k-1] = j
        BY <2>1, <2>4, <3>6
      <4>. QED  BY <2>5, <3>5, <4>1
    <3>7. CASE k # 1
      <4>1. k - 1 \in 1..n /\ ~(k <= k - 1)
        BY <2>1, <3>4, <3>7
      <4>2. Agree(r[k-1], d[k-1])
        BY <3>3, <4>1
      <4>. QED  BY <3>5, <4>2, AgreeFurther
    <3>. QED  BY <3>6, <3>7
  <2>7. Agree(r[n], d[n])
    BY <2>1, <2>6
  <2>. QED  BY <2>2, <2>3, <2>7, AgreeMeans
<1>. QED  BY <1>5, <1>6 DEF v

-----------------------------------------------------------------------------
(* The configuration of a game and its rules. *)

\* get<std::string> and the kind of a custom setup.
LEMMA StringResult ==
    ASSUME NEW j
    PROVE  /\ get_string(j) = Thrown \/ get_string(j) = Name(j.string)
           /\ ~Failed(get_string(j)) <=> type(j) = "string"
<1>1. Failed(Thrown) /\ ~Failed(Name(j.string))
  BY DEF Failed, Thrown, Name, Str_
<1>. QED  BY <1>1 DEF get_string

\* The kind of a custom setup is read as it is written, or not at all.
LEMMA KindResult ==
    ASSUME NEW j
    PROVE  /\ Orderly(parseDataKind(j))
           /\ ~Failed(parseDataKind(j)) => parseDataKind(j) = Name(j.string)
<1>1. Failed(Thrown) /\ Failed(Undefined) /\ Failed(Aborted) /\ ~Failed(Name(j.string))
  BY DEF Failed, Thrown, Undefined, Aborted, Name, Str_
<1>. QED  BY <1>1 DEF parseDataKind, assertion_fails, Orderly, Failures

\* A custom setup has the kind and the prompt that are written.
LEMMA CustomResult ==
    ASSUME NEW j
    PROVE  /\ Orderly(parseCustomSetup(j))
           /\ ~Failed(parseCustomSetup(j)) =>
                parseCustomSetup(j) = [kind |-> Name(at(j, "kind").string),
                                       prompt |-> Name(at(j, "prompt").string)]
<1> DEFINE kind == IF contains(j, "kind") THEN parseDataKind(at(j, "kind")) ELSE Thrown
           prompt == IF contains(j, "prompt") THEN get_string(at(j, "prompt")) ELSE Thrown
           both == <<kind, prompt>>
<1>0. Failed(Thrown) /\ Thrown \in Failures
  BY DEF Failed, Thrown, Failures
<1>1. parseCustomSetup(j) = IF Failed(FirstFailure(both)) THEN FirstFailure(both)
                            ELSE [kind |-> kind, prompt |-> prompt]
  BY DEF parseCustomSetup
<1>2. Orderly(kind) /\ (~Failed(kind) => kind = Name(at(j, "kind").string))
  BY <1>0, KindResult DEF Orderly
<1>3. Orderly(prompt) /\ (~Failed(prompt) => prompt = Name(at(j, "prompt").string))
  <2>1. CASE contains(j, "prompt")
    <3>1. prompt = get_string(at(j, "prompt"))
      BY <2>1
    <3> HIDE DEF prompt
    <3>2. prompt = Thrown \/ prompt = Name(at(j, "prompt").string)
      BY <3>1, StringResult
    <3>3. ~Failed(Name(at(j, "prompt").string))
      BY DEF Failed, Name, Str_
    <3>. QED  BY <1>0, <2>1, <3>2, <3>3 DEF Orderly
  <2>. QED  BY <1>0, <2>1 DEF Orderly
<1>4. both \in Seq({kind, prompt}) /\ Len(both) = 2 /\ both[1] = kind /\ both[2] = prompt
  OBVIOUS
<1> HIDE DEF both, kind, prompt
<1>5. \A i \in 1..Len(both) : i = 1 \/ i = 2
  BY <1>4
<1>6. 1 \in 1..Len(both) /\ 2 \in 1..Len(both)
  BY <1>4
<1>7. Failed(FirstFailure(both)) <=> Failed(kind) \/ Failed(prompt)
  BY <1>4, <1>5, <1>6, FirstFailureOf
<1>8. Failed(FirstFailure(both)) => FirstFailure(both) = kind \/ FirstFailure(both) = prompt
  BY <1>4, <1>5, FirstFailureOf
<1>9. ~Failed([kind |-> kind, prompt |-> prompt])
  BY DEF Failed
<1>. QED  BY <1>1, <1>2, <1>3, <1>7, <1>8, <1>9 DEF Orderly

\* A setup is read as it is written.
LEMMA SetupResult ==
    ASSUME NEW j \in Json
    PROVE  /\ Orderly(parseSetupValue(j))
           /\ ~Failed(parseSetupValue(j)) => SetupMeans(parseSetupValue(j), j)
<1> DEFINE v == parseSetupValue(j)
<1>1. CASE type(j) \in {"string", "number_integer", "boolean"}
  <2>1. v = parseLiteral(j)
    BY <1>1 DEF parseSetupValue, parseLiteral
  <2>2. Means(v, j)
    BY <1>1, <2>1, LiteralMeans
  <2>. QED  BY <1>1, <2>1, <2>2, LiteralResult DEF SetupMeans, IsObject
<1>2. CASE type(j) = "object"
  <2>1. v = parseCustomSetup(j)
    BY <1>2 DEF parseSetupValue
  <2>. QED  BY <1>2, <2>1, CustomResult DEF SetupMeans, IsObject
<1>3. CASE type(j) \notin {"string", "number_integer", "boolean", "object"}
  <2>1. v = assertion_fails(Int_(0))
    BY <1>3 DEF parseSetupValue
  <2>2. Failed(Aborted) /\ ~Failed(Int_(0)) /\ Aborted \in Failures
    BY DEF Failed, Aborted, Int_, Failures
  <2>. QED  BY <1>3, <2>1, <2>2 DEF assertion_fails, Orderly, SetupMeans, IsObject
<1>. QED  BY <1>1, <1>2, <1>3

\* The setups are read as they are written.
SetupsRead(read) ==
    /\ DOMAIN read = DOMAIN SetupOf(file)
    /\ \A key \in DOMAIN SetupOf(file) : SetupMeans(read[key], SetupOf(file)[key])

\* How parseConfig, parseGameState and parseRule end if something fails.
FailureNames == {"thrown", "undefined", "aborted"}

\* They go on unless something failed, and then end as the failure says.
LEMMA GoesOn ==
    ASSUME NEW v, NEW next, Orderly(v), Continue(v, next)
    PROVE  IF Failed(v) THEN pc' \in FailureNames ELSE pc' = next
<1>1. \A x \in Failures : x.failure \in FailureNames
  BY DEF Failures, FailureNames, Thrown, Undefined, Aborted
<1>. QED  BY <1>1 DEF Orderly, Continue

\* parseRule comes to an end, whatever the document.
LEMMA RuleEnds ==
    ASSUME parseRule, file \in GameFiles
    PROVE  pc' \in {"parsed"} \cup FailureNames
<1> DEFINE rules == at(file, "rules")
           name(r) == IF contains(r, "rule") THEN get_string(at(r, "rule")) ELSE Thrown
           selected(r) == IF Failed(name(r)) THEN Thrown ELSE ruleSelector(name(r).str[1])
           parsed == [i \in DOMAIN rules.array |-> selected(rules.array[i])]
           result == IF ~IsObject(file) THEN Thrown
                     ELSE IF ~contains(file, "rules") THEN assertion_fails(Undefined)
                     ELSE IF type(rules) # "array" THEN Thrown
                     ELSE FirstFailure(parsed)
<1>1. Continue(result, "parsed")
  BY DEF parseRule
<1>2. Thrown \in Failures /\ Undefined \in Failures /\ Aborted \in Failures
  BY DEF Failures
<1>3. CASE IsObject(file) /\ contains(file, "rules") /\ type(rules) = "array"
  <2>1. rules \in Json
    BY <1>3, GameFileAssumption, PartOfObject
  <2>2. rules.array \in Seq(Range(rules.array))
    BY <1>3, <2>1, JsonByType
  <2> DEFINE n == Len(rules.array)
  <2>3. n \in Nat /\ DOMAIN rules.array = 1..n
    BY <2>2, LenProperties
  <2>4. \A r : selected(r) \in {Thrown, Undefined}
    BY DEF ruleSelector, parseRuleNamed
  <2> HIDE DEF selected, n, rules
  <2>5. parsed = [i \in 1..n |-> selected(rules.array[i])]
    BY <2>3
  <2>6. parsed \in [1..n -> {Thrown, Undefined}]
    BY <2>4, <2>5
  <2> HIDE DEF parsed
  <2>7. parsed \in Seq({Thrown, Undefined})
    BY <2>3, <2>6, SeqDef
  <2>8. DOMAIN parsed = 1..Len(parsed)
    BY <2>7, LenProperties
  <2>9. \A i \in 1..Len(parsed) : parsed[i] \in {Thrown, Undefined}
    BY <2>7, ElementOfSeq
  <2>10. Orderly(FirstFailure(parsed))
    BY <1>2, <2>7, <2>9, FirstFailureOf DEF Orderly
  <2>11. result = FirstFailure(parsed)
    BY <1>3 DEF rules
  <2>. QED  BY <1>1, <2>10, <2>11, GoesOn
<1>4. CASE ~(IsObject(file) /\ contains(file, "rules") /\ type(rules) = "array")
  <2> HIDE DEF parsed
  <2>1. result \in Failures
    BY <1>2, <1>4 DEF assertion_fails
  <2> HIDE DEF result
  <2>. QED  BY <1>1, <2>1, GoesOn DEF Orderly
<1>. QED  BY <1>3, <1>4

-----------------------------------------------------------------------------
(* Validation. *)

\* A level that has all fields of its table has no others exactly if it has as many.
LEMMA LevelIsExact ==
    ASSUME NEW j \in Json, NEW fields, DOMAIN fields # {}, has_all(j, fields)
    PROVE  /\ IsObject(j) /\ items(j) = j.object /\ DOMAIN fields \subseteq DOMAIN j.object
           /\ size(j) = Cardinality(DOMAIN fields) <=> DOMAIN j.object = DOMAIN fields
<1>1. IsObject(j) /\ DOMAIN fields \subseteq DOMAIN j.object
  BY DEF has_all, contains
<1>2. items(j) = j.object /\ size(j) = Cardinality(DOMAIN j.object)
  BY <1>1 DEF IsObject, items, size
<1>3. IsFiniteSet(DOMAIN j.object)
  BY <1>1, JsonByType DEF IsObject
<1>4. Cardinality(DOMAIN fields) = Cardinality(DOMAIN j.object) => DOMAIN fields = DOMAIN j.object
  BY <1>1, <1>3, FS_Subset
<1>. QED  BY <1>1, <1>2, <1>4

\* What the three checks of isValidGameSpec find out.
LEMMA ChecksAreExact ==
    ASSUME NEW j \in Json
    PROVE  /\ IsSpecification(j) => has_required(j) /\ none_extra(j)
           /\ has_required(j) /\ none_extra(j) =>
                /\ ~has_unknown(j, FIELDS)
                /\ ~has_unknown(configuration(j), FIELDS_configuration)
                /\ ~has_unknown(playerCount(j), FIELDS_playerCount)
                /\ IsSpecification(j) <=> /\ has_types(j, FIELDS)
                                          /\ has_types(configuration(j), FIELDS_configuration)
                                          /\ has_types(playerCount(j), FIELDS_playerCount)
<1> DEFINE c == configuration(j)
           p == playerCount(j)
<1>1. /\ DOMAIN FIELDS # {} /\ DOMAIN FIELDS_configuration # {} /\ DOMAIN FIELDS_playerCount # {}
      /\ "configuration" \in DOMAIN FIELDS /\ "player_count" \in DOMAIN FIELDS_configuration
  BY DEF FIELDS, FIELDS_configuration, FIELDS_playerCount
<1>2. \A x, fields : Conforms(x, fields) => has_all(x, fields)
  BY DEF Conforms, has_all, contains
<1>3. IsSpecification(j) => has_required(j)
  BY <1>2 DEF IsSpecification, has_required
<1>4. SUFFICES ASSUME has_required(j)
               PROVE  /\ IsSpecification(j) => none_extra(j)
                      /\ none_extra(j) =>
                           /\ ~has_unknown(j, FIELDS)
                           /\ ~has_unknown(c, FIELDS_configuration)
                           /\ ~has_unknown(p, FIELDS_playerCount)
                           /\ IsSpecification(j) <=> /\ has_types(j, FIELDS)
                                                     /\ has_types(c, FIELDS_configuration)
                                                     /\ has_types(p, FIELDS_playerCount)
  BY <1>3
<1>5. has_all(j, FIELDS) /\ has_all(c, FIELDS_configuration) /\ has_all(p, FIELDS_playerCount)
  BY <1>4 DEF has_required
<1>6. c \in Json
  BY <1>1, <1>5, PartOfObject DEF has_all, configuration
<1>7. p \in Json
  BY <1>1, <1>5, <1>6, PartOfObject DEF has_all, playerCount
<1> HIDE DEF c, p
<1>8. none_extra(j) <=> /\ DOMAIN j.object = DOMAIN FIELDS
                        /\ DOMAIN c.object = DOMAIN FIELDS_configuration
                        /\ DOMAIN p.object = DOMAIN FIELDS_playerCount
  BY <1>1, <1>5, <1>6, <1>7, LevelIsExact DEF none_extra, c, p
<1>9. \A x \in Json : \A fields :
        DOMAIN fields # {} /\ has_all(x, fields) /\ DOMAIN x.object = DOMAIN fields =>
          ~has_unknown(x, fields) /\ (Conforms(x, fields) <=> has_types(x, fields))
  BY LevelIsExact DEF has_unknown, has_types, Conforms
<1>10. IsSpecification(j) => none_extra(j)
  BY <1>8 DEF IsSpecification, Conforms, c, p
<1>11. IsSpecification(j) <=> /\ Conforms(j, FIELDS) /\ Conforms(c, FIELDS_configuration)
                              /\ Conforms(p, FIELDS_playerCount)
  BY DEF IsSpecification, c, p
<1>. QED  BY <1>1, <1>5, <1>6, <1>7, <1>8, <1>9, <1>10, <1>11

\* The setup and the environments of a specification are arrays of JSON values.
LEMMA SpecificationParts ==
    ASSUME NEW j \in Json, IsSpecification(j)
    PROVE  /\ at(configuration(j), "setup") \in Json
           /\ type(at(configuration(j), "setup")) = "array"
           /\ \A e \in Range(Environments) : at(j, e) \in Json /\ type(at(j, e)) = "array"
<1>1. /\ Conforms(j, FIELDS) /\ Conforms(configuration(j), FIELDS_configuration)
  BY DEF IsSpecification
<1>2. \A x, fields, key : Conforms(x, fields) /\ key \in DOMAIN fields =>
                            contains(x, key) /\ type(at(x, key)) = fields[key]
  BY DEF Conforms, contains, at
<1>3. /\ "configuration" \in DOMAIN FIELDS
      /\ "setup" \in DOMAIN FIELDS_configuration /\ FIELDS_configuration["setup"] = "array"
  BY DEF FIELDS, FIELDS_configuration
<1>4. configuration(j) \in Json
  BY <1>1, <1>2, <1>3, PartOfObject DEF configuration
<1>5. \A e \in Range(Environments) : e \in DOMAIN FIELDS /\ FIELDS[e] = "array"
  <2>1. Range(Environments) = {"constants", "variables", "per-player", "per-audience"}
    BY DEF Range, Environments
  <2>. QED  BY <2>1 DEF FIELDS
<1>. QED  BY <1>1, <1>2, <1>3, <1>4, <1>5, PartOfObject

-----------------------------------------------------------------------------
(* The server's configuration, step by step. *)

\* What parseServerConfig has read from the file.
ReadFrom(j, c) ==
    /\ j \in Json /\ contains(j, "port") /\ contains(j, "html")
    /\ get_int(at(j, "port")).int \in Int
    /\ c = Ok([port |-> get_int(at(j, "port")).int, htmlPath |-> get_string(at(j, "html"))])

\* The steps of main() up to the point where the server listens.
ServerInvariant ==
    /\ pc = "load_config_from_json" => file \in ConfigFiles
    /\ pc = "parseServerConfig" => file \in Json
    /\ pc = "main" => \/ config \in {Error(Name("errno")), Error(Name("invalid_json"))}
                      \/ ReadFrom(file, config)
    /\ ServesWhatIsConfigured

\* Reading a configuration that is good enough for parseServerConfig.
LEMMA ReadsConfig ==
    ASSUME parseServerConfig, file \in Json, pc' = "main"
    PROVE  ReadFrom(file, config')
<1> DEFINE port == IF contains(file, "port") THEN get_int(at(file, "port")) ELSE Thrown
           html == IF contains(file, "html") THEN get_string(at(file, "html")) ELSE Thrown
           both == <<port, html>>
<1>1. ~Failed(FirstFailure(both)) /\ config' = Ok([port |-> port.int, htmlPath |-> html])
  BY DEF parseServerConfig
<1>2. both \in Seq({port, html}) /\ Len(both) = 2 /\ both[1] = port /\ both[2] = html
  OBVIOUS
<1> HIDE DEF both
<1>3. 1 \in 1..Len(both) /\ 2 \in 1..Len(both)
  BY <1>2
<1>4. ~Failed(both[1]) /\ ~Failed(both[2])
  BY <1>1, <1>2, <1>3, FirstFailureOf
<1>5. ~Failed(port) /\ ~Failed(html)
  BY <1>2, <1>4
<1>6. Failed(Thrown)
  BY DEF Failed, Thrown
<1>7. contains(file, "port") /\ contains(file, "html")
  BY <1>5, <1>6
<1>8. port = get_int(at(file, "port")) /\ html = get_string(at(file, "html"))
  BY <1>7
<1>9. port.int \in Int
  BY <1>5, <1>6, <1>7, <1>8, PartOfObject, GetInt
<1> HIDE DEF port, html
<1>. QED  BY <1>1, <1>7, <1>8, <1>9 DEF ReadFrom

\* Binding the port that was read.
LEMMA Listens ==
    ASSUME main, ReadFrom(file, config), pc' = "listening"
    PROVE  ServesWhatIsConfigured'
<1> DEFINE n == get_int(at(file, "port")).int
           page == get_string(at(file, "html"))
<1>1. n \in Int /\ contains(file, "port") /\ contains(file, "html")
  BY DEF ReadFrom
<1>2. config = Ok([port |-> n, htmlPath |-> page])
  BY DEF ReadFrom
<1> HIDE DEF n, page
<1>3. is_ok(config) /\ unwrap(config) = [port |-> n, htmlPath |-> page]
  BY <1>2 DEF Ok, is_ok, unwrap
<1>4. config' = [port |-> bind_port(n), htmlPath |-> page] /\ file' = file
  BY <1>3 DEF main
<1>5. config'.port = bind_port(n) /\ config'.htmlPath = page
  BY <1>4
<1>6. bind_port(n) \in 0..2^PortWidth - 1 /\ (n \in 0..2^PortWidth - 1 => bind_port(n) = n)
  BY <1>1, PortFits
<1>. QED  BY <1>1, <1>4, <1>5, <1>6, Zenon DEF ServesWhatIsConfigured, n, page

\* main() listens, or ends.
LEMMA MainEnds ==
    ASSUME main, ServerInvariant
    PROVE  \/ pc' = "exit"
           \/ ReadFrom(file, config) /\ pc' \in {"listening", "thrown"}
<1>1. CASE config \in {Error(Name("errno")), Error(Name("invalid_json"))}
  <2>1. ~is_ok(config) /\ error(config) \in {Name("errno"), Name("invalid_json")}
    BY <1>1 DEF Error, is_ok, error
  <2>. QED  BY <2>1 DEF main, Continue, Failed, Name, Str_
<1>2. CASE ReadFrom(file, config)
  <2>1. is_ok(config)
    BY <1>2 DEF ReadFrom, is_ok, Ok
  <2>. QED  BY <1>2, <2>1 DEF main, start_listener
<1>. QED  BY <1>1, <1>2 DEF main, ServerInvariant

-----------------------------------------------------------------------------
(* parseGameSpecification, step by step. *)

\* parseConfig reads the setups, or fails in one.
LEMMA ConfigParsed ==
    ASSUME parseConfig, file \in GameFiles, IsSpecification(file)
    PROVE  /\ config' # EmptyMap
           /\ \/ pc' = "parseGameState" /\ SetupsRead(config'.setup)
              \/ pc' \in FailureNames
<1> DEFINE j == at(configuration(file), "setup")
           setup == parseSetup(j)
<1>1. Continue(AnyFailure(setup), "parseGameState")
  BY DEF parseConfig
<1>2. config' # EmptyMap
  <2>1. "name" \in DOMAIN config'
    BY DEF parseConfig
  <2>2. DOMAIN EmptyMap = {}
    BY DEF EmptyMap
  <2>. QED  BY <2>1, <2>2
<1>3. j \in Json /\ type(j) = "array"
  BY GameFileAssumption, SpecificationParts
<1>4. /\ DOMAIN setup = DOMAIN items(j)
      /\ \A key \in DOMAIN items(j) : setup[key] = parseSetupValue(items(j)[key])
  BY DEF parseSetup
<1> HIDE DEF setup
<1>5. \A key \in DOMAIN items(j) :
        Orderly(setup[key]) /\ (~Failed(setup[key]) => SetupMeans(setup[key], items(j)[key]))
  <2> HIDE DEF j
  <2>1. \A key \in DOMAIN items(j) : items(j)[key] \in Json
    BY <1>3, ItemsInside DEF IsInside
  <2>. QED  BY <1>4, <2>1, SetupResult
<1>6. /\ Failed(AnyFailure(setup)) =>
           \E key \in DOMAIN setup : Failed(setup[key]) /\ AnyFailure(setup) = setup[key]
      /\ (\E key \in DOMAIN setup : Failed(setup[key])) => Failed(AnyFailure(setup))
  BY AnyFailureOf, Zenon
<1>7. SetupOf(file) = items(j)
  BY DEF SetupOf
<1>8. CASE Failed(AnyFailure(setup))
  <2> HIDE DEF j
  <2>1. PICK key \in DOMAIN setup : Failed(setup[key]) /\ AnyFailure(setup) = setup[key]
    BY <1>6, <1>8
  <2>2. Orderly(AnyFailure(setup))
    BY <1>4, <1>5, <2>1, Zenon
  <2>. QED  BY <1>1, <1>2, <1>8, <2>2, GoesOn
<1>9. CASE ~Failed(AnyFailure(setup))
  <2>1. config'.setup = setup
    BY <1>9 DEF parseConfig, setup
  <2> HIDE DEF j
  <2>2. SetupsRead(setup)
    BY <1>4, <1>5, <1>6, <1>7, <1>9, Zenon DEF SetupsRead
  <2>. QED  BY <1>1, <1>2, <1>9, <2>1, <2>2, GoesOn DEF Orderly
<1>. QED  BY <1>8, <1>9

\* parseGameState comes to its end, or fails in an environment.
LEMMA StateParsed ==
    ASSUME parseGameState, file \in GameFiles, IsSpecification(file)
    PROVE  \/ /\ pc' = "parsed"
              /\ \A e \in Range(Environments), path \in Paths :
                   Means(Follow(state'[e], ValueParts, path), Follow(at(file, e), JsonParts, path))
           \/ pc' \in FailureNames
<1> DEFINE E == Range(Environments)
           parsed == [i \in DOMAIN Environments |-> parseEnvironment(at(file, Environments[i]))]
           bad == FirstFailure(parsed)
<1>1. /\ Continue(bad, "parsed")
      /\ state' = IF Failed(bad) THEN EmptyMap
                  ELSE [e \in E |-> parsed[CHOOSE i \in DOMAIN Environments : Environments[i] = e]]
  BY DEF parseGameState
<1>2. \A e \in E : at(file, e) \in Json /\ type(at(file, e)) = "array"
  BY GameFileAssumption, SpecificationParts
<1>3. DOMAIN Environments = 1..4 /\ \A i \in 1..4 : Environments[i] \in E
  BY DEF Environments, Range
<1>4. \A e \in E : \E i \in 1..4 : Environments[i] = e
  BY <1>3 DEF Range
<1>5. parsed = [i \in 1..4 |-> parseEnvironment(at(file, Environments[i]))]
  BY <1>3
<1>6. parsed \in Seq(Range(parsed)) /\ Len(parsed) = 4
  <2>1. \A i \in 1..4 : parsed[i] \in Range(parsed)
    BY <1>3 DEF Range
  <2>2. DOMAIN parsed = 1..4 /\ parsed \in [1..4 -> Range(parsed)]
    BY <1>5, <2>1
  <2> HIDE DEF parsed
  <2>3. parsed \in Seq(Range(parsed))
    BY <2>2, SeqDef
  <2>. QED  BY <2>2, <2>3, LenProperties
<1>7. \A i \in 1..4 : parsed[i] = parseEnvironment(at(file, Environments[i]))
  BY <1>5
<1> HIDE DEF parsed, E
<1>8. \A i \in 1..4 : Orderly(parsed[i])
  BY <1>2, <1>3, <1>7, EnvironmentResult
<1>9. Orderly(bad) /\ (~Failed(bad) <=> \A i \in 1..4 : ~Failed(parsed[i]))
  <2>1. Failed(bad) => \E i \in 1..4 : Failed(parsed[i]) /\ bad = parsed[i]
    BY <1>6, FirstFailureOf
  <2>2. (\E i \in 1..4 : Failed(parsed[i])) => Failed(bad)
    BY <1>6, FirstFailureOf
  <2> HIDE DEF bad
  <2>. QED  BY <1>8, <2>1, <2>2 DEF Orderly
<1> HIDE DEF bad
<1>10. ASSUME ~Failed(bad), NEW e \in E, NEW path \in Paths
       PROVE  Means(Follow(state'[e], ValueParts, path), Follow(at(file, e), JsonParts, path))
  <2> DEFINE c == CHOOSE i \in 1..4 : Environments[i] = e
  <2>1. c \in 1..4 /\ Environments[c] = e
    BY <1>4, Zenon
  <2>2. state'[e] = parsed[c]
    BY <1>1, <1>3, <1>10
  <2> HIDE DEF c
  <2>3. state'[e] = parseEnvironment(at(file, e)) /\ ~Failed(parseEnvironment(at(file, e)))
    BY <1>7, <1>9, <1>10, <2>1, <2>2
  <2>4. Means(Follow(parseEnvironment(at(file, e)), ValueParts, path),
              Follow(at(file, e), JsonParts, path))
    BY <1>2, <2>3, EnvironmentResult
  <2>. QED  BY <2>3, <2>4, Zenon
<1>. QED  BY <1>1, <1>9, <1>10, GoesOn DEF E

\* What has been found out about a document when a function begins.
GameStages == {"hasAllRequiredFields", "hasNoExtraFields", "validFieldValues", "parseConfig",
               "parseGameState"}
GameInvariant ==
    /\ pc \in GameStages => IsGame
    /\ pc = "parseRule" => call = "parseRule"
    /\ call \in {"parseGameSpecification", "parseRule"} => file \in GameFiles
    /\ IsGame => /\ pc \in GameStages \cup {"parsed", "rejected"} \cup FailureNames
                 /\ pc \in {"hasNoExtraFields", "validFieldValues"} => has_required(file)
                 /\ pc = "validFieldValues" => none_extra(file)
                 /\ pc \in {"parseConfig", "parseGameState", "parsed"} => IsSpecification(file)
                 /\ pc = "parseGameState" => config # EmptyMap /\ SetupsRead(config.setup)
                 /\ pc = "rejected" => ~IsSpecification(file)
                 /\ pc \in FailureNames => config # EmptyMap
    /\ ParsedFaithfully

\* Each step keeps it.
LEMMA GameStep == GameInvariant /\ ServerInvariant /\ [Next]_vars => GameInvariant'
<1> SUFFICES ASSUME GameInvariant, ServerInvariant, [Next]_vars PROVE GameInvariant'
  OBVIOUS
<1> USE DEF GameStages, FailureNames
<1>1. CASE load_config_from_json \/ parseServerConfig \/ main
  <2>1. /\ ~IsGame /\ UNCHANGED <<call, file>>
        /\ pc' \in {"main", "parseServerConfig", "rejected", "thrown", "exit", "listening"}
    <3>1. ~IsGame /\ UNCHANGED <<call, file>>
      BY <1>1 DEF GameInvariant, load_config_from_json, parseServerConfig, main
    <3>2. CASE main
      BY <3>1, <3>2, MainEnds
    <3>. QED  BY <1>1, <3>1, <3>2 DEF load_config_from_json, parseServerConfig
  <2>. QED  BY <2>1 DEF GameInvariant, IsGame, ParsedFaithfully
<1>2. CASE hasAllRequiredFields
  BY <1>2, ChecksAreExact, GameFileAssumption
     DEF hasAllRequiredFields, GameInvariant, IsGame, ParsedFaithfully
<1>3. CASE hasNoExtraFields
  BY <1>3, ChecksAreExact, GameFileAssumption
     DEF hasNoExtraFields, GameInvariant, IsGame, ParsedFaithfully
<1>4. CASE validFieldValues
  <2>1. file \in Json /\ IsGame /\ has_required(file) /\ none_extra(file)
    BY <1>4, GameFileAssumption DEF validFieldValues, GameInvariant, IsGame
  <2>2. UNCHANGED <<call, file>> /\ pc' = IF IsSpecification(file) THEN "parseConfig" ELSE "rejected"
    BY <1>4, <2>1, ChecksAreExact DEF validFieldValues
  <2>. QED  BY <2>1, <2>2 DEF GameInvariant, IsGame, ParsedFaithfully
<1>5. CASE parseConfig
  <2>1. IsGame /\ file \in GameFiles /\ IsSpecification(file) /\ UNCHANGED <<call, file, ndebug>>
    BY <1>5 DEF parseConfig, GameInvariant, IsGame
  <2>2. /\ config' # EmptyMap
        /\ (pc' = "parseGameState" /\ SetupsRead(config'.setup)) \/ pc' \in FailureNames
    BY <1>5, <2>1, ConfigParsed
  <2>3. SetupsRead(config'.setup) => SetupsRead(config.setup)'
    BY <2>1 DEF SetupsRead
  <2>. QED  BY <2>1, <2>2, <2>3 DEF GameInvariant, IsGame, ParsedFaithfully
<1>6. CASE parseGameState
  <2>1. /\ IsGame /\ file \in GameFiles /\ IsSpecification(file)
        /\ config # EmptyMap /\ SetupsRead(config.setup)
        /\ UNCHANGED <<call, file, ndebug, config>>
    BY <1>6 DEF parseGameState, GameInvariant, IsGame
  <2>2. CASE /\ pc' = "parsed"
             /\ \A e \in Range(Environments), path \in Paths :
                  Means(Follow(state'[e], ValueParts, path), Follow(at(file, e), JsonParts, path))
    <3>1. ParsedFaithfully'
      BY <2>1, <2>2, Zenon DEF ParsedFaithfully, SetupsRead
    <3>. QED  BY <2>1, <2>2, <3>1 DEF GameInvariant, IsGame
  <2>3. CASE pc' \in FailureNames
    BY <2>1, <2>3 DEF GameInvariant, IsGame, ParsedFaithfully
  <2>. QED  BY <1>6, <2>1, <2>2, <2>3, StateParsed
<1>7. CASE parseRule
  <2>1. call = "parseRule" /\ file \in GameFiles /\ UNCHANGED <<call, file>>
    BY <1>7 DEF parseRule, GameInvariant
  <2>2. pc' \in {"parsed"} \cup FailureNames
    BY <1>7, <2>1, RuleEnds
  <2>. QED  BY <2>1, <2>2 DEF GameInvariant, IsGame, ParsedFaithfully
<1>8. CASE UNCHANGED vars
  BY <1>8 DEF vars, GameInvariant, IsGame, ParsedFaithfully, SetupsRead
<1>. QED  BY <1>1, <1>2, <1>3, <1>4, <1>5, <1>6, <1>7, <1>8 DEF Next, Done

\* Each step keeps it.
LEMMA ServerStep == GameInvariant /\ ServerInvariant /\ [Next]_vars => ServerInvariant'
<1> SUFFICES ASSUME GameInvariant, ServerInvariant, [Next]_vars PROVE ServerInvariant'
  OBVIOUS
<1>1. CASE pc' \notin {"load_config_from_json", "parseServerConfig", "main", "listening"}
  BY <1>1 DEF ServerInvariant, ServesWhatIsConfigured
<1>2. CASE load_config_from_json
  <2>1. /\ file' = file
        /\ \/ pc' = "main" /\ config' \in {Error(Name("errno")), Error(Name("invalid_json"))}
           \/ pc' = "parseServerConfig" /\ file \notin {Unreadable, NotJson}
    BY <1>2 DEF load_config_from_json
  <2>2. file \in Json \cup {Unreadable, NotJson}
    BY <1>2, GameFileAssumption DEF load_config_from_json, ServerInvariant
  <2>. QED  BY <2>1, <2>2 DEF ServerInvariant, ServesWhatIsConfigured
<1>3. CASE parseServerConfig
  <2>1. pc' \in {"rejected", "thrown", "main"} /\ file' = file /\ file \in Json
    BY <1>3 DEF parseServerConfig, ServerInvariant
  <2>2. CASE pc' = "main"
    <3>1. ReadFrom(file, config')
      BY <1>3, <2>1, <2>2, ReadsConfig
    <3>. QED  BY <2>1, <2>2, <3>1 DEF ServerInvariant, ServesWhatIsConfigured
  <2>. QED  BY <1>1, <2>1, <2>2
<1>4. CASE main
  <2>1. CASE pc' = "listening"
    <3>1. ReadFrom(file, config)
      BY <1>4, <2>1, MainEnds
    <3>. QED  BY <1>4, <2>1, <3>1, Listens DEF ServerInvariant
  <2>. QED  BY <1>1, <1>4, <2>1, MainEnds
<1>5. CASE hasAllRequiredFields \/ hasNoExtraFields \/ validFieldValues
  <2>1. pc' \in {"hasNoExtraFields", "rejected", "validFieldValues", "thrown", "parseConfig"}
    BY <1>5 DEF hasAllRequiredFields, hasNoExtraFields, validFieldValues
  <2>. QED  BY <1>1, <2>1
<1>6. CASE parseConfig \/ parseGameState \/ parseRule
  <2>1. pc' \in {"parseGameState", "parsed"} \cup FailureNames
    <3>1. CASE parseConfig
      BY <3>1, ConfigParsed DEF parseConfig, GameInvariant, GameStages, IsGame
    <3>2. CASE parseGameState
      BY <3>2, StateParsed DEF parseGameState, GameInvariant, GameStages, IsGame
    <3>3. CASE parseRule
      BY <3>3, RuleEnds DEF parseRule, GameInvariant
    <3>. QED  BY <1>6, <3>1, <3>2, <3>3
  <2>. QED  BY <1>1, <2>1 DEF FailureNames
<1>7. CASE UNCHANGED vars
  BY <1>7 DEF vars, ServerInvariant, ServesWhatIsConfigured
<1>. QED  BY <1>2, <1>3, <1>4, <1>5, <1>6, <1>7 DEF Next, Done

\* It holds at the beginning.
LEMMA FileInit == Init => GameInvariant /\ ServerInvariant
BY DEF Init, GameInvariant, ServerInvariant, IsGame, ParsedFaithfully, ServesWhatIsConfigured,
       GameStages, FailureNames

-----------------------------------------------------------------------------
(* Results *)

\* What has been found out about the file at each step of main() and of the parsers
\* is true of it.
THEOREM FileInvariantHolds == Spec => [](GameInvariant /\ ServerInvariant)
BY FileInit, GameStep, ServerStep, PTL DEF Spec

\* A server that listens does so on the port of its file, if that is a port, and
\* with the page that its file names, whatever the file holds.
THEOREM ConfiguredServer == Spec => []ServesWhatIsConfigured
<1>1. ServerInvariant => ServesWhatIsConfigured
  BY DEF ServerInvariant
<1>. QED  BY <1>1, FileInvariantHolds, PTL

\* isValidGameSpec lets exactly the documents through that have the fields of its
\* tables with their types, and no exception ends it.
THEOREM ExactValidation == Spec => []ValidationIsExact
<1>1. GameInvariant => ValidationIsExact
  BY DEF GameInvariant, ValidationIsExact, FailureNames
<1>. QED  BY <1>1, FileInvariantHolds, PTL

\* The parser puts every value of a document, however deep, at its path of the state,
\* and every setup into the configuration.
THEOREM FaithfulParser == Spec => []ParsedFaithfully
<1>1. GameInvariant => ParsedFaithfully
  BY DEF GameInvariant
<1>. QED  BY <1>1, FileInvariantHolds, PTL
=============================================================================
