------------------------------ MODULE JsonMapper ------------------------------
(* json::ObjectMapper: a program writes an object as JSON, the text is        *)
(* carried to another program, which reads it as a type of its own.  Each     *)
(* was built with or without the paths that bypass the tree.                  *)
EXTENDS ObjectMapping

-----------------------------------------------------------------------------
(* Trees to JSON and back (json/Serializer, json/Deserializer).  A text is a  *)
(* sequence of tokens; escapes, digits and blanks are not its matter.  The    *)
(* reader looks at the token under the caret, as the code at the character.   *)

Token(kind) == [kind |-> kind, text |-> ""]
Str(text) == [kind |-> "string", text |-> text]
Num(text) == [kind |-> "number", text |-> text]
Word(text) == [kind |-> text, text |-> text]
Punctuation == {"{", "}", "[", "]", ",", ":"}

\* The token under the caret, "end" behind the last one.
At(text, pos) == IF pos <= Len(text) THEN text[pos].kind ELSE "end"

-----------------------------------------------------------------------------
(* Serializer: outcomes carry the text written so far.                        *)

Written(text) == [status |-> "ok", value |-> text]

RECURSIVE serialize(_, _)

\* serializeArray, serializeMap and serializePairs: null elements can be left out; the
\* comma depends on the index.
serializeChildren(node, config, open, close, Prefix(_)) ==
  After(FoldLeft(LAMBDA outcome, i :
                   After(outcome, LAMBDA text :
                     IF node.items[i].type = "NULL_VALUE" /\ ~config.includeNullElements
                     THEN outcome
                     ELSE After(serialize(node.items[i], config), LAMBDA child :
                            Written(text \o (IF i > 1 THEN <<Token(",")>> ELSE <<>>)
                                         \o Prefix(i) \o child))),
                 Written(<<Token(open)>>), [i \in 1 .. Len(node.items) |-> i]),
        LAMBDA text : Written(Append(text, Token(close))))

serialize(node, config) ==
  CASE node.type = "UNDEFINED" -> Failed("error")
    [] node.type = "NULL_VALUE" -> Written(<<Word("null")>>)
    [] node.type \in {"BOOL", "Boolean"} -> Written(<<Word(node.leaf)>>)
    [] node.type \in {"INTEGER", "FLOAT"} \cup Numbers -> Written(<<Num(node.leaf)>>)
    [] node.type = "STRING" -> Written(<<Str(node.leaf)>>)
    [] node.type = "VECTOR" -> serializeChildren(node, config, "[", "]", LAMBDA i : <<>>)
    [] node.type \in {"MAP", "PAIRS"} ->
         serializeChildren(node, config, "{", "}",
                           LAMBDA i : <<Str(node.keys[i]), Token(":")>>)

-----------------------------------------------------------------------------
(* Deserializer: a reading is an outcome and the caret's position after it.   *)

Reading(outcome, pos) == [outcome |-> outcome, pos |-> pos]
Refused(pos) == Reading(Failed("error"), pos)
Then(reading, Step(_, _)) ==
  IF reading.outcome.status = "ok" THEN Step(reading.outcome.value, reading.pos) ELSE reading
SkipComma(text, pos) == IF At(text, pos) = "," THEN pos + 1 ELSE pos

RECURSIVE deserialize(_, _), arrayItems(_, _, _), mapPairs(_, _, _)

\* A comma between two items is skipped where there is one.
arrayItems(text, pos, node) ==
  IF At(text, pos) = "]" THEN Reading(Ok(node), pos + 1)
  ELSE IF At(text, pos) = "end" THEN Refused(pos)
  ELSE Then(deserialize(text, pos), LAMBDA child, next :
         arrayItems(text, SkipComma(text, next), putItem(node, child)))

mapPairs(text, pos, node) ==
  IF At(text, pos) = "}" THEN Reading(Ok(node), pos + 1)
  ELSE IF At(text, pos) # "string" \/ At(text, pos + 1) # ":" THEN Refused(pos)
  ELSE Then(deserialize(text, pos + 2), LAMBDA child, next :
         mapPairs(text, SkipComma(text, next), putPair(node, text[pos].text, child)))

deserializeNumber(digits) ==
  LeafNode(IF digits = "1.5" THEN "FLOAT" ELSE "INTEGER", digits)

deserialize(text, pos) ==
  LET kind == At(text, pos)
      one(node) == Reading(Ok(node), pos + 1)
  IN CASE kind = "null" -> one(NullNode)
       [] kind = "{" -> mapPairs(text, pos + 1, Node("MAP"))
       [] kind = "[" -> arrayItems(text, pos + 1, Node("VECTOR"))
       [] kind = "string" -> one(LeafNode("STRING", text[pos].text))
       [] kind \in {"true", "false"} -> one(LeafNode("BOOL", kind))
       [] kind = "number" -> one(deserializeNumber(text[pos].text))
       [] kind \in {"}", "]", ",", ":", "end"} -> Refused(pos)
-----------------------------------------------------------------------------
(* The paths that bypass the tree (json/FastSerializer, FastDeserializer),    *)
(* which OATPP_USE_JSON_FAST_SERIALIZER and _DESERIALIZER turn on.            *)

-----------------------------------------------------------------------------
(* FastSerializer.                                                            *)

RECURSIVE fastSerialize(_, _, _)

fastEnum(value) ==
  LET inter == toInterpretation(value) IN
  CASE inter.error # "ok" -> Failed("error")
    [] inter.error = "ok" /\ inter.value.null -> Written(<<Word("null")>>)
    [] inter.error = "ok" /\ ~inter.value.null ->
         Written(<<IF inter.value.type = StringType THEN Str(inter.value.leaf)
                   ELSE Num(inter.value.leaf)>>)

\* Elements that are kept, with a comma before all but the first.
fastList(open, close, count, Kept(_), Element(_)) ==
  After(FoldLeft(LAMBDA outcome, i :
                   After(outcome, LAMBDA text :
                     IF ~Kept(i) THEN outcome
                     ELSE After(Element(i), LAMBDA element :
                            Written(text \o (IF Len(text) > 1 THEN <<Token(",")>> ELSE <<>>)
                                         \o element))),
                 Written(<<Token(open)>>), [i \in 1 .. count |-> i]),
        LAMBDA text : Written(Append(text, Token(close))))

Keyed(key, outcome) ==
  After(outcome, LAMBDA text : Written(<<Str(key), Token(":")>> \o text))

KeptFastField(outcome, field, config) ==
  \/ outcome.status # "ok"
  \/ ~outcome.value.null
  \/ config.includeNullFields \/ config.includeNullElements \/ field.required

fastObject(object, config) ==
  fastList("{", "}", Len(object.items),
    LAMBDA i : KeptFastField(fieldValue(object, i), object.type.fields[i], config),
    LAMBDA i : LET field == object.type.fields[i] IN
      After(fieldValue(object, i), LAMBDA value :
        IF field.required /\ value.null /\ ~config.alwaysIncludeRequired
        THEN Failed("error")
        ELSE Keyed(field.name, fastSerialize(value, config, ~value.null))))

fastCollection(value, config) ==
  fastList("[", "]", Len(value.items),
    LAMBDA i : KeptElement(value.items[i], config),
    LAMBDA i : fastSerialize(value.items[i], config, ~value.items[i].null))

fastMap(value, config) ==
  fastList("{", "}", Len(value.items),
    LAMBDA i : KeptElement(value.items[i], config),
    LAMBDA i : Keyed(value.keys[i],
                     fastSerialize(value.items[i], config, ~value.items[i].null)))

fastSerialize(value, config, skipNullCheck) ==
  LET class == value.type.class IN
  CASE class = "Enum" -> fastEnum(value)
    [] class # "Enum" /\ value.null /\ ~skipNullCheck -> Written(<<Word("null")>>)
    [] ~value.null /\ class = "String" -> Written(<<Str(value.leaf)>>)
    [] ~value.null /\ class \in Numbers -> Written(<<Num(value.leaf)>>)
    [] ~value.null /\ class = "Boolean" -> Written(<<Word(value.leaf)>>)
    [] ~value.null /\ class = "Any" -> fastSerialize(value.items[1], config, FALSE)
    [] ~value.null /\ class \in Collections -> fastCollection(value, config)
    [] ~value.null /\ class = "Object" -> fastObject(value, config)
    [] ~value.null /\ class \in Maps -> fastMap(value, config)

-----------------------------------------------------------------------------
(* FastDeserializer.  A type is a sequence: <<>> is the null pointer.         *)

Untyped == <<>>
Nothing == Null(VoidType)
WrapInAnyHandle(value, T) == IF T = <<AnyType>> THEN AnyOf(value) ELSE value

\* A number's text as a value of the class, and of another one where that has no case.
parseIntToType(text, T) ==
  IF T.class \in Numbers THEN Leaf(T, Converted(text, T.class))
  ELSE IF T.class = "String" THEN Leaf(StringType, text) ELSE Leaf(Int64Type, text)
parseFloatToType(text, T) ==
  IF T.class \in {"Float64", "Int32", "Int64"} THEN Leaf(T, Converted(text, T.class))
  ELSE IF T.class = "String" THEN Leaf(StringType, text) ELSE Leaf(Float64Type, text)

\* What cannot be the enum's leaves the result as it was.
ToEnum(value, T, otherwise) ==
  LET enum == fromInterpretation(T, value) IN
  IF enum.error = "ok" THEN enum.value ELSE otherwise

fastString(text, T, config) ==
  LET string == Leaf(StringType, text) IN
  CASE T = Untyped -> string
    [] T # Untyped /\ T[1].class = "Enum" -> ToEnum(string, T[1], string)
    [] T # Untyped /\ T[1].class \notin {"Enum", "String", "Any"}
         /\ config.allowLexicalCasting /\ guessedPrimitiveType(text) = "INT" ->
           parseIntToType(text, T[1])
    [] OTHER -> string

fastNull(T) ==
  IF T = Untyped \/ T[1].class # "Enum" THEN Ok(Nothing)
  ELSE LET enum == fromInterpretation(T[1], Null(T[1].params[1])) IN
       IF enum.error = "ok" THEN Ok(enum.value) ELSE Failed("error")

fastBoolean(word, T) ==
  IF T # Untyped /\ T[1].class = "Enum" THEN ToEnum(Leaf(BooleanType, word), T[1], Nothing)
  ELSE Leaf(BooleanType, word)

fastNumber(text, T) ==
  LET isFloat == text = "1.5" IN
  CASE T = Untyped -> Nothing
    [] T # Untyped /\ T[1].class = "Any" ->
         Leaf(IF isFloat THEN Float64Type ELSE Int64Type, text)
    [] T # Untyped /\ T[1].class = "Enum" ->
         ToEnum(IF isFloat THEN Leaf(Float64Type, text)
                ELSE parseIntToType(text, T[1].params[1]), T[1], Nothing)
    [] T # Untyped /\ T[1].class \notin {"Any", "Enum"} ->
         IF isFloat THEN parseFloatToType(text, T[1]) ELSE parseIntToType(text, T[1])

\* Where a value of no use ends: behind its closing bracket, other kinds not counted.
SkipNested(text, pos) ==
  LET open == text[pos].kind
      close == IF open = "{" THEN "}" ELSE "]"
      depth[i \in pos .. Len(text)] ==
        IF i = pos THEN 1
        ELSE depth[i - 1] + (CASE text[i].kind = open -> 1
                               [] text[i].kind = close -> -1
                               [] OTHER -> 0)
      ends == {i \in pos .. Len(text) : depth[i] = 0}
  IN (IF ends = {} THEN Len(text) ELSE CHOOSE i \in ends : \A j \in ends : i <= j) + 1

RECURSIVE fastValue(_, _, _, _), fastItems(_, _, _, _), fastPairs(_, _, _, _),
          fastFields(_, _, _, _, _)

fastPrimitive(text, pos, T, config) ==
  LET kind == At(text, pos)
      one(value) == Reading(Ok(WrapInAnyHandle(value, T)), pos + 1)
  IN CASE kind = "string" -> one(fastString(text[pos].text, T, config))
       [] kind = "null" -> IF fastNull(T).status = "ok" THEN one(fastNull(T).value)
                           ELSE Refused(pos)
       [] kind \in {"true", "false"} -> one(fastBoolean(kind, T))
       [] kind = "number" -> one(fastNumber(text[pos].text, T))
       [] OTHER -> Refused(pos)

fastItems(text, pos, collection, config) ==
  CASE At(text, pos) = "end" -> Refused(pos)
    [] At(text, pos) = "]" -> Reading(Ok(collection), pos + 1)
    [] OTHER ->
         LET T == collection.type.params[1] IN
         Then(fastValue(text, pos, <<T>>, config), LAMBDA item, next :
           IF CanCast(item, T)
           THEN fastItems(text, SkipComma(text, next), addItem(collection, item), config)
           ELSE Reading(Failed("thrown"), next))

fastPairs(text, pos, map, config) ==
  CASE At(text, pos) = "}" -> Reading(Ok(map), pos + 1)
    [] At(text, pos) # "}" /\ (At(text, pos) # "string" \/ At(text, pos + 1) # ":") ->
         Refused(pos)
    [] OTHER ->
         LET T == map.type.params[2] IN
         Then(fastValue(text, pos + 2, <<T>>, config), LAMBDA item, next :
           IF CanCast(item, T)
           THEN fastPairs(text, SkipComma(text, next),
                          addPair(map, text[pos].text, item), config)
           ELSE Reading(Failed("thrown"), next))

\* The type to read a property with: an Any without a selector is told by the first
\* character, and is not read as anything where that opens an object or an array.
parseType(object, field, kind) ==
  CASE field.type # AnyType -> <<field.type>>
    [] Polymorphic(field) -> <<selectType(object)>>
    [] field.type = AnyType /\ ~field.selector ->
         CASE kind.kind = "string" -> <<StringType>>
           [] kind.kind \in {"true", "false"} -> <<BooleanType>>
           [] kind.kind = "number" ->
                <<IF kind.text = "1.5" THEN Float64Type ELSE Int64Type>>
           [] OTHER -> Untyped

\* An Any property gets a handle, of the type that was looked for when it is null.
StoredAny(field, T, value) ==
  AnyOf(IF value.null /\ T # Untyped THEN Null(T[1]) ELSE value)

RequiredSet(object) ==
  \A i \in 1 .. Len(object.items) : object.type.fields[i].required => ~object.items[i].null

\* After a value the loop also ends where the text does.
fastFields(text, pos, object, expected, config) ==
  LET T == object.type
      finished(at) == IF RequiredSet(object) THEN Reading(Ok(object), at) ELSE Refused(at)
  IN CASE At(text, pos) = "}" -> finished(pos + 1)
       [] At(text, pos) = "end" -> IF At(text, pos - 1) \in {",", "{"} THEN Refused(pos)
                                   ELSE finished(pos)
       [] At(text, pos) \notin {"}", "end"}
            /\ (At(text, pos) # "string" \/ At(text, pos + 1) # ":") -> Refused(pos)
       [] OTHER ->
            LET key == text[pos].text
                inOrder == expected \in DOMAIN T.fields /\ T.fields[expected].name = key
                known == FieldsNamed(T, key) # {}
                i == IF inOrder THEN expected ELSE FieldIndex(T, key)
                next == IF inOrder THEN expected + 1 ELSE 0
            IN CASE known ->
                      LET field == T.fields[i]
                          type == IF At(text, pos + 2) = "end" THEN Untyped
                                  ELSE parseType(object, field, text[pos + 2])
                      IN Then(fastValue(text, pos + 2, type, config), LAMBDA value, at :
                           fastFields(text, SkipComma(text, at),
                             setProperty(object, i, IF field.type = AnyType
                                                    THEN StoredAny(field, type, value)
                                                    ELSE value), next, config))
                 [] ~known /\ ~config.allowUnknownFields -> Refused(pos)
                 [] ~known /\ config.allowUnknownFields ->
                      Then(fastValue(text, pos + 2, Untyped, config), LAMBDA value, at :
                        fastFields(text, SkipComma(text, at), object, next, config))

fastValue(text, pos, T, config) ==
  LET kind == At(text, pos)
      class == IF T = Untyped THEN "none" ELSE T[1].class
      wrapped(reading) ==
        Then(reading, LAMBDA value, at : Reading(Ok(AnyOf(value)), at))
      skipped == Reading(Ok(Nothing), SkipNested(text, pos))
  IN CASE kind = "{" /\ class = "Object" ->
            fastFields(text, pos + 1, createObject(T[1]), 1, config)
       [] kind = "{" /\ class \in Maps -> fastPairs(text, pos + 1, createObject(T[1]), config)
       [] kind = "{" /\ class = "Any" ->
            wrapped(fastPairs(text, pos + 1,
                              createObject(UnorderedMap(StringType, AnyType)), config))
       [] kind = "{" /\ class \notin Maps \cup {"Object", "Any"} -> skipped
       [] kind = "[" /\ class \in Collections ->
            fastItems(text, pos + 1, createObject(T[1]), config)
       [] kind = "[" /\ class = "Any" ->
            wrapped(fastItems(text, pos + 1, createObject(List(AnyType)), config))
       [] kind = "[" /\ class \notin Collections \cup {"Any"} -> skipped
       [] kind \notin {"{", "["} -> fastPrimitive(text, pos, T, config)
-----------------------------------------------------------------------------
(* The two programs and the document between them.                            *)

CONSTANTS Objects,          \* the wrappers that are written
          MapperConfigs,    \* the options of both mappers
          MaxDamage         \* tokens that can be lost on the way

VARIABLES fastSerializer,   \* built with OATPP_USE_JSON_FAST_SERIALIZER
          fastDeserializer, \* built with OATPP_USE_JSON_FAST_DESERIALIZER
          config,           \* the options both use
          variant,          \* the wrapper that is written
          text,             \* the document
          damage,           \* tokens it has lost
          written,          \* outcome of write: "no", "ok", "error" or "thrown"
          result            \* outcome of read, a sequence of at most one

jsonVars == <<fastSerializer, fastDeserializer, config, variant, text, damage, written,
              result>>

isBuiltinType(T) ==
  T.class \in Primitives \cup Collections \cup Maps
              \cup {"String", "Void", "Object", "Enum", "Any"}

\* write: by the tree or past it.
write(value, fast) ==
  IF fast /\ isBuiltinType(value.type) THEN fastSerialize(value, config, FALSE)
  ELSE After(objectToTree(value, config), LAMBDA tree : serialize(tree, config))

\* read: nothing looks at what follows the value.
read(document, T, fast) ==
  IF fast /\ isBuiltinType(T) THEN fastValue(document, 1, <<T>>, config).outcome
  ELSE LET tree == deserialize(document, 1).outcome IN
       After(tree, LAMBDA node : treeToObject(node, T, config))

JsonInit ==
  /\ fastSerializer \in BOOLEAN /\ fastDeserializer \in BOOLEAN
  /\ config \in MapperConfigs
  /\ variant \in Objects
  /\ text = <<>> /\ damage = 0 /\ written = "no" /\ result = <<>>

\* writeToString throws where the error stack has an entry: the caller has no text.
WriteToString ==
  /\ written = "no"
  /\ LET outcome == write(variant, fastSerializer) IN
     /\ written' = outcome.status
     /\ text' = IF outcome.status = "ok" THEN outcome.value ELSE <<>>
  /\ UNCHANGED <<fastSerializer, fastDeserializer, config, variant, damage, result>>

\* A token of the text is lost, or all that follow one.
LoseToken ==
  /\ written = "ok" /\ result = <<>> /\ damage < MaxDamage
  /\ \E i \in 1 .. Len(text) :
       text' \in {RemoveAt(text, i), SubSeq(text, 1, i - 1)}
  /\ damage' = damage + 1
  /\ UNCHANGED <<fastSerializer, fastDeserializer, config, variant, written, result>>

\* readFromString; the reader's class may be another one.
ReadFromString ==
  /\ written = "ok" /\ result = <<>>
  /\ \E other \in Objects :
       result' = <<[type |-> other.type, outcome |-> read(text, other.type, fastDeserializer)]>>
  /\ UNCHANGED <<fastSerializer, fastDeserializer, config, variant, text, damage, written>>

JsonNext == WriteToString \/ LoseToken \/ ReadFromString

JsonSpec == JsonInit /\ [][JsonNext]_jsonVars

-----------------------------------------------------------------------------
\* What is left of a value by a trip through a text: an Any loses its type, and null
\* elements may be left out.
RECURSIVE Carried(_, _)
Carried(value, kept) ==
  LET Each(items) == [i \in DOMAIN items |-> Carried(items[i], kept)]
      Keeps(item) == kept \/ ~item.null
      Guessed(item) ==
        CASE item.type.class \in {"Boolean", "String"} -> item
          [] item.type.class = "Float64" -> item
          [] item.type.class \in Numbers \ {"Float64"} -> Leaf(Int64Type, item.leaf)
          [] item.type.class \in Collections ->
               Compound(Vector(AnyType), <<>>,
                        [i \in 1 .. Len(item.items) |->
                           Carried(IF item.items[i].null THEN Null(AnyType)
                                   ELSE IF item.items[i].type = AnyType THEN item.items[i]
                                   ELSE AnyOf(item.items[i]), kept)])
          [] OTHER -> item
  IN CASE value.null -> value
       [] ~value.null /\ value.type = AnyType -> AnyOf(Guessed(value.items[1]))
       [] ~value.null /\ value.type.class \in Collections ->
            [value EXCEPT !.items = Each(SelectSeq(@, Keeps))]
       [] ~value.null /\ value.type.class \in Maps ->
            LET at == SelectSeq([i \in 1 .. Len(value.items) |-> i],
                                LAMBDA i : Keeps(value.items[i]))
            IN [value EXCEPT !.keys = [j \in DOMAIN at |-> value.keys[at[j]]],
                             !.items = [j \in DOMAIN at |-> Carried(value.items[at[j]], kept)]]
       [] OTHER -> [value EXCEPT !.items = Each(@)]

RECURSIVE Within(_)
Within(value) == {value} \cup UNION {Within(value.items[i]) : i \in 1 .. Len(value.items)}
HasNull(value) == \E v \in Within(value) : v.null
HasAny(value) == \E v \in Within(value) : v.type = AnyType
RepeatsKey(value) ==
  \E v \in Within(value) : v.type.class = "PairList" /\ ~IsInjective(v.keys)

ReadAs(T) == result # <<>> /\ result[1].type = T

\* What the mapper writes, it reads back as the same object, but for the types in an Any,
\* the nulls that were to be left out, and pairs of equal keys (json/ObjectMapper.cpp,
\* both ways by the tree).
RoundTrip ==
  (/\ ReadAs(variant.type) /\ damage = 0 /\ ~RepeatsKey(variant)
   /\ ~fastSerializer /\ ~fastDeserializer /\ config.includeNullElements) =>
    result[1].outcome = Ok(Carried(variant, config.includeNullFields
                                            \/ config.alwaysIncludeNullCollectionElements))

\* Both ways of writing give the same document, or both none, where the two kinds of
\* nulls are treated alike (json/FastSerializer.cpp).
FastWriteAgrees ==
  (/\ written # "no" /\ fastSerializer /\ ~RepeatsKey(variant)
   /\ config.includeNullFields = config.includeNullElements /\ ~config.alwaysIncludeRequired) =>
    LET tree == write(variant, FALSE) IN
    /\ written = "ok" <=> tree.status = "ok"
    /\ written = "ok" /\ damage = 0 => text = tree.value

\* Whatever the document has become and whoever wrote it: an object that the tree's way
\* hands out holds in each place a value of the type declared there
\* (TreeToObjectMapper.cpp).
ReadIsTyped ==
  (result # <<>> /\ ~fastDeserializer /\ result[1].outcome.status = "ok") =>
    Typed(result[1].outcome.value, result[1].type)

\* A whole document without nulls is read alike by both ways, where nothing is an Any
\* (json/FastDeserializer.cpp).
FastReadAgrees ==
  (/\ ReadAs(variant.type) /\ fastDeserializer /\ damage = 0
   /\ ~HasNull(variant) /\ ~HasAny(variant)) =>
    result[1].outcome = read(text, variant.type, FALSE)

\* What the mapper writes is JSON that it reads itself ("Serializes oatpp DTO object to
\* json", json/Serializer.hpp); the code breaks it where it leaves out a leading null.
ReadableText ==
  (ReadAs(variant.type) /\ damage = 0) => result[1].outcome.status = "ok"
=============================================================================
