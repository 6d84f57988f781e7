----------------------------- MODULE ObjectMapping ----------------------------
(* Typed values (data/type), and objects to trees and back (data/mapping).    *)
(* A wrapper holds a pointer and the type of what it points to; a mapper      *)
(* works with wrappers through the type's dispatcher, without knowing the C++ *)
(* type.  Data is abstract: a primitive or a string is its text.              *)
EXTENDS Integers, Sequences, SequencesExt

Type(class, params) ==
  [class |-> class, params |-> params, fields |-> <<>>, parent |-> <<>>,
   notNull |-> FALSE, names |-> <<>>]

VoidType == Type("Void", <<>>)
AnyType == Type("Any", <<>>)
Primitive(class) == Type(class, <<>>)
StringType == Primitive("String")
Int64Type == Primitive("Int64")
Float64Type == Primitive("Float64")
BooleanType == Primitive("Boolean")
Numbers == {"Int8", "Int32", "Int64", "UInt64", "Float64"}
Primitives == Numbers \cup {"Boolean"}

Vector(T) == Type("Vector", <<T>>)
List(T) == Type("List", <<T>>)
UnorderedSet(T) == Type("UnorderedSet", <<T>>)
PairList(K, V) == Type("PairList", <<K, V>>)
UnorderedMap(K, V) == Type("UnorderedMap", <<K, V>>)
Collections == {"Vector", "List", "UnorderedSet"}
Maps == {"PairList", "UnorderedMap"}

\* A DTO class: the properties of its parent come before its own.
Field(name, type, required, selector) ==
  [name |-> name, type |-> type, required |-> required, selector |-> selector]
Object(parent, own) ==
  [Type("Object", <<>>) EXCEPT
     !.fields = (IF parent = <<>> THEN <<>> ELSE parent[1].fields) \o own, !.parent = parent]

\* An enum: its interpretation type, the names of its entries and its constraint.
Enum(interpretation, names, notNull) ==
  [Type("Enum", <<interpretation>>) EXCEPT !.names = names, !.notNull = notNull]

extends(T, other) ==
  LET up[n \in 0 .. 3] == IF n = 0 THEN <<T>>
                          ELSE LET curr == up[n - 1] IN
                               IF curr = <<>> THEN <<>> ELSE curr[1].parent
  IN \E n \in 0 .. 3 : up[n] = <<other>>

-----------------------------------------------------------------------------
(* Wrappers.                                                                  *)

Null(T) == [type |-> T, null |-> TRUE, leaf |-> "", keys |-> <<>>, items |-> <<>>]
Leaf(T, text) == [Null(T) EXCEPT !.null = FALSE, !.leaf = text]
Compound(T, keys, items) ==
  [Null(T) EXCEPT !.null = FALSE, !.keys = keys, !.items = items]

\* createObject of the dispatchers.
createObject(T) ==
  Compound(T, <<>>, IF T.class = "Object"
                    THEN [i \in 1 .. Len(T.fields) |-> Null(T.fields[i].type)] ELSE <<>>)

\* ObjectWrapper::cast throws unless the types are related or one is Void.
CanCast(value, T) == extends(T, value.type) \/ T = VoidType \/ value.type = VoidType
cast(value, T) == [value EXCEPT !.type = T]

\* Any: a handle with a pointer and its type.
AnyOf(value) == Compound(AnyType, <<>>, <<value>>)
CanRetrieve(any, T) == any.null \/ extends(any.items[1].type, T)
retrieve(any, T) == IF any.null THEN Null(T) ELSE [any.items[1] EXCEPT !.type = T]

\* Insertion: a set drops what it has, an unordered map overwrites, a pair list appends.
addItem(collection, item) ==
  LET value == cast(item, collection.type.params[1]) IN
  IF collection.type.class = "UnorderedSet" /\ value \in Range(collection.items)
  THEN collection
  ELSE [collection EXCEPT !.items = Append(@, value)]

addPair(map, key, item) ==
  LET value == cast(item, map.type.params[2])
      at == {i \in 1 .. Len(map.keys) : map.keys[i] = key}
  IN IF map.type.class = "UnorderedMap" /\ at # {}
     THEN [map EXCEPT !.items = [i \in DOMAIN @ |-> IF i \in at THEN value ELSE @[i]]]
     ELSE [map EXCEPT !.keys = Append(@, key), !.items = Append(@, value)]

\* Properties: a name finds the property pushed last.  set() assigns a Void: the slot
\* takes the value's type with it.
FieldsNamed(T, name) == {i \in 1 .. Len(T.fields) : T.fields[i].name = name}
FieldIndex(T, name) == CHOOSE i \in FieldsNamed(T, name) :
                         \A j \in FieldsNamed(T, name) : j <= i
setProperty(object, i, value) == [object EXCEPT !.items[i] = value]

\* The enum interpreters, by name or by number.  An error is "ok" or a kind.
toInterpretation(value) ==
  IF value.null
  THEN [error |-> IF value.type.notNull THEN "not null" ELSE "ok",
        value |-> Null(value.type.params[1])]
  ELSE [error |-> "ok", value |-> Leaf(value.type.params[1], value.leaf)]

fromInterpretation(T, value) ==
  LET error == CASE value.type # T.params[1] -> "type mismatch"
                 [] value.type = T.params[1] /\ value.null ->
                      IF T.notNull THEN "not null" ELSE "ok"
                 [] value.type = T.params[1] /\ ~value.null ->
                      IF value.leaf \in Range(T.names) THEN "ok" ELSE "not found"
  IN [error |-> error,
      value |-> IF error = "ok" /\ ~value.null THEN Leaf(T, value.leaf) ELSE Null(T)]

-----------------------------------------------------------------------------
\* Every slot of a value holds a value of its declared type.
RECURSIVE Typed(_, _)
Typed(value, T) ==
  /\ value.type = T
  /\ ~value.null =>
       /\ T.class \in Collections =>
            \A i \in 1 .. Len(value.items) : Typed(value.items[i], T.params[1])
       /\ T.class \in Maps =>
            \A i \in 1 .. Len(value.items) : Typed(value.items[i], T.params[2])
       /\ T.class = "Object" =>
            \A i \in 1 .. Len(T.fields) : Typed(value.items[i], T.fields[i].type)
       /\ T.class = "Any" => Typed(value.items[1], value.items[1].type)
-----------------------------------------------------------------------------
(* Objects to trees and back (data/mapping): the two mappers call, for the    *)
(* class of a type, the method registered for it.  An outcome is "ok",        *)
(* "error" (the error stack has an entry) or "thrown" (an exception leaves).  *)
(* config is the record of the mappers' options; interpretations are not      *)
(* modelled.                                                                  *)

Node(type) == [type |-> type, leaf |-> "", keys |-> <<>>, items |-> <<>>]
NullNode == Node("NULL_VALUE")
LeafNode(type, text) == [Node(type) EXCEPT !.leaf = text]

\* TreeMap::operator[]: a key keeps its place, and a new one goes to the end.
putPair(node, key, child) ==
  LET at == {i \in 1 .. Len(node.keys) : node.keys[i] = key} IN
  IF node.type = "MAP" /\ at # {}
  THEN [node EXCEPT !.items = [i \in DOMAIN @ |-> IF i \in at THEN child ELSE @[i]]]
  ELSE [node EXCEPT !.keys = Append(@, key), !.items = Append(@, child)]
putItem(node, child) == [node EXCEPT !.items = Append(@, child)]

Ok(value) == [status |-> "ok", value |-> value]
Failed(status) == [status |-> status, value |-> Null(VoidType)]

\* The type a polymorphic field has, by another field: the code of the DTO.
selectType(object) ==
  LET kind == object.items[FieldIndex(object.type, "kind")] IN
  IF kind.leaf = "n" THEN Int64Type ELSE StringType
Polymorphic(field) == field.selector /\ field.type = AnyType

\* A step over a list: nothing happens after a failure.
After(outcome, Step(_)) == IF outcome.status = "ok" THEN Step(outcome.value) ELSE outcome

-----------------------------------------------------------------------------
(* ObjectToTreeMapper.                                                        *)

RECURSIVE objectToTree(_, _)

\* The value of a property, the one in the Any for a polymorphic field.
fieldValue(object, i) ==
  LET field == object.type.fields[i] IN
  IF ~Polymorphic(field) THEN Ok(object.items[i])
  ELSE IF CanRetrieve(object.items[i], selectType(object))
       THEN Ok(retrieve(object.items[i], selectType(object)))
       ELSE Failed("thrown")

KeptElement(value, config) ==
  ~value.null \/ config.includeNullFields \/ config.alwaysIncludeNullCollectionElements
KeptField(value, field, config) ==
  \/ ~value.null \/ config.includeNullFields
  \/ field.required /\ config.alwaysIncludeRequired

mapCollectionToTree(value, config) ==
  FoldLeft(LAMBDA outcome, item :
             After(outcome, LAMBDA node :
               IF ~KeptElement(item, config) THEN outcome
               ELSE After(objectToTree(item, config), LAMBDA child : Ok(putItem(node, child)))),
           Ok(Node("VECTOR")), value.items)

mapMapToTree(value, config) ==
  FoldLeft(LAMBDA outcome, i :
             After(outcome, LAMBDA node :
               IF ~KeptElement(value.items[i], config) THEN outcome
               ELSE After(objectToTree(value.items[i], config),
                          LAMBDA child : Ok(putPair(node, value.keys[i], child)))),
           Ok(Node(IF value.type.class = "UnorderedMap" THEN "MAP" ELSE "PAIRS")),
           [i \in 1 .. Len(value.items) |-> i])

mapObjectToTree(object, config) ==
  FoldLeft(LAMBDA outcome, i :
             After(outcome, LAMBDA node :
               After(fieldValue(object, i), LAMBDA value :
                 LET field == object.type.fields[i] IN
                 IF field.required /\ value.null THEN Failed("error")
                 ELSE IF ~KeptField(value, field, config) THEN outcome
                 ELSE After(objectToTree(value, config),
                            LAMBDA child : Ok(putPair(node, field.name, child))))),
           Ok(Node("MAP")), [i \in 1 .. Len(object.items) |-> i])

mapEnumToTree(value, config) ==
  LET inter == toInterpretation(value) IN
  IF inter.error # "ok" THEN Failed("error") ELSE objectToTree(inter.value, config)

objectToTree(value, config) ==
  LET class == value.type.class IN
  CASE class = "Enum" -> mapEnumToTree(value, config)
    [] class = "Void" -> Failed("error")
    [] class \notin {"Enum", "Void"} /\ value.null -> Ok(NullNode)
    [] ~value.null /\ class \in Primitives -> Ok(LeafNode(class, value.leaf))
    [] ~value.null /\ class = "String" -> Ok(LeafNode("STRING", value.leaf))
    [] ~value.null /\ class = "Any" -> objectToTree(value.items[1], config)
    [] ~value.null /\ class \in Collections -> mapCollectionToTree(value, config)
    [] ~value.null /\ class \in Maps -> mapMapToTree(value, config)
    [] ~value.null /\ class = "Object" -> mapObjectToTree(value, config)

-----------------------------------------------------------------------------
(* TreeToObjectMapper.                                                        *)

RECURSIVE treeToObject(_, _, _)

IsPrimitiveNode(node) == node.type \in {"INTEGER", "FLOAT", "BOOL"} \cup Primitives
IsChildrenNode(node) == node.type \in {"VECTOR", "MAP", "PAIRS"}

\* static_cast between the primitive types, on the texts in use.
Converted(text, class) ==
  CASE class = "Boolean" -> IF text \in {"0", "false"} THEN "false" ELSE "true"
    [] class # "Boolean" /\ text = "true" -> "1"
    [] class # "Boolean" /\ text = "false" -> "0"
    [] class = "Int8" /\ text = "300" -> "44"
    [] class \in Numbers \ {"Float64"} /\ text = "1.5" -> "1"
    [] OTHER -> text

guessedPrimitiveType(text) ==
  CASE text \in {"0", "1", "300"} -> "INT"
    [] text = "1.5" -> "FLOAT"
    [] text \in {"true", "false"} -> "BOOL"
    [] OTHER -> "NOT_PRIMITIVE"

guessType(node) ==
  CASE node.type \in {"INTEGER", "Int64"} -> Int64Type
    [] node.type \in {"FLOAT", "Float64"} -> Float64Type
    [] node.type \in {"BOOL", "Boolean"} -> BooleanType
    [] node.type \in Numbers \ {"Int64", "Float64"} -> Primitive(node.type)
    [] node.type = "STRING" -> StringType
    [] node.type = "VECTOR" -> Vector(AnyType)
    [] node.type \in {"MAP", "PAIRS"} -> PairList(StringType, AnyType)

mapPrimitive(node, T, config) ==
  CASE IsPrimitiveNode(node) -> Ok(Leaf(T, Converted(node.leaf, T.class)))
    [] node.type = "NULL_VALUE" -> Ok(Null(T))
    [] node.type = "STRING" /\ config.allowLexicalCasting
         /\ guessedPrimitiveType(node.leaf) # "NOT_PRIMITIVE" ->
           Ok(Leaf(T, Converted(node.leaf, T.class)))
    [] OTHER -> Failed("error")

mapString(node, config) ==
  CASE node.type = "STRING" -> Ok(Leaf(StringType, node.leaf))
    [] node.type = "NULL_VALUE" -> Ok(Null(StringType))
    [] IsPrimitiveNode(node) /\ config.allowLexicalCasting -> Ok(Leaf(StringType, node.leaf))
    [] OTHER -> Failed("error")

mapEnum(node, T, config) ==
  After(treeToObject(node, T.params[1], config), LAMBDA value :
    LET enum == fromInterpretation(T, value) IN
    IF enum.error = "ok" THEN Ok(enum.value) ELSE Failed("error"))

\* The children operator takes a VECTOR, MAP or PAIRS; items can be asked of all three.
mapCollection(node, T, config) ==
  IF ~IsChildrenNode(node) THEN Failed("thrown")
  ELSE FoldLeft(LAMBDA outcome, child :
                  After(outcome, LAMBDA collection :
                    After(treeToObject(child, T.params[1], config),
                          LAMBDA item : Ok(addItem(collection, item)))),
                Ok(createObject(T)), node.items)

\* Pairs can not be asked of a VECTOR.
mapMap(node, T, config) ==
  IF T.params[1] # StringType THEN Failed("error")
  ELSE IF ~IsChildrenNode(node) \/ (node.type = "VECTOR" /\ node.items # <<>>)
  THEN Failed("thrown")
  ELSE FoldLeft(LAMBDA outcome, i :
                  After(outcome, LAMBDA map :
                    After(treeToObject(node.items[i], T.params[2], config),
                          LAMBDA item : Ok(addPair(map, node.keys[i], item)))),
                Ok(createObject(T)), [i \in 1 .. Len(node.items) |-> i])

\* One child of the tree, the polymorphic fields left for later.
mapField(object, key, child, config) ==
  LET T == object.type IN
  IF FieldsNamed(T, key) = {}
  THEN IF config.allowUnknownFields THEN Ok(object) ELSE Failed("error")
  ELSE LET i == FieldIndex(T, key) IN
       IF Polymorphic(T.fields[i]) THEN Ok(object)
       ELSE After(treeToObject(child, T.fields[i].type, config), LAMBDA value :
              IF T.fields[i].required /\ value.null THEN Failed("error")
              ELSE Ok(setProperty(object, i, value)))

mapPolymorph(object, key, child, config) ==
  LET T == object.type IN
  IF FieldsNamed(T, key) = {} \/ ~Polymorphic(T.fields[FieldIndex(T, key)]) THEN Ok(object)
  ELSE LET i == FieldIndex(T, key) IN
       After(treeToObject(child, selectType(object), config), LAMBDA value :
         IF T.fields[i].required /\ value.null THEN Failed("error")
         ELSE Ok(setProperty(object, i, AnyOf(value))))

mapObject(node, T, config) ==
  LET Over(outcome, Map(_, _, _, _)) ==
        FoldLeft(LAMBDA o, i : After(o, LAMBDA object :
                   Map(object, node.keys[i], node.items[i], config)),
                 outcome, [i \in 1 .. Len(node.items) |-> i])
  IN IF ~IsChildrenNode(node) \/ (node.type = "VECTOR" /\ node.items # <<>>)
     THEN Failed("thrown")
     ELSE Over(Over(Ok(createObject(T)), mapField), mapPolymorph)

mapAny(node, config) ==
  IF node.type = "NULL_VALUE" THEN Ok(Null(AnyType))
  ELSE After(treeToObject(node, guessType(node), config), LAMBDA value : Ok(AnyOf(value)))

treeToObject(node, T, config) ==
  CASE T.class \in Primitives -> mapPrimitive(node, T, config)
    [] T.class = "String" -> mapString(node, config)
    [] T.class = "Enum" -> mapEnum(node, T, config)
    [] T.class = "Any" -> mapAny(node, config)
    [] T.class \in Collections \cup Maps \cup {"Object"} /\ node.type = "NULL_VALUE" ->
         Ok(Null(T))
    [] T.class \in Collections /\ node.type # "NULL_VALUE" -> mapCollection(node, T, config)
    [] T.class \in Maps /\ node.type # "NULL_VALUE" -> mapMap(node, T, config)
    [] T.class = "Object" /\ node.type # "NULL_VALUE" -> mapObject(node, T, config)
    [] T.class = "Void" -> Failed("error")
=============================================================================
