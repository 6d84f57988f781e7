---------------------------- MODULE LazyStringMap ----------------------------
(* data::share::LazyStringMapTemplate: strings that are parts of a message's *)
(* text until they are asked for, when each gets memory of its own.  Every   *)
(* operation is one step under the map's spin lock; an assignment locks both *)
(* maps, so that maps assigned to each other at once are left out.           *)
EXTENDS Integers, FiniteSets

CONSTANTS Texts,     \* keys and values as they stand in messages
          MaxPuts

VARIABLES multi,     \* LazyStringMultimap: of the template's map type
          entries,   \* m_map of each of two maps: pairs of labels, with the put they come from
          full,      \* m_fullyInitialized of each
          wanted,    \* what each should hold: the same pairs of texts
          puts,
          given      \* the last labels that were handed out as owners of their memory

lazyVars == <<multi, entries, full, wanted, puts, given>>

Maps == {"m", "n"}

\* A label that is a part of a text, or owns its memory; captureToOwnMemory leaves an owner
\* alone.
Label(text, own) == [text |-> text, own |-> own]
captureToOwnMemory(label) == Label(label.text, TRUE)

LazyInit ==
  /\ multi \in BOOLEAN
  /\ entries = [m \in Maps |-> {}] /\ full = [m \in Maps |-> TRUE]
  /\ wanted = [m \in Maps |-> {}]
  /\ puts = 0 /\ given = {}

Found(m, key) == {e \in entries[m] : e.key.text = key}

\* insert into the map, which for a plain one does nothing if the key is there.
Inserted(pairs, key, value) ==
  IF ~ multi /\ \E e \in pairs : e.key.text = key.text THEN pairs
  ELSE pairs \union {[key |-> key, value |-> value, put |-> puts']}

PutPair(m, pairs, key, value) ==
  /\ entries' = [entries EXCEPT ![m] = Inserted(pairs, key, value)]
  /\ full' = [full EXCEPT ![m] = FALSE]

Keep(m, dropped, key, value) ==
  LET rest == {w \in wanted[m] : ~ dropped \/ w.key # key.text} IN
  wanted' = [wanted EXCEPT ![m] =
    rest \union IF ~ multi /\ \E w \in rest : w.key = key.text THEN {}
                ELSE {[key |-> key.text, value |-> value.text, put |-> puts']}]

Argued(Op(_, _, _)) ==
  /\ puts < MaxPuts /\ puts' = puts + 1
  /\ \E m \in Maps, k, v \in Texts, own \in BOOLEAN : Op(m, Label(k, own), Label(v, own))
  /\ given' = {} /\ UNCHANGED multi

\* put and its form for those who hold no lock.
put(m, key, value) == PutPair(m, entries[m], key, value) /\ Keep(m, FALSE, key, value)

putIfNotExists(m, key, value) ==
  IF Found(m, key.text) = {}
  THEN put(m, key, value)
  ELSE UNCHANGED <<entries, full, wanted>>

\* All that the key has is erased.
putOrReplace(m, key, value) ==
  /\ PutPair(m, entries[m] \ Found(m, key.text), key, value)
  /\ Keep(m, TRUE, key, value)

-----------------------------------------------------------------------------
Captured(e) == [e EXCEPT !.value = captureToOwnMemory(@)]

\* get and getAsMemoryLabel: one value of the key gets memory of its own; the pair's key
\* does not, and the map's flag stays.
get(m, key) ==
  /\ IF Found(m, key) = {} THEN given' = {} /\ UNCHANGED entries
     ELSE \E e \in Found(m, key) :
            /\ entries' = [entries EXCEPT ![m] = (@ \ {e}) \union {Captured(e)}]
            /\ given' = {Captured(e).value}
  /\ UNCHANGED <<multi, full, wanted, puts>>

\* getAll captures every key and value, once.
getAll(m) ==
  /\ entries' = IF full[m] THEN entries
                ELSE [entries EXCEPT ![m] =
                        {[Captured(e) EXCEPT !.key = captureToOwnMemory(@)] : e \in @}]
  /\ full' = [full EXCEPT ![m] = TRUE]
  /\ given' = UNION {{e.key, e.value} : e \in entries'[m]}
  /\ UNCHANGED <<multi, wanted, puts>>

\* Constructed from another map or assigned it; this # &other.
copy(m, other) ==
  /\ full' = [full EXCEPT ![m] = full[other]]
  /\ entries' = [entries EXCEPT ![m] = entries[other]]
  /\ wanted' = [wanted EXCEPT ![m] = wanted[other]]
  /\ given' = {} /\ UNCHANGED <<multi, puts>>

\* Moved: the other map is left empty with its flag as it was.
move(m, other) ==
  /\ full' = [full EXCEPT ![m] = full[other]]
  /\ entries' = [entries EXCEPT ![m] = entries[other], ![other] = {}]
  /\ wanted' = [wanted EXCEPT ![m] = wanted[other], ![other] = {}]
  /\ given' = {} /\ UNCHANGED <<multi, puts>>

LazyNext ==
  \/ Argued(put) \/ Argued(putIfNotExists) \/ Argued(putOrReplace)
  \/ \E m \in Maps : \/ getAll(m)
                     \/ \E k \in Texts : get(m, k)
                     \/ \E other \in Maps \ {m} : copy(m, other) \/ move(m, other)

LazySpec == LazyInit /\ [][LazyNext]_lazyVars

-----------------------------------------------------------------------------
\* A map that says it is fully initialized has nothing left that is a part of a message,
\* and what get and getAll hand out owns its memory
\* (data/share/LazyStringMap.hpp, m_fullyInitialized in getAll, put and the assignments).
OwnMemory ==
  /\ \A m \in Maps : full[m] => \A e \in entries[m] : e.key.own /\ e.value.own
  /\ \A label \in given : label.own

\* Through copies, moves and captures every map holds the pairs that were put into it
\* (LazyStringMap.hpp, assignments, putIfNotExists and putOrReplace).
PairsKept ==
  \A m \in Maps :
    /\ {[key |-> e.key.text, value |-> e.value.text, put |-> e.put] : e \in entries[m]} = wanted[m]
    /\ Cardinality(entries[m]) = Cardinality(wanted[m])
=============================================================================
