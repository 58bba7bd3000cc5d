------------------------------- MODULE Prices -------------------------------
(* modelmeta/modelmeta.go: the table of prices embedded in the binary, and   *)
(* its lookup, which also takes a name that is part of an entry's or has an  *)
(* entry's as a part. Prices are whole numbers per token, in a unit small    *)
(* enough; a table entry is [name, input, output, vision].                   *)
EXTENDS SequencesExt, FiniteSetsExt, Integers

CONSTANTS data,             \* data.json: the entries, in the file's order
          PartOf,           \* pairs of names: the first occurs in the second
          Alphabet          \* the names of the entries, in string order

names == {data[n].name : n \in DOMAIN data}

ASSUME PricesAssumption ==
    /\ data \in Seq([name : STRING, input : Nat, output : Nat, vision : BOOLEAN]) \ {<<>>}
    /\ Alphabet \in Seq(names) /\ IsInjective(Alphabet) /\ ToSet(Alphabet) = names

\* Load: of two entries with one name the later replaces the earlier.
Load(entries) ==
    [name \in {entries[n].name : n \in DOMAIN entries} |->
        entries[Max({n \in DOMAIN entries : entries[n].name = name})]]

table == Load(data)

\* Lookup: the entry of that name or, as a map is walked in any order, any one
\* that contains the name or is contained in it; the empty set if there is none.
Lookup(name) ==
    IF name \in DOMAIN table THEN {table[name]}
    ELSE {table[k] : k \in {k \in DOMAIN table : {<<k, name>>, <<name, k>>} \cap PartOf # {}}}

Price(m, prompt, completion) == m.input * prompt + m.output * completion

\* Cost: what a call may be said to cost, 0 where the table knows no price.
Costs(name, prompt, completion) ==
    IF Lookup(name) = {} THEN {0} ELSE {Price(m, prompt, completion) : m \in Lookup(name)}

\* All: cheapest input first, ties by name.
Letter(name) == CHOOSE n \in DOMAIN Alphabet : Alphabet[n] = name
Cheaper(a, b) == \/ table[a].input < table[b].input
                 \/ table[a].input = table[b].input /\ Letter(a) < Letter(b)
Place(a) == 1 + Cardinality({b \in DOMAIN table : Cheaper(b, a)})
All == [p \in 1 .. Cardinality(DOMAIN table) |-> CHOOSE a \in DOMAIN table : Place(a) = p]
=============================================================================
