----------------------------- MODULE Attributes -----------------------------
(***************************************************************************)
(* The attributes of an Element of dom.cpp: a vector that is meant to be a *)
(* map from expanded names, with a second way in by qualified name.  Names *)
(* are those of Namespaces, values sequences of characters.                *)
(***************************************************************************)
EXTENDS Namespaces, FiniteSetsExt

Attribute(uri, local, qname, value) ==
    [uri |-> uri, local_name |-> local, qualified_name |-> qname, value |-> value]

\* No two attributes of the vector have one expanded name.
AreDistinct(attributes) ==
    \A i, j \in DOMAIN attributes : ExpandedName(attributes[i]) = ExpandedName(attributes[j]) => i = j

\* The mistake of looking at the local name alone.
Matches_local(a, uri, local) == a.local_name = local

Matches(a, uri, local) == a.uri = uri /\ a.local_name = local

Matching(attributes, uri, local) ==
    {i \in DOMAIN attributes : Matches(attributes[i], uri, local)}

set_attribute_ns(attributes, uri, local, qname, value) ==
    LET found == Matching(attributes, uri, local)
        a == Attribute(uri, local, qname, value)
    IN  IF found = {} THEN Append(attributes, a)
        ELSE [attributes EXCEPT ![Min(found)] = a]

set_attribute(attributes, name, value) == set_attribute_ns(attributes, "", name, name, value)

get_attribute_ns(attributes, uri, local) ==
    LET found == Matching(attributes, uri, local)
    IN  IF found = {} THEN <<>> ELSE attributes[Min(found)].value

get_attribute(attributes, name) ==
    LET found == {i \in DOMAIN attributes : attributes[i].qualified_name = name}
    IN  IF found = {} THEN <<>> ELSE attributes[Min(found)].value
=============================================================================
