----------------------------- MODULE Namespaces -----------------------------
(***************************************************************************)
(* Qualified names and namespace scopes of parser_core.cpp.                *)
(*                                                                         *)
(* A raw name is a record [form, prefix, local]: "plain" names hold no     *)
(* colon (prefix is ""), "prefixed" names hold one colon with text on both *)
(* sides, and every other use of colons is "illformed".  A scope is the    *)
(* std::map an element contributes: a function from declared prefixes ("") *)
(* is the default namespace) to URIs, where "" is the empty URI.           *)
(***************************************************************************)
EXTENDS Integers, Sequences

XmlUri == "http://www.w3.org/XML/1998/namespace"

Plain(l) == [form |-> "plain", prefix |-> "", local |-> l]
Prefixed(p, l) == [form |-> "prefixed", prefix |-> p, local |-> l]

\* "xmlns" itself and every name that starts with "xmlns:".
is_namespace_declaration(q, mode) ==
    /\ mode = "Enabled"
    /\ \/ q = Plain("xmlns")
       \/ q.prefix = "xmlns"

DeclaredPrefix(q) == IF q.prefix = "xmlns" THEN q.local ELSE ""

DeclarationsOf(attributes, p, mode) ==
    {i \in DOMAIN attributes : /\ is_namespace_declaration(attributes[i].name, mode)
                               /\ DeclaredPrefix(attributes[i].name) = p}

\* The last attribute that declares a prefix gives its URI ("xmlns" and
\* "xmlns:" both declare "").
collect_namespace_declarations(attributes, mode) ==
    LET declared == {p \in {DeclaredPrefix(attributes[i].name) : i \in DOMAIN attributes} :
                        DeclarationsOf(attributes, p, mode) # {}}
    IN  [p \in declared |->
            LET last == CHOOSE i \in DeclarationsOf(attributes, p, mode) :
                            \A j \in DeclarationsOf(attributes, p, mode) : j <= i
            IN  attributes[last].value]

Declaring(p, scopes) == {i \in DOMAIN scopes : p \in DOMAIN scopes[i]}

Innermost(S) == CHOOSE i \in S : \A j \in S : j <= i

\* The mistake of letting the outermost declaration win.
lookup_namespace_outermost(p, scopes) ==
    IF p = "xml" THEN XmlUri
    ELSE IF Declaring(p, scopes) = {} THEN ""
    ELSE scopes[CHOOSE i \in Declaring(p, scopes) : \A j \in Declaring(p, scopes) : i <= j][p]

lookup_namespace(p, scopes) ==
    IF p = "xml" THEN XmlUri
    ELSE IF Declaring(p, scopes) = {} THEN ""
    ELSE scopes[Innermost(Declaring(p, scopes))][p]

\* resolve_name fails ("invalid namespace-qualified name", "undeclared
\* namespace prefix") exactly on the names that are not Resolvable.
Resolvable(q, scopes, mode) ==
    \/ mode = "Disabled"
    \/ q.form = "plain"
    \/ /\ q.form = "prefixed"
       /\ lookup_namespace(q.prefix, scopes) # "" \/ q.prefix = "xml"

resolve_name(q, is_element, scopes, mode) ==
    IF mode = "Disabled" THEN [uri |-> "", local_name |-> q, qualified_name |-> q]
    ELSE IF q.form = "plain"
    THEN [uri |-> IF is_element THEN lookup_namespace("", scopes) ELSE "",
          local_name |-> q, qualified_name |-> q]
    ELSE [uri |-> lookup_namespace(q.prefix, scopes),
          local_name |-> Plain(q.local), qualified_name |-> q]

ExpandedName(n) == <<n.uri, n.local_name>>
=============================================================================
