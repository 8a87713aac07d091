------------------------- MODULE MCEntityExpansion -------------------------
(***************************************************************************)
(* Every way to declare two entities with texts from a small menu, and a   *)
(* third that doubles the first: plain and growing texts, references       *)
(* backwards, forwards and to oneself, undeclared ones, and texts that are *)
(* refused; and two that are nothing but references to each other.         *)
(***************************************************************************)
EXTENDS EntityExpansion

Piece(kind, name, bytes) == [kind |-> kind, name |-> name, bytes |-> bytes]
Byte(b) == Piece("byte", "a", <<b>>)
Character == Piece("character", "a", <<"w">>)
Entity(n) == Piece("entity", n, <<>>)

MCEntityNames == {"a", "b", "c"}

EntityTexts ==
    {<<>>,
     <<Byte("x"), Byte("x"), Byte("y"), Byte("x")>>,
     <<Character, Byte("y"), Byte("x")>>,
     <<Entity("a"), Byte("y"), Byte("x"), Byte("y")>>,
     <<Byte("x"), Entity("b"), Byte("y")>>,
     <<Entity("a"), Entity("b")>>,
     <<Byte("x"), Piece("truncated", "a", <<>>)>>,
     <<Piece("invalid", "a", <<>>)>>}

Doubling == <<Entity("a"), Entity("a")>>

Mutual == [n \in {"a", "b"} |-> IF n = "a" THEN <<Entity("b")>> ELSE <<Entity("a")>>]

MCEntityTables ==
    {[n \in {"a", "b", "c"} |-> IF n = "a" THEN t ELSE IF n = "b" THEN u ELSE Doubling] :
        t, u \in EntityTexts}
    \cup {[n \in {"a", "c"} |-> IF n = "a" THEN t ELSE Doubling] : t \in EntityTexts}
    \cup {Mutual}
=============================================================================
