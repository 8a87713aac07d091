--------------------------- MODULE SaxEventStream ---------------------------
(***************************************************************************)
(* What a SaxHandler is promised, whatever the document: callbacks arrive  *)
(* between start_document and end_document, elements nest, each            *)
(* end_element carries the name its start_element carried, there is one    *)
(* document element, characters and CDATA arrive only inside it, and       *)
(* nothing arrives once the parse has been abandoned by an exception.      *)
(***************************************************************************)
EXTENDS Integers, Sequences

CONSTANTS Names,       \* the QualifiedNames callbacks may carry
          NoName       \* the name of an event that carries none

VARIABLES phase,       \* "silent", "document" or "ended"
          path,        \* names of the elements started and not yet ended
          rooted,      \* whether the document element has been started
          alive,       \* FALSE once an exception has ended the parse
          event        \* the last callback: [kind, name]

vars == <<phase, path, rooted, alive, event>>

Event(k, n) == [kind |-> k, name |-> n]

Init ==
    /\ phase = "silent"
    /\ path = <<>>
    /\ rooted = FALSE
    /\ alive = TRUE
    /\ event = Event("none", NoName)

\* Every callback may throw, which abandons the parse.
Callback(k, n) ==
    /\ alive = TRUE
    /\ event' = Event(k, n)
    /\ alive' \in BOOLEAN

StartDocument ==
    /\ phase = "silent"
    /\ Callback("start_document", NoName)
    /\ phase' = "document"
    /\ UNCHANGED <<path, rooted>>

StartElement ==
    /\ phase = "document"
    /\ path = <<>> => ~rooted
    /\ \E n \in Names :
          /\ Callback("start_element", n)
          /\ path' = Append(path, n)
    /\ rooted' = TRUE
    /\ UNCHANGED phase

EndElement ==
    /\ path # <<>>
    /\ Callback("end_element", path[Len(path)])
    /\ path' = SubSeq(path, 1, Len(path) - 1)
    /\ UNCHANGED <<phase, rooted>>

CharacterData ==
    /\ path # <<>>
    /\ \E k \in {"characters", "cdata"} : Callback(k, NoName)
    /\ UNCHANGED <<phase, path, rooted>>

Misc ==
    /\ phase = "document"
    /\ \E k \in {"comment", "processing_instruction"} : Callback(k, NoName)
    /\ UNCHANGED <<phase, path, rooted>>

EndDocument ==
    /\ phase = "document"
    /\ rooted
    /\ path = <<>>
    /\ Callback("end_document", NoName)
    /\ phase' = "ended"
    /\ UNCHANGED <<path, rooted>>

\* A parse error: an exception without a callback.
Abandon ==
    /\ alive = TRUE
    /\ phase # "ended"
    /\ alive' = FALSE
    /\ UNCHANGED <<phase, path, rooted, event>>

Next ==
    \/ StartDocument
    \/ StartElement
    \/ EndElement
    \/ CharacterData
    \/ Misc
    \/ EndDocument
    \/ Abandon

Spec == Init /\ [][Next]_vars
=============================================================================
