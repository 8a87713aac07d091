----------------------------- MODULE SaxSession -----------------------------
(***************************************************************************)
(* class SaxParser of sax.h and xmlparser.cpp: parse, feed and finish.     *)
(* feed collects bytes, finish parses what was collected.  The handler's   *)
(* callbacks may call the same SaxParser again, so parses nest: calls is   *)
(* the stack of those running.  A parse reads a decoded copy made when it  *)
(* starts, and may throw at any point; ParserCore has what it does inside. *)
(***************************************************************************)
EXTENDS Integers, SequencesExt

CONSTANTS
    Bytes,
    Chunks,               \* what may be passed to feed and parse
    max_document_bytes,
    MaxNesting            \* bound: parses running at once

ASSUME SessionAssumption ==
    /\ Chunks \subseteq Seq(Bytes)
    /\ max_document_bytes \in Nat
    /\ MaxNesting \in Nat

VARIABLES
    buffer,       \* buffer_
    finished,     \* finished_
    calls,        \* parses running: [xml, finishing]
    accepted,     \* history: the bytes feed has taken, in order
    spent,        \* history: whether a finish has returned
    outcome       \* how the last call of the application ended

session_vars == <<buffer, finished, calls, accepted, spent, outcome>>

SessionInit ==
    /\ buffer = <<>>
    /\ finished = FALSE
    /\ calls = <<>>
    /\ accepted = <<>>
    /\ spent = FALSE
    /\ outcome = "none"

Refuse(kind) == outcome' = kind /\ UNCHANGED <<buffer, accepted>>

\* The mistake of measuring the chunk alone.
Fits_alone(chunk) == Len(chunk) <= max_document_bytes

Fits(chunk) == Len(buffer) + Len(chunk) <= max_document_bytes

feed(chunk) ==
    /\ \/ finished /\ Refuse("Unsupported")
       \/ ~finished /\ ~Fits(chunk) /\ Refuse("ResourceLimit")
       \/ /\ ~finished /\ Fits(chunk)
          /\ buffer' = buffer \o chunk
          /\ accepted' = accepted \o chunk
          /\ outcome' = "returned"
    /\ UNCHANGED <<finished, calls, spent>>

\* parse_xml_document begins by decoding its input, which may throw: always
\* if there is none or too much of it.
Begin(xml, finishing) ==
    \/ outcome' = "thrown" /\ UNCHANGED calls
    \/ /\ xml # <<>> /\ Len(xml) <= max_document_bytes /\ Len(calls) < MaxNesting
       /\ calls' = Append(calls, [xml |-> xml, finishing |-> finishing])
       /\ outcome' = "running"

parse(xml) ==
    /\ Begin(xml, FALSE)
    /\ UNCHANGED <<buffer, finished, accepted, spent>>

\* The mistake of leaving the parser open to feed.
finish_unsealed ==
    /\ Begin(buffer, TRUE)
    /\ UNCHANGED <<buffer, finished, accepted, spent>>

finish ==
    /\ finished' = TRUE
    /\ Begin(buffer, TRUE)
    /\ UNCHANGED <<buffer, accepted, spent>>

\* The innermost parse returns; finish then clears the buffer.
return ==
    /\ calls # <<>>
    /\ calls' = Front(calls)
    /\ buffer' = IF Last(calls).finishing THEN <<>> ELSE buffer
    /\ spent' = (spent \/ Last(calls).finishing)
    /\ outcome' = "returned"
    /\ UNCHANGED <<finished, accepted>>

\* The mistake of clearing the buffer on the way out of an exception, too.
throw_clearing ==
    /\ calls # <<>>
    /\ calls' = Front(calls)
    /\ buffer' = IF Last(calls).finishing THEN <<>> ELSE buffer
    /\ outcome' = "thrown"
    /\ UNCHANGED <<finished, accepted, spent>>

\* The innermost parse throws, or a callback it made does.
throw ==
    /\ calls # <<>>
    /\ calls' = Front(calls)
    /\ outcome' = "thrown"
    /\ UNCHANGED <<buffer, finished, accepted, spent>>

SessionNext ==
    \/ \E chunk \in Chunks : feed(chunk)
    \/ \E xml \in Chunks : parse(xml)
    \/ finish
    \/ return
    \/ throw

SessionSpec == SessionInit /\ [][SessionNext]_session_vars

-----------------------------------------------------------------------------
(* Properties.                                                              *)

\* The buffer is within the limit, and parses that run were let in by it.
TypeOK ==
    /\ buffer \in Seq(Bytes) /\ Len(buffer) <= max_document_bytes
    /\ finished \in BOOLEAN
    /\ calls \in Seq([xml : Seq(Bytes), finishing : BOOLEAN])
    /\ accepted \in Seq(Bytes)
    /\ spent \in BOOLEAN
    /\ outcome \in {"none", "returned", "running", "thrown", "Unsupported", "ResourceLimit"}

\* Invariant: every finish that runs, a retry of one that failed and one
\* called from a callback of another included, parses all that feed has
\* accepted and nothing else, and nothing is accepted while it runs.
FinishParsesWhatWasAccepted ==
    \A i \in DOMAIN calls : calls[i].finishing => calls[i].xml = accepted

\* Invariant: the bytes accepted stay in the buffer until a finish returns,
\* exceptions or not, and are gone from then on.
KeptUntilFinished == buffer = IF spent THEN <<>> ELSE accepted

\* Action property: "SaxParser cannot be reused after finish": no parse
\* starts once finish has been called.
NotReusedAfterFinish == [][finished => Len(calls') <= Len(calls)]_session_vars
=============================================================================
