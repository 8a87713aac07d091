--------------------------- MODULE MCApplication ---------------------------
(***************************************************************************)
(* What an application calls: a SaxParser, as in MCSaxSession, or the      *)
(* attributes of a document and serialize, as in MCSerializer.  The two    *)
(* share no state, so each is looked at while the other is as it started:  *)
(* documents are edited and written before any call of the SaxParser, and  *)
(* these calls are made beside one document only.                          *)
(***************************************************************************)
EXTENDS MCSaxSession, MCSerializer

BesideTheDocument == pc = "start" /\ nodes = <<Element(0, Name(Plain("e"), ""), <<>>)>>

BesideTheSession == outcome = "none"

ApplicationInit == SessionInit /\ Init

ApplicationNext ==
    \/ BesideTheDocument /\ SessionNext /\ UNCHANGED vars
    \/ BesideTheSession /\ Next /\ UNCHANGED session_vars

ApplicationSpec == ApplicationInit /\ [][ApplicationNext]_<<session_vars, vars>>
=============================================================================
