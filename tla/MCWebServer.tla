---------------------------- MODULE MCWebServer ----------------------------
(***************************************************************************)
(* A small instance of WebServer for TLC.  It bounds calls and connections,*)
(* of which the fairness says nothing: Second calls something only while   *)
(* one client at most has connected, so that three clients meet one caller *)
(* and two callers one client; and of the silent clients, who are alike,   *)
(* Late is the last to connect.                                            *)
(***************************************************************************)
EXTENDS WebServer, FiniteSets

CONSTANTS
  Second,   \* a caller
  Late      \* a silent client

Connected == {k \in Client : fd[k] # "none"}

Bound ==
  /\ cpc[Second] = "idle" \/ Cardinality(Connected) <= 1
  /\ Late \in Connected => Silent \subseteq Connected

MCNext == Next /\ Bound'

MCSpec == Init /\ [][MCNext]_vars /\ Fairness
=============================================================================
