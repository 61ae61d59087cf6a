---------------------------- MODULE MCWebServer ----------------------------
(***************************************************************************)
(* The web server of a router that has two neighbors, one of them linked   *)
(* to it through the other, or loses both; when only the router itself is  *)
(* left among the nodes no link has a parent.                              *)
(***************************************************************************)
EXTENDS WebServer

MCTables == {[rows |-> <<2, 1>>, linked |-> TRUE], [rows |-> <<0, 0>>, linked |-> TRUE],
             [rows |-> <<1, 0>>, linked |-> FALSE]}
=============================================================================
