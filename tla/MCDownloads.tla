----------------------------- MODULE MCDownloads -----------------------------
(***************************************************************************)
(* A query with one link and one with two, under a budget of requests.      *)
(***************************************************************************)
EXTENDS Downloads

CONSTANTS a, b, c

OneAndTwo == <<<<a>>, <<b, c>>>>
=============================================================================
