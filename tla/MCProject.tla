------------------------------- MODULE MCProject -------------------------------
(* An instance of Project: rows that move in their file, names that move in their list. *)
EXTENDS Project

\* A file that may have lost its first row when it is read again.
TwoRows == {<<"A", "B">>, <<"B">>}

\* What a run lists: one name, or another before it.
Moving == {<<"m">>, <<"n", "m">>}
================================================================================
