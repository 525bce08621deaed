-------------------------------- MODULE RunScope -------------------------------
(***************************************************************************)
(* What the Python package promises of a process's runs: one run at a time *)
(* (docs/scripting_python.md, class Project), each with a number of its    *)
(* own, and every call the library carries out is carried out in the run   *)
(* the object it was made by belongs to, on exactly what that object names *)
(* there.  Project.tla implements it with indexes, generations, run        *)
(* numbers and bus handles.                                                *)
(***************************************************************************)
EXTENDS Naturals

CONSTANTS
    Projects,   \* the Project objects of the process
    Nobody,     \* no project
    Nothing,    \* no call
    Things      \* what a call may name: a row and a message, a generator, ...

VARIABLES
    run,        \* whose run it is (Nobody between runs), and its number
    served      \* the call carried out in the last step: what it meant, and what it reached

Init ==
    /\ run = [project |-> Nobody, number |-> 0]
    /\ served = Nothing

\* A start: only when no run is on.
Begin(p) ==
    /\ run.project = Nobody
    /\ run' = [project |-> p, number |-> run.number + 1]
    /\ served' = Nothing

\* The end of a stop.
End ==
    /\ run.project # Nobody
    /\ run' = [run EXCEPT !.project = Nobody]
    /\ served' = Nothing

\* A call made in this run, carried out on what it means.
InRun(what) == [project |-> run.project, number |-> run.number, what |-> what]

Serve(what) ==
    /\ run.project # Nobody
    /\ served' = [meant |-> InRun(what), got |-> InRun(what)]
    /\ UNCHANGED run

\* Everything else: loads, opens, closes, waits and refusals.
Quiet == served' = Nothing /\ UNCHANGED run

Next ==
    \/ End \/ Quiet
    \/ \E p \in Projects : Begin(p)
    \/ \E what \in Things : Serve(what)

Spec == Init /\ [][Next]_<<run, served>>
================================================================================
