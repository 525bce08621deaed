------------------------------ MODULE MCUdsClient ------------------------------
(* Instances of UdsClient: a thread that unlocks with a key_fn, and one beside it. *)
EXTENDS UdsClient, TLC

CONSTANTS unlocker, other, a, b, n, i

InOrder == <<a, b, n>>

Script(uses, first, second) ==
    [uses |-> uses, calls |-> (unlocker :> first) @@ (other :> second), runs |-> 2, places |-> {"here"}]

\* A call inside the key_fn, or after it, that would spoil the seed, and the other thread's beside it.
Unlocking ==
    {Script({a}, <<"access", inside>>, <<"seed">>) : inside \in {"access", "seed", "retarget"}}
        \cup {Script({a}, <<"access", "exchange">>, <<"state">>)}

\* Two clients, taken together by one thread and in turn by a key_fn.
Together ==
    {[Script({a, b}, <<"access", inside>>, <<"functional">>) EXCEPT !.runs = 1] : inside \in {"exchange", "functional_seed"}}

\* Reading and writing by a node's layout, and settings stated on it.
Described ==
    {[Script({n}, <<call>>, <<beside>>) EXCEPT !.places = {"here", "there"}] :
        call \in {"read", "write"}, beside \in {"state", "keep_alive", "write"}}

\* A raw ISO-TP channel, received from and sent on.
Raw == {Script({i}, <<"recv">>, <<"send">>)}

\* A flash, and another thread's call and stop during it.
Flashed == {Script({a}, <<"flash">>, <<"exchange">>)}

Library == Unlocking \cup Together \cup Described \cup Raw \cup Flashed
================================================================================
