---------------------------- MODULE MCClockProbe ----------------------------
(* ARMS of oc_probe.py, with and without the stock arm selected. *)
EXTENDS ClockProbe

MCARMS == <<[pl |-> 170, lgc |-> 0, lmc |-> 0], [pl |-> 190, lgc |-> 0, lmc |-> 0],
            [pl |-> 190, lgc |-> 2145, lmc |-> 0], [pl |-> 190, lgc |-> 2145, lmc |-> 7501],
            [pl |-> 190, lgc |-> 2400, lmc |-> 8000]>>
MCWants == {1..5, {1, 4}, {2}, {4, 5}}
MCServerArms == {{1, 4}, {1, 2, 5}}
==============================================================================
