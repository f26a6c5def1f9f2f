------------------------------ MODULE MCCalls -------------------------------
(* Two contracts and an account without code or with a precompile. *)
EXTENDS Prediction

MCAccounts == {"c", "d", "e"}
MCInitial == [a \in MCAccounts |-> IF a = "e" THEN 0 ELSE 1]

All == MCAccounts \X Fields
(* All is predicted but what is in noReads and noWrites.                   *)
Tx(noReads, noWrites, e, fork) ==
    [reads |-> All \ noReads, writes |-> All \ (noReads \cup noWrites),
     kind |-> [a \in MCAccounts |-> IF a = "e" THEN e ELSE "contract"], fork |-> fork]

(* Everything is predicted; or not what is found out late: the balance that *)
(* a transfer adds to, the liveness that a destruction writes, the code    *)
(* hash after a transfer, a slot that is only read.                        *)
MCLoads ==
    {Tx({}, {}, "plain", "Byzantium"), Tx({}, {}, "precompile", "Berlin"),
     Tx({}, {}, "plain", "Cancun"),
     Tx({<<"e", "BALANCE">>}, {<<"d", "SLOT">>}, "plain", "Berlin"),
     Tx({}, {<<"d", "ALIVE">>}, "plain", "Byzantium"),
     Tx({<<"d", "CODEHASH">>}, {<<"c", "BALANCE">>}, "precompile", "Cancun")}
=============================================================================
