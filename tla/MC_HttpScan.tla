---------------------------- MODULE MC_HttpScan ----------------------------
(* Every payload of up to seven chunks; two lines are looked at; ints of a   *)
(* byte, of which a message's end may be too large a one.                    *)
EXTENDS HttpScan, TLC

MCWord == 256

MCLengths == "length: 120" :> 120 @@ "length: -1" :> -1

MCChunks == {<<"cr", "lf">>, <<"cr">>, <<"lf">>, <<"nul">>, <<"text">>} \cup {<<t>> : t \in DOMAIN MCLengths}
=============================================================================
