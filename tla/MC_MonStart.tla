---------------------------- MODULE MC_MonStart ----------------------------
(* Every command line of up to three options, whatever the stack had set;    *)
(* files and libraries of each outcome of the engine's start.                *)
EXTENDS MonStart, TLC

MCExports == "libhttp" :> {<<"http", s>> : s \in Symbols}

Entry(f, l) == [func |-> f, lib |-> l]
File(n, e) == [present |-> TRUE, size |-> n, mark |-> n, close |-> 9, entries |-> e]

MaxBytes == 10

MCConfigs == {[File(9, <<>>) EXCEPT !.present = FALSE], File(8, <<>>), File(11, <<>>),
              File(9, <<Entry("http", "libhttp"), Entry("ftp", "libftp")>>)}

AnyFlags == SUBSET Flags

Options == {[opt |-> o, fits |-> TRUE] : o \in Flags \cup {"version"}}
           \cup {[opt |-> o, fits |-> FALSE] : o \in Flags}

MCCommandLines == UNION {[1..n -> Options] : n \in 0..3}
=============================================================================
