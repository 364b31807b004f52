---------------------------- MODULE MC_Registry ----------------------------
(* Files of up to three entries over five libraries: the two of the release, *)
(* one without s2j, one with s2j alone, one that serves an unknown prefix,   *)
(* and a sixth that dlopen does not open; a buffer of ten bytes.             *)
EXTENDS Registry, TLC

All(f) == {<<f, s>> : s \in Symbols}

MCExports ==
     "liboicq" :> All("oicq")
  @@ "libhttp" :> All("http")
  @@ "libmute" :> All("http") \ {<<"http", "s2j">>}
  @@ "libbare" :> {<<"oicq", "s2j">>}
  @@ "libdns"  :> All("dns")

Entry(f, l) == [func |-> f, lib |-> l]

Entries == {Entry("oicq", "liboicq"), Entry("http", "libhttp"), Entry("http", "libmute"),
            Entry("oicq", "libbare"), Entry("http", "liboicq"), Entry("ftp", "libftp"),
            Entry("dns", "libdns"), Entry("oicq", NULL), Entry(NULL, "libhttp")}

Files == UNION {[1..n -> Entries] : n \in 0..3}

MaxBytes == 10

File(size, mark, close, e) ==
  [present |-> TRUE, size |-> size, mark |-> mark, close |-> close, entries |-> e]

(* Shapes of a file, for a few of them: it just fits, is one byte too long,  *)
(* has a byte 0xFF behind, in or instead of the array, never ends.           *)
Shapes == {<<10, 10, 10>>, <<10, 10, 8>>, <<11, 11, 8>>, <<11, 10, 9>>, <<12, 9, 8>>,
           <<9, 5, 9>>, <<9, 0, 9>>, <<10, 10, 11>>, <<12, 10, 11>>, <<0, 0, 1>>}

Release == <<Entry("oicq", "liboicq"), Entry("http", "libhttp")>>

MCConfigs == {[File(9, 9, 9, <<>>) EXCEPT !.present = FALSE]}
             \cup {File(h[1], h[2], h[3], e) : h \in Shapes,
                    e \in {Release, <<Entry("ftp", "libftp"), Entry("http", "libhttp")>>}}
             \cup {File(9, 9, 9, e) : e \in Files}
=============================================================================
