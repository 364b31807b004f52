--------------------------- MODULE MC_HttpDissect ---------------------------
(* Messages of every outcome of the scans; heads of up to three lines, of    *)
(* which two are looked at; status strings with and without padding.         *)
EXTENDS HttpDissect, TLC

MCWord == 65536

P(w, n) == [word |-> w, len |-> n]

Lines == {<<P("other", 9)>>, <<P("method", 3), P("other", 1)>>, <<P("method", 3), P("other", 8), P("other", 8)>>,
          <<P("other", 3), P("other", 8), P("other", 8)>>, <<P("http", 8), P("other", 3)>>,
          <<P("http", 8), P("other", 3), P("other", 8)>>, <<P("http", 8), P("other", 3), P("other", 2)>>,
          <<P("http", 8), P("other", 3), P("other", 0)>>}

H(f, n) == [name |-> f, len |-> n]
HeadLines == {H("host", 7), H("user_agent", 8), H("server", 7), H("content_len", 1), H("other", 3)}
Heads == UNION {[1..n -> HeadLines] : n \in 0..3}

Message(n, le, p, h, he) == [len |-> n, lineEnd |-> le, parts |-> p, heads |-> h, headEnd |-> he]

MCMessages == {Message(0, -1, <<>>, <<>>, -1), Message(40, -1, <<>>, <<>>, -1),
               Message(40, 0, <<>>, <<>>, 30)}
              \cup {Message(40, 20, p, <<>>, -1) : p \in Lines}
              \cup {Message(100, 20, p, h, 80) : p \in Lines, h \in Heads}
=============================================================================
