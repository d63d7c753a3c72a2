------------------------------ MODULE MCStartup ------------------------------
(* Small instances of Startup: configuration files of up to three lines    *)
(* from a list of good and odd ones, table lists of up to five characters. *)
EXTENDS Startup

MCChar == {"NUL", "\r", "\n", "\t", " ", "[", "]", "=", ";", ":", "\"", "\\",
           "K", "S", "a", "j", "k", "n", "s", "t", "v", "x", "2", "3", "4", "5", "9", "1"}

Chars(s) == <<>> \o [i \in 1 .. Len(s) |-> SubSeq(s, i, i)]

Odd == {"[s]", "[t", "[S] k=4", "k=1", " K = 2 ", "k=\"3;\"x", "k=\"\"", "k=\t\r", "=v",
        "; k=9", "", "k", "j=\"[s]\"", "j=\"\\n=\\ ",
        "[t ][s]k=\"5 \t"}

MCConfigFiles ==
  {Chars(a \o "\n" \o b \o "\n" \o c \o d) : a \in Odd, b \in Odd, c \in Odd, d \in {"", "\n"}}

MCListFiles == BoundedSeq({"a", " ", ":", "\n"}, 5) \union {Chars("a:a : a")}

Key(s, k) == <<Chars(s), Chars(k)>>

MCWanted == [p \in Program |-> IF p = "mysql2pgsql" THEN {Key("s", "k"), Key("s", "j")}
                               ELSE {Key("s", "k"), Key("t", "k")}]

MCOptional == {Key("s", "j")}
=============================================================================
