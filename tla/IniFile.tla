------------------------------- MODULE IniFile -------------------------------
(***************************************************************************)
(* The configuration reader of ini.c and readcfg.cpp.  split_data walks    *)
(* once over the text of the file and cuts it in place into strings: it    *)
(* overwrites separators, blanks and discarded lines with NUL and unescapes*)
(* quoted values where they stand.  What is left is a row of strings in    *)
(* which nothing tells a key from a value but its place, and ini_get walks *)
(* over that row two strings at a time.  One action is one turn of         *)
(* split_data's loop, by the case of its switch.                           *)
(***************************************************************************)
EXTENDS Text

NUL == "NUL"
Blank == {" ", "\t", "\r"}

ASSUME CharAssumption == {NUL, "\r", "\n", "\t"} \subseteq Char

VARIABLES
  data,   \* ini->data, with the terminator at ini->end
  at      \* split_data's p

iniVars == <<data, at>>

End == Len(data)

(* strcspn: the first place from i on that holds one of the characters, or *)
(* the end of the string.                                                  *)
Upto(d, i, chars) ==
  CHOOSE j \in i .. Len(d) :
    /\ d[j] \in chars \union {NUL}
    /\ \A k \in i .. j - 1 : d[k] \notin chars \union {NUL}

(* Where the line ends; a NUL inside the line does not end it.             *)
LineEnd(d, i) ==
  CHOOSE j \in i .. Len(d) :
    /\ j = Len(d) \/ d[j] = "\n"
    /\ \A k \in i .. j - 1 : d[k] # "\n"

(* The places from i to j - 1 become NUL.                                  *)
Cleared(d, i, j) == SubSeq(d, 1, i - 1) \o [k \in 1 .. j - i |-> NUL] \o SubSeq(d, j, Len(d))

(* discard_line                                                            *)
Discarded(d, i) == Cleared(d, i, LineEnd(d, i))

(* trim_back: the blanks that end at i become NUL.                         *)
Trimmed(d, i) ==
  Cleared(d, CHOOSE j \in 1 .. i + 1 :
               /\ \A k \in j .. i : d[k] \in Blank
               /\ j = 1 \/ d[j - 1] \notin Blank, i + 1)

Escaped(c) == CASE c = "r" -> "\r" [] c = "n" -> "\n" [] c = "t" -> "\t" [] OTHER -> c

(* What unescape_quoted_value leaves of the quoted value whose quote is at *)
(* v.  It is written over the value, which is never shorter.               *)
Unquoted(d, v) ==
  LET From[i \in v + 1 .. Len(d)] ==
        IF i = Len(d) \/ d[i] \in {"\"", "\r", "\n"} THEN <<>>
        ELSE IF d[i] # "\\" THEN <<d[i]>> \o From[i + 1]
        ELSE IF d[i + 1] \in {"\r", "\n", NUL} THEN <<>>
        ELSE <<Escaped(d[i + 1])>> \o From[i + 2]
  IN From[v + 1]

Written(d, v, text) == SubSeq(d, 1, v - 1) \o text \o SubSeq(d, v + Len(text), Len(d))

(* ini_load: the text of the file, and the terminator behind it.           *)
Load(text) == data' = Append(text, NUL) /\ at' = 1

SkipBlank ==
  /\ data[at] \in Blank \union {"\n", NUL}
  /\ data' = [data EXCEPT ![at] = NUL]
  /\ at' = at + 1

(* Mutant of SplitSection: the bracket is stepped over, also if there is none. *)
SplitSectionPast ==
  /\ data[at] = "["
  /\ at' = Upto(data, at, {"]", "\n"}) + 1
  /\ data' = [data EXCEPT ![at' - 1] = NUL]

(* A section keeps its bracket, which tells it from a key.                 *)
SplitSection ==
  /\ data[at] = "["
  /\ at' = Upto(data, at, {"]", "\n"})
  /\ data' = [data EXCEPT ![at'] = NUL]

SkipComment ==
  /\ data[at] = ";"
  /\ at' = LineEnd(data, at)
  /\ data' = Discarded(data, at)

AtLine == data[at] \notin Blank \union {"\n", NUL, "[", ";"}
Equals == Upto(data, at, {"=", "\n"})

(* The text once the key is trimmed, and '=' and the blanks after it are   *)
(* gone; and the place after them.                                         *)
ValueAt ==
  LET after == Equals + 1
  IN CHOOSE v \in after .. End : /\ data[v] \notin Blank
                                /\ \A k \in after .. v - 1 : data[k] \in Blank
KeySplit == Cleared(Trimmed(data, Equals - 1), Equals, ValueAt)

DiscardLine ==
  /\ data' = Discarded(data, at)
  /\ at' = LineEnd(data, at)

NoEquals ==
  /\ AtLine
  /\ data[Equals] # "="
  /\ DiscardLine

HasEquals == AtLine /\ data[Equals] = "="

(* Mutant of NoValue: only the rest of the line is discarded, its key stays. *)
NoValueKeepsKey ==
  /\ HasEquals
  /\ data[ValueAt] \in {"\n", NUL} \/ (data[ValueAt] = "\"" /\ Unquoted(data, ValueAt) = <<>>)
  /\ data' = Discarded(KeySplit, Equals)
  /\ at' = LineEnd(data, at)

(* A key without a value, or with an empty quoted one, is no key.          *)
NoValue ==
  /\ HasEquals
  /\ data[ValueAt] \in {"\n", NUL} \/ (data[ValueAt] = "\"" /\ Unquoted(data, ValueAt) = <<>>)
  /\ DiscardLine

QuotedValue ==
  /\ HasEquals
  /\ data[ValueAt] = "\""
  /\ Unquoted(data, ValueAt) # <<>>
  /\ LET text == Unquoted(data, ValueAt)
     IN data' = Cleared(Written(KeySplit, ValueAt, text),
                        ValueAt + Len(text), LineEnd(data, at))
  /\ at' = LineEnd(data, at)

PlainValue ==
  /\ HasEquals
  /\ data[ValueAt] \notin {"\n", NUL, "\""}
  /\ at' = Upto(data, ValueAt, {"\n"})
  /\ data' = Trimmed(KeySplit, at' - 1)

Split ==
  /\ at < End
  /\ \/ SkipBlank \/ SplitSection \/ SkipComment
     \/ NoEquals \/ NoValue \/ QuotedValue \/ PlainValue

-----------------------------------------------------------------------------
(* strcmpci: letters count the same in both cases (S and K stand for all).  *)
Lower(c) == CASE c = "S" -> "s" [] c = "K" -> "k" [] OTHER -> c
SameName(a, b) == [i \in DOMAIN a |-> Lower(a[i])] = [i \in DOMAIN b |-> Lower(b[i])]

(* ini_get's walk over the strings between the NULs: one that is not a     *)
(* section is a key, the one after it its value, and the first key that    *)
(* fits is taken.  next steps over the NULs, so no string is empty.        *)
Step(w, s, section, key) ==
  IF w.found \/ s = <<>> THEN w
  ELSE IF w.key # <<>>
    THEN IF SameName(section, w.section) /\ SameName(key, w.key)
         THEN [w EXCEPT !.found = TRUE, !.value = s]
         ELSE [w EXCEPT !.key = <<>>]
  ELSE IF s[1] = "[" THEN [w EXCEPT !.section = Tail(s)]
  ELSE [w EXCEPT !.key = s]

Walk(d, section, key) ==
  LET strings == SplitAt(d, NUL)
      walk[n \in 0 .. Len(strings)] ==
        IF n = 0 THEN [section |-> <<>>, key |-> <<>>, found |-> FALSE, value |-> <<>>]
        ELSE Step(walk[n - 1], strings[n], section, key)
  IN walk[Len(strings)]

(* get_config: the value, or nothing, as for an empty value.               *)
Lookup(d, section, key) == Walk(d, section, key).value

-----------------------------------------------------------------------------
(* The file read line by line, without cutting it up: what its author      *)
(* means.  A line is sections in brackets, if any, and then nothing, a     *)
(* comment, or a key, '=' and a value.                                     *)
Lines(text) == SplitAt(text, "\n")
Begins(s, c) == s # <<>> /\ s[1] = c

(* The line once its sections are read, and the last one of them.          *)
PastSection(p) ==
  LET close == First(p.line, {"]"})
  IN IF ~Begins(p.line, "[") THEN p
     ELSE [section |-> Before(Tail(p.line), close - 1),
           line |-> StripFront(After(p.line, close), Blank)]

PastSections(section, s) ==
  LET past[n \in 0 .. Len(s)] ==
        IF n = 0 THEN [section |-> section, line |-> StripFront(s, Blank)]
        ELSE PastSection(past[n - 1])
  IN past[Len(s)]

Meant(value) ==
  IF Begins(value, "\"") THEN Unquoted(Append(value, NUL), 1) ELSE StripBack(value, Blank)

(* Reading line s when others were read: the section in force, the        *)
(* entries, and whether a line began with '='.                             *)
ReadLine(read, s) ==
  LET past == PastSections(read.section, s)
      eq == First(past.line, {"="})
      key == StripBack(Before(past.line, eq), Blank)
      value == Meant(StripFront(After(past.line, eq), Blank))
      entry == [section |-> past.section, key |-> key, value |-> value]
  IN [section |-> past.section,
      entries |-> IF Begins(past.line, ";") \/ value = <<>> THEN read.entries
                  ELSE Append(read.entries, entry),
      keyless |-> read.keyless \/ Begins(past.line, "=")]

ReadOn(read, text) ==
  LET lines == Lines(text)
      upTo[n \in 0 .. Len(lines)] ==
        IF n = 0 THEN read ELSE ReadLine(upTo[n - 1], lines[n])
  IN upTo[Len(lines)]

Reading(text) == ReadOn([section |-> <<>>, entries |-> <<>>, keyless |-> FALSE], text)

(* The first entry that fits.                                              *)
MeantBy(text, section, key) ==
  LET entries == Reading(text).entries
      fits == {n \in DOMAIN entries : /\ SameName(section, entries[n].section)
                                      /\ SameName(key, entries[n].key)}
  IN IF fits = {} THEN <<>>
     ELSE entries[CHOOSE n \in fits : \A m \in fits : n <= m].value

(* A line starts with '=', at its start or behind a section.               *)
Keyless(text) == Reading(text).keyless
=============================================================================
