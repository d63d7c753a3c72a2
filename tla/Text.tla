-------------------------------- MODULE Text --------------------------------
(* Texts as sequences of characters, for what a file means to its author.  *)
EXTENDS Integers, Sequences, SequencesExt

CONSTANT Char  \* the characters

Texts == Seq(Char)

(* The pieces between the separators, of which some may be empty.          *)
SplitAt(s, separator) ==
  LET Extend(pieces, c) ==
        IF c = separator THEN Append(pieces, <<>>)
        ELSE [pieces EXCEPT ![Len(pieces)] = Append(@, c)]
      upTo[n \in 0 .. Len(s)] == IF n = 0 THEN << <<>> >> ELSE Extend(upTo[n - 1], s[n])
  IN upTo[Len(s)]

(* The first place of one of the characters, or the place behind the text. *)
First(s, chars) ==
  CHOOSE i \in 1 .. Len(s) + 1 :
    /\ i = Len(s) + 1 \/ s[i] \in chars
    /\ \A j \in 1 .. i - 1 : s[j] \notin chars

Before(s, i) == SubSeq(s, 1, i - 1)
After(s, i) == SubSeq(s, i + 1, Len(s))

(* How many blanks the text begins with, and where the last other one is.  *)
Indent(s, blanks) ==
  CHOOSE i \in 0 .. Len(s) :
    /\ i = Len(s) \/ s[i + 1] \notin blanks
    /\ \A j \in 1 .. i : s[j] \in blanks
LastPlace(s, blanks) ==
  CHOOSE i \in 0 .. Len(s) :
    /\ i = 0 \/ s[i] \notin blanks
    /\ \A j \in i + 1 .. Len(s) : s[j] \in blanks

StripFront(s, blanks) == After(s, Indent(s, blanks))
StripBack(s, blanks) == SubSeq(s, 1, LastPlace(s, blanks))
Strip(s, blanks) == StripBack(StripFront(s, blanks), blanks)
=============================================================================
