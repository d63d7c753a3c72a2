------------------------------ MODULE Literals -------------------------------
(***************************************************************************)
(* Values as text: how the client writes a value into a statement          *)
(* (quote_literal_local) or into the rows of a COPY                        *)
(* (quote_literal_local_withoid), and how the target reads such a text     *)
(* back, in SQL and in the csv format.  Texts are sequences of characters; *)
(* of the characters only quotes, backslashes and separators matter.       *)
(***************************************************************************)
EXTENDS Integers, Sequences, SequencesExt

Quote == "'"
Backslash == "\\"
Nul == "NUL"

-----------------------------------------------------------------------------
(* Mutant of Doubled: backslashes are not doubled.                          *)
DoubledQuotes(src) ==
  LET dst[n \in 0 .. Len(src)] ==
        IF n = 0 THEN <<>>
        ELSE dst[n - 1] \o (IF src[n] = Quote THEN <<src[n], src[n]>> ELSE <<src[n]>>)
  IN  dst[Len(src)]

(* SQL_STR_DOUBLE, for every character.                                    *)
SQL_STR_DOUBLE(c) == c \in {Quote, Backslash}

Doubled(src) ==
  LET dst[n \in 0 .. Len(src)] ==
        IF n = 0 THEN <<>>
        ELSE dst[n - 1] \o (IF SQL_STR_DOUBLE(src[n]) THEN <<src[n], src[n]>> ELSE <<src[n]>>)
  IN  dst[Len(src)]

quote_literal_internal(src) ==
  (IF Backslash \in ToSet(src) THEN <<"E">> ELSE <<>>)
  \o <<Quote>> \o Doubled(src) \o <<Quote>>

(* Kinds of types, by what is done to their values: numbers are written as *)
(* they are, dates and times between quotes, everything else is escaped.   *)
Raw == {"numeric", "real"}
Dated == {"date", "timestamp", "timestamptz"}

quote_literal_local(rawstr, type) ==
  CASE type \in Raw   -> rawstr
    [] type \in Dated -> <<Quote>> \o rawstr \o <<Quote>>
    [] OTHER          -> quote_literal_internal(rawstr)

(* A text as C has it, up to its first NUL.                                *)
strlen(text) ==
  CHOOSE n \in 0 .. Len(text) :
    /\ \A i \in 1 .. n : text[i] # Nul
    /\ n < Len(text) => text[n + 1] = Nul

CString(text) == SubSeq(text, 1, strlen(text))

(* For a COPY a timestamp is written as it is too, unless it is one that   *)
(* MySQL has for no date, which is left out.  The value comes without its  *)
(* length, which the caller has: a NUL inside of it ends it.               *)
quote_literal_local_withoid(rawstr, type, no_dates) ==
  LET text == CString(rawstr)
  IN CASE type \in Raw -> text
       [] type = "timestamp" -> IF text \in no_dates THEN <<>> ELSE text
       [] OTHER -> quote_literal_internal(text)

-----------------------------------------------------------------------------
(* The target's SQL parser (external): a number, or a string, in which a   *)
(* quote is doubled and, after E, a backslash takes the next character.    *)
IsNumber(text) ==
  text # <<>> /\ ToSet(text) \subseteq {"0", "1", "2", "3", "4", "5", "6", "7", "8", "9", ".", "-"}

(* Reads the inside of a string; held is a character that needs another.   *)
StringStart == [text |-> <<>>, held |-> "", ok |-> TRUE]

StringStep(acc, c, escapes) ==
  IF acc.held = Quote
    THEN [acc EXCEPT !.held = "", !.ok = @ /\ c = Quote, !.text = Append(@, c)]
  ELSE IF acc.held = Backslash
    THEN [acc EXCEPT !.held = "", !.text = Append(@, c)]
  ELSE IF c = Quote \/ (escapes /\ c = Backslash) THEN [acc EXCEPT !.held = c]
  ELSE [acc EXCEPT !.text = Append(@, c)]

Unescape(body, escapes) ==
  LET after[n \in 0 .. Len(body)] ==
        IF n = 0 THEN StringStart ELSE StringStep(after[n - 1], body[n], escapes)
  IN  after[Len(body)]

IsEscaped(literal) == Len(literal) > 2 /\ literal[1] = "E"
Body(literal) == SubSeq(literal, IF IsEscaped(literal) THEN 3 ELSE 2, Len(literal) - 1)

IsLiteral(literal) ==
  \/ IsNumber(literal)
  \/ /\ Len(literal) > 1 /\ literal[Len(literal)] = Quote
     /\ Quote \in {literal[1], literal[2]}
     /\ LET read == Unescape(Body(literal), IsEscaped(literal))
        IN read.ok /\ read.held = ""

TextOf(literal) ==
  IF IsNumber(literal) THEN literal ELSE Unescape(Body(literal), IsEscaped(literal)).text

-----------------------------------------------------------------------------
(* The target's COPY ... DELIMITERS '|' with csv QUOTE '''' (external): a  *)
(* field that is empty without quotes is null, and in quotes a quote is    *)
(* doubled and nothing else is special.                                    *)
EndField(acc, null) ==
  [acc EXCEPT !.row = Append(@, IF acc.field = <<>> /\ ~acc.quoted THEN null ELSE acc.field),
              !.field = <<>>, !.quoted = FALSE]

ReadOutside(acc, c, null) ==
  CASE c = "|"   -> EndField(acc, null)
    [] c = "\n"  -> LET ended == EndField(acc, null)
                    IN [ended EXCEPT !.rows = Append(@, ended.row), !.row = <<>>]
    [] c = Quote -> [acc EXCEPT !.inside = TRUE, !.quoted = TRUE]
    [] OTHER     -> [acc EXCEPT !.field = Append(@, c)]

CsvStart ==
  [rows |-> <<>>, row |-> <<>>, field |-> <<>>,
   quoted |-> FALSE, inside |-> FALSE, held |-> FALSE]

CsvStep(acc, c, null) ==
  IF ~acc.inside THEN ReadOutside(acc, c, null)
  ELSE IF acc.held /\ c = Quote THEN [acc EXCEPT !.held = FALSE, !.field = Append(@, c)]
  ELSE IF acc.held THEN ReadOutside([acc EXCEPT !.held = FALSE, !.inside = FALSE], c, null)
  ELSE IF c = Quote THEN [acc EXCEPT !.held = TRUE]
  ELSE [acc EXCEPT !.field = Append(@, c)]

ReadCsv(text, null) ==
  LET after[n \in 0 .. Len(text)] ==
        IF n = 0 THEN CsvStart ELSE CsvStep(after[n - 1], text[n], null)
  IN  after[Len(text)].rows
=============================================================================
