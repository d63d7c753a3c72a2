------------------------------ MODULE TableList ------------------------------
(***************************************************************************)
(* load_table_list_file of dbsync-mysql2pgsql.c: the list of tables to     *)
(* copy, a line for each, its name and perhaps ':' and a query.  The text  *)
(* is read into memory, its lines are counted for the two arrays, and each *)
(* line is cut where it stands: the arrays hold pointers into the text,    *)
(* and a NUL ends the name and the query.  One action is one line.         *)
(***************************************************************************)
EXTENDS Text, FiniteSets

ListNul == "NUL"
ListBlank == {" ", "\t"}

VARIABLES
  list,      \* table_list, with its terminator at tail
  line,      \* table_begin, which is p + 1 after a line
  slots,     \* the length of table_array and of query_array
  tables,    \* table_array up to cur_table: where each name begins
  queries,   \* query_array up to cur_table: where each query begins, or 0
  reach      \* the last place of the text that was looked at for the arrays

listVars == <<list, line, slots, tables, queries, reach>>

Tail0 == Len(list)

ListInit ==
  /\ list = <<>> /\ line = 1 /\ slots = 0
  /\ tables = <<>> /\ queries = <<>> /\ reach = 0

(* The first place from i to j that holds one of the characters, else j.   *)
Find(text, i, j, chars) ==
  CHOOSE k \in i .. j : /\ k = j \/ text[k] \in chars
                        /\ \A m \in i .. k - 1 : text[m] \notin chars

NotBlank(text, i, j) ==
  CHOOSE k \in i .. j : /\ k = j \/ text[k] \notin ListBlank
                        /\ \A m \in i .. k - 1 : text[m] \in ListBlank

(* The last place from j down to i that holds no blank, else i - 1.        *)
LastNotBlank(text, i, j) ==
  CHOOSE k \in i - 1 .. j : /\ k = i - 1 \/ text[k] \notin ListBlank
                            /\ \A m \in k + 1 .. j : text[m] \in ListBlank

(* Mutant of ReadList: the last line, which has no newline, is not counted. *)
ReadListUncounted(text) ==
  /\ list' = Append(text, ListNul)
  /\ line' = 1
  /\ slots' = Cardinality({i \in DOMAIN text : text[i] = "\n"}) + 1
  /\ UNCHANGED <<tables, queries, reach>>

(* The file is read, its lines are counted, and the arrays, one longer,    *)
(* are allocated.                                                          *)
ReadList(text) ==
  /\ list' = Append(text, ListNul)
  /\ line' = 1
  /\ slots' = Cardinality({i \in DOMAIN text : text[i] = "\n"}) + 1 + 1
  /\ UNCHANGED <<tables, queries, reach>>

AtListEnd == line > Tail0

LineStop == Find(list, line, Tail0, {"\n"})

(* Mutant of CutLine: the NUL that ends the query is not written.           *)
CutLineOpen ==
  /\ ~AtListEnd
  /\ LET begin == NotBlank(list, line, LineStop)
         colon == Find(list, begin, LineStop, {":"})
         end == LastNotBlank(list, begin, colon - 1)
         query == IF colon = LineStop THEN LineStop ELSE NotBlank(list, colon + 1, LineStop)
         named == end >= begin
     IN /\ list' = IF named THEN [list EXCEPT ![end + 1] = ListNul] ELSE list
        /\ tables' = IF named THEN Append(tables, begin) ELSE tables
        /\ queries' = IF named THEN Append(queries, IF query < LineStop THEN query ELSE 0)
                      ELSE queries
        /\ reach' = IF colon = LineStop THEN LineStop + 1 ELSE LineStop
  /\ line' = LineStop + 1
  /\ UNCHANGED slots

(* A line ends at LineStop.  Its name has no blanks around it, its query   *)
(* none in front; a line without a name is left out.  Without a ':' the    *)
(* place behind the line is looked at too, where the query would begin:    *)
(* query_begin is past p then and there is none, whatever stands there.    *)
(* Behind the last line, that place is past the terminator of the text.    *)
CutLine ==
  /\ ~AtListEnd
  /\ LET begin == NotBlank(list, line, LineStop)
         colon == Find(list, begin, LineStop, {":"})
         end == LastNotBlank(list, begin, colon - 1)
         query == IF colon = LineStop THEN LineStop ELSE NotBlank(list, colon + 1, LineStop)
         named == end >= begin
         cut == (IF named THEN {end + 1} ELSE {})
                  \union (IF query < LineStop THEN {LineStop} ELSE {})
     IN /\ list' = [i \in DOMAIN list |-> IF i \in cut THEN ListNul ELSE list[i]]
        /\ tables' = IF named THEN Append(tables, begin) ELSE tables
        /\ queries' = IF named THEN Append(queries, IF query < LineStop THEN query ELSE 0)
                      ELSE queries
        /\ reach' = IF colon = LineStop THEN LineStop + 1 ELSE LineStop
  /\ line' = LineStop + 1
  /\ UNCHANGED slots

-----------------------------------------------------------------------------
(* The string that a pointer into the text stands for.                     *)
StringAt(text, i) ==
  IF i = 0 THEN <<>> ELSE SubSeq(text, i, Find(text, i, Len(text), {ListNul}) - 1)

(* The list that mysql2pgsql_sync_main makes its tasks of.                 *)
TaskList ==
  [n \in DOMAIN tables |-> [relname |-> StringAt(list, tables[n]),
                            query |-> StringAt(list, queries[n])]]

(* The list as its author means it, line by line: a name, trimmed, and     *)
(* what follows the first ':', if anything but blanks does.                *)
EntryOf(s) ==
  LET colon == First(s, {":"})
  IN [relname |-> Strip(Before(s, colon), ListBlank),
      query |-> StripFront(After(s, colon), ListBlank)]

ListedBy(text) ==
  LET lines == SplitAt(text, "\n")
      entries[n \in 0 .. Len(lines)] ==
        IF n = 0 THEN <<>>
        ELSE IF EntryOf(lines[n]).relname = <<>> THEN entries[n - 1]
        ELSE Append(entries[n - 1], EntryOf(lines[n]))
  IN entries[Len(lines)]
=============================================================================
