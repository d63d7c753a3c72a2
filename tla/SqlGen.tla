------------------------------- MODULE SqlGen --------------------------------
(***************************************************************************)
(* out_put_tuple_to_sql and what it calls: the SQL statement for a decoded *)
(* change.  A statement is what its text says: the table, the literals     *)
(* that columns are set to, the equations of its WHERE, and for an insert  *)
(* how many commas are in the list of columns, because one too many is an  *)
(* error.  A name is written as the message has it.                        *)
(***************************************************************************)
EXTENDS Wire, Literals, FiniteSets

(* The columns of a tuple that are not dropped.                            *)
Named(msg, tup) == {i \in 1 .. tup.natt : msg.attname[i] # NullPtr}

(* Mutant of is_key_column: only the first column of the key is compared.   *)
is_first_key_column(msg, i) == msg.k_natt > 0 /\ msg.k_attname[1] = msg.attname[i]

is_key_column(msg, i) == \E j \in 1 .. msg.k_natt : msg.k_attname[j] = msg.attname[i]

IsNull(tup, i) == tup.isnull[i] /\ tup.changed[i]
IsUnchangedToast(tup, i) == tup.isnull[i] /\ ~tup.changed[i]

(* quote_literal_local of a value.  Of the null pointer it prints (null),  *)
(* which SQL reads as null, if the type needs no quotes; any other takes   *)
(* its strlen, for which NullPtr stands here.                              *)
Written(msg, tup, i) ==
  IF tup.svalues[i] # NullPtr THEN quote_literal_local(tup.svalues[i], msg.atttype[i])
  ELSE IF msg.atttype[i] \in Raw THEN Null ELSE NullPtr

(* append_values, for each column of a set: name = literal.                *)
Literal(msg, tup, i) == IF IsNull(tup, i) THEN Null ELSE Written(msg, tup, i)
append_values(msg, tup, cols) == {<<msg.attname[i], Literal(msg, tup, i)>> : i \in cols}

(* An empty buffer.                                                        *)
Nothing == [verb |-> "", table |-> NullPtr, set |-> {}, where |-> {}, commas |-> 0]

-----------------------------------------------------------------------------
(* In an insert an unchanged value becomes null too.                       *)
append_insert_values(msg, tup) ==
  {<<msg.attname[i], IF tup.isnull[i] THEN Null ELSE Written(msg, tup, i)>> :
     i \in Named(msg, tup)}

(* A comma follows every column but the last attribute.                    *)
append_insert_colname(msg, tup) == Cardinality(Named(msg, tup) \ {tup.natt})

Insert(msg) ==
  [verb |-> "INSERT", table |-> msg.relname,
   set |-> append_insert_values(msg, msg.newtuple), where |-> {},
   commas |-> append_insert_colname(msg, msg.newtuple)]

(* The columns of a WHERE: those of the key if there is one, or all.       *)
WhereColumns(msg, tup) ==
  {i \in Named(msg, tup) : msg.k_natt > 0 => is_key_column(msg, i)}

append_delete_where_statement(msg, tup) == append_values(msg, tup, WhereColumns(msg, tup))

Delete(msg) ==
  [verb |-> "DELETE", table |-> msg.relname, set |-> {}, commas |-> 0,
   where |-> append_delete_where_statement(msg, msg.oldtuple)]

-----------------------------------------------------------------------------
Update(msg, set, where) ==
  [verb |-> "UPDATE", table |-> msg.relname, set |-> set, where |-> where, commas |-> 0]

(* Mutant of append_update_statement_key_change: looks for the new key.     *)
key_change_by_new(msg) ==
  Update(msg,
         append_values(msg, msg.newtuple, Named(msg, msg.newtuple)),
         append_values(msg, msg.newtuple, WhereColumns(msg, msg.newtuple)))

(* With an old key: all columns are set where the old key is.              *)
append_update_statement_key_change(msg) ==
  Update(msg,
         append_values(msg, msg.newtuple, Named(msg, msg.newtuple)),
         append_values(msg, msg.oldtuple, WhereColumns(msg, msg.oldtuple)))

(* Without one: the columns that are not of the key, where the key is.     *)
append_update_statement_key_not_change(msg) ==
  LET cols == Named(msg, msg.newtuple)
  IN  Update(msg,
             append_values(msg, msg.newtuple,
               {i \in cols : msg.k_natt > 0 => ~is_key_column(msg, i)}),
             append_values(msg, msg.newtuple, WhereColumns(msg, msg.newtuple)))

(* A column has changed, as far as the two tuples show it.                 *)
Changed(new, old, i) ==
  IF IsNull(new, i) THEN ~IsNull(old, i)
  ELSE /\ ~IsUnchangedToast(new, i)
       /\ \/ IsNull(old, i)
          \/ ~IsUnchangedToast(old, i) /\ new.svalues[i] # old.svalues[i]

(* With the whole old row: the columns that differ are set where every     *)
(* column is as it was.                                                    *)
append_update_statement_full_row(msg) ==
  Update(msg,
         append_values(msg, msg.newtuple,
           {i \in Named(msg, msg.oldtuple) : Changed(msg.newtuple, msg.oldtuple, i)}),
         append_values(msg, msg.oldtuple, Named(msg, msg.oldtuple)))

append_update_statement(msg) ==
  CASE msg.k_natt = 0 /\ (~msg.has_key_or_old \/ msg.oldtuple.natt = 0) -> Nothing
    [] msg.k_natt = 0 /\ msg.has_key_or_old /\ msg.oldtuple.natt # 0 ->
         IF msg.natt = msg.newtuple.natt /\ msg.natt = msg.oldtuple.natt
         THEN append_update_statement_full_row(msg)
         ELSE Nothing
    [] msg.k_natt > 0 /\ msg.oldtuple.natt = 0 -> append_update_statement_key_not_change(msg)
    [] msg.k_natt > 0 /\ msg.oldtuple.natt # 0 -> append_update_statement_key_change(msg)

-----------------------------------------------------------------------------
checktuple(msg) ==
  /\ msg.type = "D" => msg.has_key_or_old /\ msg.oldtuple.natt # 0
  /\ msg.type \in {"I", "U"} => msg.newtuple.natt # 0 /\ msg.newtuple.natt = msg.natt

(* The error that checktuple returns is not looked at: the buffer, which   *)
(* is empty then, is staged all the same.                                  *)
out_put_tuple_to_sql(msg) ==
  IF ~checktuple(msg) THEN Nothing
  ELSE CASE msg.type = "B" -> [Nothing EXCEPT !.verb = "begin"]
         [] msg.type = "C" -> [Nothing EXCEPT !.verb = "commit"]
         [] msg.type = "I" -> Insert(msg)
         [] msg.type = "U" -> append_update_statement(msg)
         [] msg.type = "D" -> Delete(msg)
=============================================================================
