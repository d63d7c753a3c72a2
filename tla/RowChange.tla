------------------------------ MODULE RowChange ------------------------------
(***************************************************************************)
(* The way of a transaction from the source to the target, one message     *)
(* after the other: the plugin writes it, the client decodes it and makes  *)
(* a statement of it, and the target executes the statement.  What Apply   *)
(* takes for granted, that a staged statement does at the target what its  *)
(* change did at the source, is looked at here, for every kind of table    *)
(* and of value.                                                           *)
(*                                                                         *)
(* A table has a few slots for rows.  A slot is the identity of a row,     *)
(* which the source knows and the target does not: a statement finds its   *)
(* rows by their values.                                                   *)
(***************************************************************************)
EXTENDS SqlGen, Functions

CONSTANTS
  Char,       \* the characters of a text
  Values,     \* by type, the texts of some values
  Slot,       \* places for rows
  Absent,     \* the content of a free slot
  Relations   \* the relations to look at

ASSUME RelationsAssumption ==
  \A r \in Relations :
    /\ r.natt \in 1 .. MaxAtt
    /\ r.type \in [1 .. r.natt -> DOMAIN Values]
    /\ r.dropped \subseteq 1 .. r.natt /\ Live(r) # {}
    /\ r.key \in Seq(Live(r)) /\ Len(r.key) <= MaxAtt
    /\ r.full => r.key = <<>>
    /\ r.toasted \subseteq Live(r) \ Range(r.key)

Texts == Seq(Char)

(* Neither null nor a pointer is a text.  The texts of numbers and of      *)
(* dates have no quotes in them, which is why they are not looked for.     *)
ASSUME ValuesAssumption ==
  /\ {Quote, Backslash, "E"} \subseteq Char
  /\ \A type \in DOMAIN Values : Values[type] \subseteq Texts
  /\ \A type \in DOMAIN Values \cap (Raw \union Dated) :
       \A text \in Values[type] : Quote \notin ToSet(text)
  /\ \A p \in {Null, External, NullPtr} : p \notin Texts
  /\ Null # NullPtr

(* A free slot does not look like a row.                                   *)
ASSUME AbsentAssumption ==
  \A n \in 1 .. MaxAtt :
    Absent \notin [1 .. n -> {Null} \union (UNION {Values[type] : type \in DOMAIN Values})]

VARIABLES
  rel,      \* the relation
  source,   \* its rows at the source
  target,   \* its rows at the target
  change,   \* what the message under way, or the last one, says
  msg,      \* hander->msg
  sql,      \* the statement in sync_sqls
  pc        \* "idle", "sent", "decoded", "staged", or "dead"

vars == <<rel, source, target, change, msg, sql, pc>>

-----------------------------------------------------------------------------
(* The tables (external).                                                  *)

Content(i) ==
  IF i \in rel.dropped THEN {Null}
  ELSE IF i \in Range(rel.key) THEN Values[rel.type[i]]
  ELSE Values[rel.type[i]] \union {Null}

Row == {r \in [1 .. rel.natt -> UNION {Content(i) : i \in 1 .. rel.natt}] :
          \A i \in 1 .. rel.natt : r[i] \in Content(i)}

KeyOf(r) == [j \in DOMAIN rel.key |-> r[rel.key[j]]]
Used(table) == {x \in Slot : table[x] # Absent}

UniqueKeys(table) ==
  rel.key # <<>> =>
    \A x, y \in Used(table) : x # y => KeyOf(table[x]) # KeyOf(table[y])

Table == {t \in [Slot -> Row \union {Absent}] : UniqueKeys(t)}

(* What the WAL has of the old row: all of it under FULL; the key if the   *)
(* row is deleted or its key changes.                                      *)
LoggedOld(was, row) ==
  IF rel.full THEN was
  ELSE IF rel.key = <<>> \/ (row # Absent /\ KeyOf(was) = KeyOf(row)) THEN <<>>
  ELSE [i \in 1 .. rel.natt |-> IF i \in Range(rel.key) THEN was[i] ELSE Null]

(* Out-of-line values that an update leaves alone are not in the new one.  *)
LoggedNew(was, row) ==
  [i \in 1 .. rel.natt |->
     IF i \in rel.toasted /\ row[i] # Null /\ was[i] = row[i] THEN External ELSE row[i]]

(* The numbers of a transaction; all differ.                               *)
Txn == [xid |-> 1, final_lsn |-> 2, end_lsn |-> 3, commit_time |-> 4]

RowActions == {"I", "U", "D"}
IsRowChange == change.action \in RowActions

SourceBegin ==
  /\ pc = "idle" /\ source = target
  /\ change.action \in {"none", "C"}
  /\ change' = [action |-> "B", txn |-> Txn]
  /\ pc' = "sent"
  /\ UNCHANGED <<rel, source, target, msg, sql>>

SourceCommit ==
  /\ pc = "idle" /\ source = target
  /\ IsRowChange
  /\ change' = [action |-> "C", txn |-> Txn]
  /\ pc' = "sent"
  /\ UNCHANGED <<rel, source, target, msg, sql>>

(* The source executes something; was and row are the row before and after. *)
SourceExecutes(action, x, was, row, old, new) ==
  /\ pc = "idle" /\ source = target
  /\ change.action = "B" \/ IsRowChange
  /\ source' = [source EXCEPT ![x] = row]
  /\ UniqueKeys(source')
  /\ change' = [action |-> action, slot |-> x, was |-> was, row |-> row,
                old |-> old, new |-> new, first |-> change.action = "B"]
  /\ pc' = "sent"
  /\ UNCHANGED <<rel, target, msg, sql>>

SourceInsert ==
  \E x \in Slot \ Used(source), r \in Row :
    SourceExecutes("I", x, Absent, r, <<>>, r)

SourceUpdate ==
  \E x \in Used(source), r \in Row :
    SourceExecutes("U", x, source[x], r, LoggedOld(source[x], r), LoggedNew(source[x], r))

SourceDelete ==
  \E x \in Used(source) :
    SourceExecutes("D", x, source[x], Absent, LoggedOld(source[x], Absent), <<>>)

-----------------------------------------------------------------------------
NoChange == [action |-> "none"]

Init ==
  /\ rel \in Relations
  /\ source \in Table
  /\ target = source
  /\ change = NoChange
  /\ msg = ZeroMessage
  /\ sql = Nothing
  /\ pc = "idle"

(* exec_logical_decoder.                                                   *)
DecodeMessage ==
  /\ pc = "sent"
  /\ msg' = Decode(Encode(rel, change), msg)
  /\ pc' = "decoded"
  /\ UNCHANGED <<rel, source, target, change, sql>>

LiteralsOf(s) == {e[2] : e \in s.set \union s.where}
UsesNullPtr(s) == NullPtr \in LiteralsOf(s)

(* The strlen of the null pointer ends the process.                        *)
Generate ==
  /\ pc = "decoded"
  /\ LET s == out_put_tuple_to_sql(msg)
     IN  IF UsesNullPtr(s) THEN sql' = Nothing /\ pc' = "dead"
         ELSE sql' = s /\ pc' = "staged"
  /\ UNCHANGED <<rel, source, target, change, msg>>

(* The target has the table under its name and the live columns under      *)
(* theirs; SQL folds a name that is not quoted to lower case.              *)
WellFormed(s) ==
  /\ s.verb # "" /\ ~s.table.mixed
  /\ \A literal \in LiteralsOf(s) : literal # Null => IsLiteral(literal)
  /\ CASE s.verb = "INSERT" -> s.commas = Cardinality(s.set) - 1
       [] s.verb = "UPDATE" -> s.set # {} /\ s.where # {}
       [] s.verb = "DELETE" -> s.where # {}

Column(i) == QuotedName(rel, i)
Read(literal) == IF literal = Null THEN Null ELSE TextOf(literal)

(* A real is compared with a number as a double, and is none of those that *)
(* have to be rounded; for them stand the fractions.                       *)
Rounded(i, text) == rel.type[i] = "real" /\ "." \in ToSet(text)
IsAs(r, i, literal) == r[i] = Read(literal) /\ ~Rounded(i, r[i])

Matches(r, where) ==
  \A e \in where : e[2] # Null /\ \E i \in Live(rel) : Column(i) = e[1] /\ IsAs(r, i, e[2])
Assign(r, set) ==
  [i \in 1 .. rel.natt |->
     IF \E e \in set : e[1] = Column(i) THEN Read((CHOOSE e \in set : e[1] = Column(i))[2])
     ELSE r[i]]

Effect(s) ==
  LET found == {x \in Used(target) : Matches(target[x], s.where)}
      empty == [i \in 1 .. rel.natt |-> Null]
  IN  CASE s.verb = "INSERT" -> [target EXCEPT ![change.slot] = Assign(empty, s.set)]
        [] s.verb = "UPDATE" ->
             [x \in Slot |-> IF x \in found THEN Assign(target[x], s.set) ELSE target[x]]
        [] s.verb = "DELETE" -> [x \in Slot |-> IF x \in found THEN Absent ELSE target[x]]

(* The apply thread executes begin and commit.                             *)
ExecuteControl ==
  /\ pc = "staged" /\ sql.verb \in {"begin", "commit"}
  /\ pc' = "idle"
  /\ UNCHANGED <<rel, source, target, change, msg, sql>>

Execute ==
  /\ pc = "staged" /\ sql.verb \notin {"begin", "commit"}
  /\ WellFormed(sql) /\ UniqueKeys(Effect(sql))
  /\ target' = Effect(sql)
  /\ pc' = "idle"
  /\ UNCHANGED <<rel, source, change, msg, sql>>

(* A key that is there already is skipped on the first statement of a      *)
(* transaction.                                                            *)
ExecuteDuplicate ==
  /\ pc = "staged" /\ sql.verb \notin {"begin", "commit"}
  /\ WellFormed(sql) /\ ~UniqueKeys(Effect(sql))
  /\ pc' = IF change.first THEN "idle" ELSE "dead"
  /\ UNCHANGED <<rel, source, target, change, msg, sql>>

(* Any other error of the target ends the thread.                          *)
ExecuteFails ==
  /\ pc = "staged" /\ sql.verb \notin {"begin", "commit"}
  /\ ~WellFormed(sql)
  /\ pc' = "dead"
  /\ UNCHANGED <<rel, source, target, change, msg, sql>>

(* No claim is made about what comes after a change that was lost.         *)
Lost == (pc = "dead" \/ (pc = "idle" /\ source # target)) /\ UNCHANGED vars

Next ==
  \/ SourceBegin \/ SourceInsert \/ SourceUpdate \/ SourceDelete \/ SourceCommit
  \/ DecodeMessage \/ Generate \/ ExecuteControl
  \/ Execute \/ ExecuteDuplicate \/ ExecuteFails \/ Lost

Safety == Init /\ [][Next]_vars

-----------------------------------------------------------------------------
Full(r) == \A i \in Live(rel) : r[i] # Null
Duplicate(r) == \E x \in Slot \ {change.slot} : source[x] = r
PlainKey == rel.key # <<>> /\ Range(rel.key) \cap rel.quoted = {}
MixedKey == ~PlainKey /\ ~(Range(rel.key) \subseteq rel.quoted)
RawToast == \E i \in rel.toasted : rel.type[i] \in Raw
RealKey == \E i \in Range(rel.key) : rel.type[i] = "real"
KeyStays == KeyOf(change.was) = KeyOf(change.row)

(* Its values are numbers where they are written as they are.              *)
Printable(r, cols) ==
  \A i \in cols : rel.type[i] \in Raw /\ r[i] # Null => IsNumber(r[i])

(* A WHERE finds the row by these columns.                                 *)
Findable(r, cols) ==
  Printable(r, cols) /\ \A i \in cols : r[i] # Null /\ ~Rounded(i, r[i])

FindableRow ==
  IF rel.full THEN Findable(change.was, Live(rel)) /\ ~Duplicate(change.was)
  ELSE PlainKey /\ Findable(change.was, Range(rel.key))

(* The changes that the statements can express.  Not among them: tables    *)
(* whose names need quotes; values such as NaN in columns of numbers;      *)
(* inserts where the last attribute was dropped; rows that no WHERE finds, *)
(* because the name of a key needs quotes, a real was rounded, or under    *)
(* FULL because of a null or of an equal row, and all without identity;    *)
(* updates that leave an out-of-line value alone, that under FULL change   *)
(* nothing, or with the key as it is of a table that has only its key.     *)
Handled ==
  /\ ~rel.mixed
  /\ change.action \in {"I", "U"} => Printable(change.row, Live(rel))
  /\ CASE change.action = "I" -> rel.natt \in Live(rel)
       [] change.action = "D" -> FindableRow
       [] change.action = "U" ->
            /\ FindableRow
            /\ \A i \in Live(rel) : change.new[i] # External
            /\ IF rel.full THEN change.was # change.row
               ELSE KeyStays => Live(rel) # Range(rel.key)

AtRest == pc \in {"idle", "dead"} /\ IsRowChange

(* Every variable has its type.                                            *)
TypeOK ==
  /\ rel \in Relations
  /\ source \in Table /\ target \in Table
  /\ change.action \in RowActions \union {"none", "B", "C"}
  /\ msg.type \in RowActions \union {"0", "B", "C"}
  /\ msg.natt \in {0, rel.natt} /\ msg.k_natt \in {0, Len(rel.key)}
  /\ sql.verb \in {"", "begin", "commit", "INSERT", "UPDATE", "DELETE"}
  /\ pc \in {"idle", "sent", "decoded", "staged", "dead"}

(* The client has understood what the plugin said: the columns, the key    *)
(* and the two tuples of the message are those of this change, the times   *)
(* and positions those of this transaction, and nothing in it is left from *)
(* the message before.                                                     *)
TupleIs(tup, row) ==
  IF row = <<>> THEN tup.natt = 0
  ELSE /\ tup.natt = rel.natt
       /\ \A i \in Live(rel) :
            /\ IsNull(tup, i) <=> row[i] = Null
            /\ IsUnchangedToast(tup, i) <=> row[i] = External
            /\ ~tup.isnull[i] => tup.svalues[i] = row[i]

TransactionMessage ==
  LET timed == [ZeroMessage EXCEPT !.type = change.action, !.lsn = Txn.final_lsn,
                                   !.tm = Txn.commit_time]
  IN IF change.action = "B" THEN [timed EXCEPT !.xid = Txn.xid]
     ELSE [timed EXCEPT !.end_lsn = Txn.end_lsn]

MessageIsChange ==
  pc = "decoded" =>
  IF ~IsRowChange THEN msg = TransactionMessage
  ELSE
    /\ msg.type = change.action /\ msg.relname = [mixed |-> rel.mixed]
    /\ Named(msg, [natt |-> msg.natt]) = Live(rel)
    /\ \A i \in Live(rel) : msg.attname[i].att = i /\ msg.atttype[i] = rel.type[i]
    /\ {msg.k_attname[j].att : j \in 1 .. msg.k_natt} =
         IF change.action = "I" THEN {} ELSE Range(rel.key)
    /\ msg.has_key_or_old <=> change.old # <<>>
    /\ TupleIs(msg.oldtuple, change.old)
    /\ TupleIs(msg.newtuple, change.new)

(* The statement does at the target what its change did at the source.     *)
ReplicaFollows == AtRest /\ Handled => target = source

(* With a key, what cannot be expressed stops the thread and is not lost   *)
(* in silence, except for an out-of-line number, which is printed as null, *)
(* a key with a real that was rounded, which no row has, and a key of      *)
(* which some names need quotes and some do not: its rows are looked for   *)
(* by the latter alone.                                                    *)
StopsRatherThanDiverges ==
  AtRest /\ rel.key # <<>> /\ ~(MixedKey \/ RawToast \/ RealKey) =>
    pc = "dead" \/ target = source

(* No statement touches another row than the one that was changed, however *)
(* incomplete its WHERE is, apart from such a key; under FULL equal rows   *)
(* cannot be told apart.                                                   *)
OnlyItsRow ==
  [][~MixedKey /\ ~(rel.full /\ IsRowChange /\ Duplicate(change.was)) =>
       \A x \in Slot : target'[x] # target[x] => x = change.slot]_vars

(* What doc/design.md promises of a table that has FULL, a primary key, or *)
(* a unique index for its identity: its changes can be subscribed to.      *)
Subscribable == rel.full \/ rel.key # <<>>
SubscribedFollows == AtRest /\ Subscribable => target = source
=============================================================================
