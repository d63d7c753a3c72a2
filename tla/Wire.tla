-------------------------------- MODULE Wire ---------------------------------
(***************************************************************************)
(* The messages of a transaction, its begin, its row changes and its       *)
(* commit: how the plugin ali_decoding writes them at the source           *)
(* (pg_decode_begin_txn, pg_decode_change, pg_decode_commit_txn and the    *)
(* writers they call) and how the client reads them into an                *)
(* ALI_PG_DECODE_MESSAGE (bdr_process_remote_action and the readers it     *)
(* calls).  The two halves are in different programs and share nothing but *)
(* the order of what is on the wire.                                       *)
(*                                                                         *)
(* A message is a sequence of items: a tag with the number or the text the *)
(* code writes after it.  Lengths of texts, byte order and the schema name *)
(* are left out.                                                           *)
(***************************************************************************)
EXTENDS Integers, Sequences

CONSTANTS
  Null,      \* the SQL NULL
  External,  \* a pointer to an out-of-line value that the change did not touch
  NullPtr,   \* the C null pointer
  MaxAtt     \* MaxTupleAttributeNumber

ASSUME MaxAttAssumption == MaxAtt \in Nat

(* The two are told apart, and the null pointer from a name.               *)
ASSUME NullsAssumption ==
  /\ Null # External
  /\ \A i \in 1 .. MaxAtt, q \in BOOLEAN : NullPtr # [att |-> i, quoted |-> q]

(* A relation at the source: its attributes 1 .. natt with their types,    *)
(* those that were dropped, the columns of its replica identity index in   *)
(* index order (none under FULL and NOTHING), the columns whose names      *)
(* quote_identifier quotes, and whether its own name would need quotes.    *)
Live(rel) == (1 .. rel.natt) \ rel.dropped
RawName(i) == [att |-> i, quoted |-> FALSE]
QuotedName(rel, i) == [att |-> i, quoted |-> i \in rel.quoted]

-----------------------------------------------------------------------------
(* The plugin.                                                             *)

(* Mutant of WriteColumns: dropped columns are left out.                    *)
WriteColumnsLive(rel) ==
  LET names == SelectSeq([i \in 1 .. rel.natt |-> QuotedName(rel, i)],
                         LAMBDA name : name.att \notin rel.dropped)
  IN  <<<<"C", Len(names)>>>> \o
      [i \in DOMAIN names |-> <<"col", names[i], rel.type[names[i].att]>>]

(* Names are written quoted, the names of the key as they are in the       *)
(* catalog.                                                                *)
WriteColumns(rel) ==
  <<<<"C", rel.natt>>>> \o
  [i \in 1 .. rel.natt |->
     IF i \in rel.dropped THEN <<"col", NullPtr, NullPtr>>
     ELSE <<"col", QuotedName(rel, i), rel.type[i]>>]

WriteKey(rel, action) ==
  IF action \in {"U", "D"} /\ rel.key # <<>>
  THEN <<<<"M", Len(rel.key)>>>> \o [j \in DOMAIN rel.key |-> <<"key", RawName(rel.key[j])>>]
  ELSE <<<<"P", 0>>>>

(* The name of the table is written as it is.                              *)
WriteRel(rel, action) ==
  <<<<"rel", [mixed |-> rel.mixed]>>>> \o
  WriteColumns(rel) \o WriteKey(rel, action)

WriteTuple(rel, tuple) ==
  <<<<"T", rel.natt>>>> \o
  [i \in 1 .. rel.natt |->
     IF i \in rel.dropped \/ tuple[i] = Null THEN <<"n", Null>>
     ELSE IF tuple[i] = External THEN <<"u", Null>>
     ELSE <<"t", tuple[i]>>]

(* pg_decode_begin_txn and pg_decode_commit_txn: flags, then fields that   *)
(* only their order tells apart.                                           *)
EncodeBegin(txn) ==
  <<<<"B", 0>>, <<"int", 0>>, <<"int", txn.final_lsn>>, <<"int", txn.commit_time>>,
    <<"int", txn.xid>>>>

EncodeCommit(txn) ==
  <<<<"C", 0>>, <<"int", 0>>, <<"int", txn.final_lsn>>, <<"int", txn.end_lsn>>,
    <<"int", txn.commit_time>>>>

(* A change has an action, the old tuple as far as the WAL has it (<<>> if *)
(* it has none) and the new one.                                           *)
WriteOld(rel, change) ==
  IF change.old = <<>> THEN <<>> ELSE <<<<"K", 0>>>> \o WriteTuple(rel, change.old)

EncodeChange(rel, change) ==
  <<<<change.action, 0>>>> \o WriteRel(rel, change.action) \o
  CASE change.action = "I" -> <<<<"N", 0>>>> \o WriteTuple(rel, change.new)
    [] change.action = "U" ->
         WriteOld(rel, change) \o <<<<"N", 0>>>> \o WriteTuple(rel, change.new)
    [] change.action = "D" ->
         IF change.old = <<>> THEN <<<<"E", 0>>>> ELSE WriteOld(rel, change)

Encode(rel, change) ==
  CASE change.action = "B" -> EncodeBegin(change.txn)
    [] change.action = "C" -> EncodeCommit(change.txn)
    [] OTHER -> EncodeChange(rel, change)

-----------------------------------------------------------------------------
(* The client.                                                             *)

ZeroTuple ==
  [natt |-> 0, isnull |-> [i \in 1 .. MaxAtt |-> FALSE],
   changed |-> [i \in 1 .. MaxAtt |-> FALSE], svalues |-> [i \in 1 .. MaxAtt |-> NullPtr]]

(* What memset leaves.                                                     *)
ZeroMessage ==
  [type |-> "0", lsn |-> 0, tm |-> 0, xid |-> 0, end_lsn |-> 0, relname |-> NullPtr,
   natt |-> 0, attname |-> [i \in 1 .. MaxAtt |-> NullPtr],
   atttype |-> [i \in 1 .. MaxAtt |-> NullPtr],
   k_natt |-> 0, k_attname |-> [j \in 1 .. MaxAtt |-> NullPtr],
   has_key_or_old |-> FALSE, newtuple |-> ZeroTuple, oldtuple |-> ZeroTuple]

Tag(m, at) == m[at][1]
Arg(m, at) == m[at][2]

(* process_read_colunm_info from the "C" at position at: the message with  *)
(* the columns and the key, and where it stopped reading.                  *)
ReadColumns(m, at, msg) ==
  LET n == Arg(m, at)
      k == Arg(m, at + n + 1)
      named == [msg EXCEPT !.natt = n,
                  !.attname = [i \in DOMAIN @ |->
                     IF i \in 1 .. n /\ Arg(m, at + i) # NullPtr THEN Arg(m, at + i) ELSE @[i]],
                  !.atttype = [i \in DOMAIN @ |->
                     IF i \in 1 .. n /\ Arg(m, at + i) # NullPtr THEN m[at + i][3] ELSE @[i]]]
  IN  IF Tag(m, at + n + 1) = "M"
      THEN [msg |-> [named EXCEPT !.k_natt = k,
                       !.k_attname = [j \in DOMAIN @ |->
                          IF j \in 1 .. k THEN Arg(m, at + n + 1 + j) ELSE @[j]]],
            next |-> at + n + k + 2]
      ELSE [msg |-> named, next |-> at + n + 2]

(* read_tuple_parts from the "T" at position at.                           *)
ReadTuple(m, at, tup) ==
  LET n == Arg(m, at)
  IN  [natt |-> n,
       isnull |-> [i \in 1 .. MaxAtt |-> ~(i \in 1 .. n /\ Tag(m, at + i) = "t")],
       changed |-> [i \in 1 .. MaxAtt |-> ~(i \in 1 .. n /\ Tag(m, at + i) = "u")],
       svalues |-> [i \in 1 .. MaxAtt |->
          IF i \in 1 .. n
          THEN IF Tag(m, at + i) = "t" THEN Arg(m, at + i) ELSE NullPtr
          ELSE tup.svalues[i]]]

TupleEnd(m, at) == at + Arg(m, at) + 1

ReadNew(m, at, msg) == [msg EXCEPT !.newtuple = ReadTuple(m, at + 1, @)]

ReadOld(m, at, msg) ==
  [msg EXCEPT !.has_key_or_old = TRUE, !.oldtuple = ReadTuple(m, at + 1, @)]

ProcessInsert(m, cols) == ReadNew(m, cols.next, cols.msg)

ProcessUpdate(m, cols) ==
  IF Tag(m, cols.next) = "K"
  THEN ReadNew(m, TupleEnd(m, cols.next + 1), ReadOld(m, cols.next, cols.msg))
  ELSE ReadNew(m, cols.next, cols.msg)

ProcessDelete(m, cols) ==
  IF Tag(m, cols.next) = "K" THEN ReadOld(m, cols.next, cols.msg) ELSE cols.msg

ProcessBegin(m, msg) ==
  [msg EXCEPT !.type = "B", !.lsn = Arg(m, 3), !.tm = Arg(m, 4), !.xid = Arg(m, 5)]

ProcessCommit(m, msg) ==
  IF Arg(m, 2) # 0 THEN msg
  ELSE [msg EXCEPT !.type = "C", !.lsn = Arg(m, 3), !.end_lsn = Arg(m, 4), !.tm = Arg(m, 5)]

(* bdr_process_remote_action: fills in what the message has.  That a       *)
(* reader gave up, as on a commit with flags, is not passed on.            *)
Process(m, msg) ==
  LET kind == Tag(m, 1)
      cols == ReadColumns(m, 3, [msg EXCEPT !.type = kind, !.relname = Arg(m, 2)])
  IN  CASE kind = "B" -> ProcessBegin(m, msg)
        [] kind = "C" -> ProcessCommit(m, msg)
        [] kind = "I" -> ProcessInsert(m, cols)
        [] kind = "U" -> ProcessUpdate(m, cols)
        [] kind = "D" -> ProcessDelete(m, cols)

(* Mutant of Decode: the message of the last change is not cleared.         *)
DecodeOver(m, last) == Process(m, last)

(* exec_logical_decoder clears the message first.                          *)
Decode(m, last) == Process(m, ZeroMessage)
=============================================================================
