----------------------------- MODULE MCRowChange -----------------------------
(* The kinds of tables: identity, dropped, out-of-line and quoted columns, *)
(* and what the values look like.                                          *)
EXTENDS RowChange

MCChar == {"a", "'", "\\", "E", "d", "e", "N", "0", "1", "."}
MCValues ==
  [text |-> {<<"a", "'">>, <<"\\", "'">>}, date |-> {<<"d">>, <<"e">>},
   numeric |-> {<<"1">>, <<"N", "a", "N">>}, real |-> {<<"1">>, <<"0", ".", "1">>}]

Rel(type, dropped, key, toasted, quoted) ==
  [natt |-> Len(type), type |-> type, dropped |-> dropped, key |-> key, full |-> FALSE,
   toasted |-> toasted, quoted |-> quoted, mixed |-> FALSE]
FullRel(type, dropped, toasted) ==
  [Rel(type, dropped, <<>>, toasted, {}) EXCEPT !.full = TRUE]

Texts2 == <<"text", "text">>
Texts3 == <<"text", "text", "text">>

MCToast == Rel(Texts3, {2}, <<1>>, {3}, {})

MCRelations ==
  { Rel(Texts2, {}, <<1>>, {}, {2}),            \* a primary key
    Rel(Texts3, {1}, <<2>>, {}, {}),            \* a column dropped before the key
    Rel(<<"date", "text", "text">>, {3}, <<1>>, {}, {}),  \* the last column dropped
    MCToast,                                    \* a column with out-of-line texts
    Rel(<<"text", "numeric">>, {}, <<1>>, {2}, {}),       \* and with numbers
    Rel(<<"text", "real">>, {}, <<1>>, {}, {}), \* a column of real
    Rel(<<"real", "date">>, {}, <<1>>, {}, {}), \* and a key
    Rel(Texts2, {}, <<2, 1>>, {}, {}),          \* nothing but its key
    Rel(Texts2, {}, <<1>>, {}, {1}),            \* a key whose name needs quotes
    Rel(Texts2, {}, <<2, 1>>, {}, {1}),         \* the same, with one name that does
    [Rel(Texts2, {}, <<1>>, {}, {}) EXCEPT !.mixed = TRUE], \* its own name does
    Rel(Texts2, {}, <<>>, {}, {}),              \* no identity
    FullRel(<<"numeric", "text">>, {}, {2}),
    FullRel(<<"real", "text", "date">>, {2}, {}) }

MCToastOnly == {MCToast}
=============================================================================
