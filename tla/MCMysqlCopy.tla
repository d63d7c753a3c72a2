----------------------------- MODULE MCMysqlCopy -----------------------------
(* Small instances of MysqlCopy: a table of two rows with a backslash and  *)
(* with a NUL, an empty one, one of three rows with all that a csv field   *)
(* can be; and a table of one BIT(8), whose value is one NUL.              *)
EXTENDS MysqlCopy

MCChar == {"a", "d", "e", "E", "0", "1", "2", "-", "|", "\n", "'", "\\", "NUL"}

MCTypes ==
  <<<<"varchar">>, <<"blob">>, <<"varchar", "date", "decimal", "timestamp">>>>

MCNoDates == {<<"0", "-", "0">>}

MCRows ==
  << << <<<<"a", "\\">>>>, <<<<"a", "NUL", "d">>>> >>,
     << >>,
     << <<<<"'", "|", "\n", "'">>, <<"0", "-", "0">>, <<"1">>, <<"d">>>>,
        <<<<>>, Null, Null, Null>>,
        <<Null, <<"d">>, <<"2">>, <<"e">>>> >> >>

MCNulTypes == <<<<"bit">>>>
MCNulRows == << << <<<<"NUL">>>> >> >>
=============================================================================
