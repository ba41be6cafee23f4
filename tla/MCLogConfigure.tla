--------------------------- MODULE MCLogConfigure ---------------------------
(***************************************************************************)
(* The property files and parameters that LogConfigure is checked with: a  *)
(* valid file, one appender with each kind of mistake, NOTSET for the root,*)
(* an unknown priority after an unknown appender, and no root.             *)
(***************************************************************************)
EXTENDS LogConfigure

MCNames == {<<"n1">>, <<"n2">>}
MCCats == {<<"a", "b">>}
MCParams == {{"name"}, {"name", "filename"}}

AppenderLine(n, bad) == [name |-> n, bad |-> bad]

CategoryLine(c, p, names) == [cat |-> c, priority |-> p, additive |-> TRUE, apps |-> names]

RootLine(p) == CategoryLine(<< >>, p, << <<"n1">> >>)

MCFiles ==
    {[appenders |-> <<AppenderLine(<<"n1">>, "no")>>,
      categories |-> <<RootLine(600), CategoryLine(<<"a", "b">>, 800, << <<"n1">> >>)>>],
     [appenders |-> <<AppenderLine(<<"n1">>, "no"), AppenderLine(<<"n2">>, "layout")>>,
      categories |-> <<RootLine(600)>>],
     [appenders |-> <<AppenderLine(<<"n1">>, "threshold")>>, categories |-> <<RootLine(600)>>],
     [appenders |-> <<AppenderLine(<<"n1">>, "type")>>, categories |-> <<RootLine(800)>>],
     [appenders |-> << >>,
      categories |-> <<RootLine(600), CategoryLine(<<"a">>, NULL, << >>)>>],
     [appenders |-> << >>, categories |-> <<CategoryLine(<<"a", "b">>, 600, << >>)>>]}
=============================================================================
