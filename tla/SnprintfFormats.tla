-------------------------- MODULE SnprintfFormats --------------------------
(***************************************************************************)
(* The formats Snprintf is checked with: every conversion with zero, a     *)
(* short and a negative argument, flags, widths and precisions below, at   *)
(* and above the length of the argument, alone and next to literal text.   *)
(***************************************************************************)
EXTENDS Integers

Arg(negative, text) == [negative |-> negative, text |-> text]

Literal ==
    [spec |-> "literal", flags |-> {}, width |-> 0, precision |-> -1,
     arg |-> Arg(FALSE, <<"a", "b">>)]

Arguments ==
    {<<"d", Arg(FALSE, <<"0">>)>>, <<"d", Arg(TRUE, <<"7">>)>>,
     <<"x", Arg(FALSE, <<"1", "2">>)>>, <<"o", Arg(FALSE, <<"7">>)>>,
     <<"s", Arg(FALSE, <<"a", "b", "c">>)>>, <<"s", Arg(FALSE, << >>)>>,
     <<"c", Arg(FALSE, <<"c">>)>>, <<"p", Arg(FALSE, <<"7">>)>>,
     <<"unknown", Arg(FALSE, <<"q">>)>>}

Conversions ==
    {[spec |-> a[1], flags |-> f, width |-> w, precision |-> p, arg |-> a[2]] :
        a \in Arguments, f \in {{}, {"0"}, {"-"}, {"0", "-"}, {"+"}, {" "}, {"#"}},
        w \in {0, 4, -4}, p \in {-1, 0, 3}}

MCFormats ==
    {<<Literal>>} \cup {<<c>> : c \in Conversions} \cup {<<c, Literal>> : c \in Conversions}
        \cup {<<Literal, c>> : c \in Conversions}
=============================================================================
