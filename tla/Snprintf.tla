------------------------------ MODULE Snprintf ------------------------------
(***************************************************************************)
(* log4cpp's own vsnprintf (snprintf.c), for platforms without one, the    *)
(* asprintf family on top of it, and StringUtil::vform, which calls either *)
(* it or the C library's.                                                  *)
(*                                                                         *)
(* A format is a sequence of items: literal text, or a conversion with its *)
(* parsed flags, width (negative: given by '*' as a negative int),         *)
(* precision (-1: none, or '*' with a negative int) and argument.  size_t  *)
(* is Integers modulo SizeMod: a length is far below it, a difference of   *)
(* lengths may wrap.                                                       *)
(***************************************************************************)
EXTENDS Integers, Sequences, SequencesExt, FiniteSets

CONSTANTS
    Formats,     \* the formats: sequences of items
    BufferSizes, \* the values of str_m the application passes
    SizeMod      \* 2 to the power of the width of size_t

Items ==
    [spec : STRING, flags : SUBSET STRING, width : Int, precision : Int,
     arg : [negative : BOOLEAN, text : Seq(STRING)]]

ASSUME FormatsAssumption ==
    /\ Formats \subseteq Seq(Items)
    /\ BufferSizes \subseteq Nat
    /\ SizeMod \in Nat \ {0}

VARIABLES
    fmt, pos,    \* the format and the next item of it
    str_m,       \* the size of the buffer
    str_l,       \* characters generated so far, modulo SizeMod
    str,         \* what was written where: index -> character
    pass,        \* "print", "measure" (str is NULL) or "done"
    measured,    \* what the measuring pass returned, -1 without one
    limit        \* asnprintf's bound on the buffer, -1 without one

snprintfVars == <<fmt, pos, str_m, str_l, str, pass, measured, limit>>

Minus(a, b) == (a - b) % SizeMod
Least(a, b) == IF a < b THEN a ELSE b
Space == " "
-----------------------------------------------------------------------------
(* One conversion.                                                         *)

\* An unrecognized conversion: its flags and width are forgotten, its last
\* character, which is c.arg.text, is kept.
Unrecognized(c) == c.spec = "unknown"

JustifyLeft(c) == "-" \in c.flags \/ c.width < 0 \/ Unrecognized(c)
MinFieldWidth(c) ==
    IF Unrecognized(c) THEN 0 ELSE IF c.width < 0 THEN -c.width ELSE c.width
Numeric(c) == c.spec \in {"d", "u", "o", "x", "p"}
PrecisionSpecified(c) == c.precision >= 0
ZeroPadding(c) == Numeric(c) /\ "0" \in c.flags /\ ~PrecisionSpecified(c)

\* The sign of a numeric argument, whichever type the length modifier names.
ArgSign(c) ==
    CASE c.arg.text = <<"0">> -> 0
      [] c.spec = "d" /\ c.arg.negative -> -1
      [] OTHER -> 1

\* The text in front of the place where zeros are inserted: sign or 0x (of a
\* pointer that is not NULL the C library writes it).
Prefix(c) ==
    CASE c.spec = "d" /\ ArgSign(c) < 0 -> <<"-">>
      [] c.spec = "d" /\ ArgSign(c) >= 0 /\ "+" \in c.flags -> <<"+">>
      [] c.spec = "d" /\ ArgSign(c) >= 0 /\ Space \in c.flags /\ "+" \notin c.flags -> <<Space>>
      [] c.spec = "x" /\ "#" \in c.flags /\ ArgSign(c) # 0 -> <<"0", "x">>
      [] c.spec = "p" -> <<"0", "x">>
      [] OTHER -> << >>

\* The argument itself: digits, none for zero with precision zero; a string
\* cut to the precision; of an unknown conversion its last character.
Digits(c) ==
    CASE Numeric(c) -> IF c.precision = 0 /\ ArgSign(c) = 0 THEN << >> ELSE c.arg.text
      [] c.spec = "s" /\ PrecisionSpecified(c) ->
             SubSeq(c.arg.text, 1, Least(c.precision, Len(c.arg.text)))
      [] OTHER -> c.arg.text

\* The precision, raised for the leading zero of the alternate octal form.
Precision(c) ==
    LET n == Len(Digits(c))
        p == IF PrecisionSpecified(c) THEN c.precision ELSE 1
    IN  IF c.spec = "o" /\ "#" \in c.flags /\ (n = 0 \/ Digits(c)[1] # "0")
           /\ (~PrecisionSpecified(c) \/ p < n + 1)
        THEN n + 1 ELSE p

\* str_arg_l and number_of_zeros_to_pad, first for the precision, then for
\* the field width.
ArgLen(c) == Len(Prefix(c)) + Len(Digits(c))

PrecisionZeros(c) ==
    IF Numeric(c) /\ Len(Digits(c)) < Precision(c) THEN Precision(c) - Len(Digits(c)) ELSE 0

ZerosToPad(c) ==
    IF ZeroPadding(c) /\ ~JustifyLeft(c)
    THEN (PrecisionZeros(c)
          + Minus(MinFieldWidth(c), ArgLen(c) + PrecisionZeros(c))) % SizeMod
    ELSE PrecisionZeros(c)

\* size_t n = min_field_width - (str_arg_l + number_of_zeros_to_pad).
Fill(c) == Minus(MinFieldWidth(c), (ArgLen(c) + ZerosToPad(c)) % SizeMod)
-----------------------------------------------------------------------------
(* Output.  o is [l |-> str_l, s |-> str].                                 *)

\* Mutant: whether the text fits is asked of its first character only.
Put_NoAvail(o, t) ==
    LET k == IF o.l < str_m THEN Len(t) ELSE 0
    IN  [l |-> (o.l + Len(t)) % SizeMod,
         s |-> [i \in DOMAIN o.s \cup (o.l .. (o.l + k - 1)) |->
                   IF i >= o.l /\ i < o.l + k THEN t[i - o.l + 1] ELSE o.s[i]]]

\* The characters t at str_l, as many of them as fit.
Put(o, t) ==
    LET k == IF o.l < str_m THEN Least(Len(t), str_m - o.l) ELSE 0
    IN  [l |-> (o.l + Len(t)) % SizeMod,
         s |-> [i \in DOMAIN o.s \cup (o.l .. (o.l + k - 1)) |->
                   IF i >= o.l /\ i < o.l + k THEN t[i - o.l + 1] ELSE o.s[i]]]

PutFill(o, n, ch) == Put(o, [i \in 1..n |-> ch])

\* Left padding, the part before the zeros, the zeros, the rest, right padding;
\* without zeros the text is copied in one piece.
Converted(o, c) ==
    LET left == IF JustifyLeft(c) THEN o ELSE PutFill(o, Fill(c), Space)
        body == IF ZerosToPad(c) = 0 THEN Put(left, Prefix(c) \o Digits(c))
                ELSE Put(PutFill(Put(left, Prefix(c)), ZerosToPad(c), "0"), Digits(c))
    IN  IF JustifyLeft(c) THEN PutFill(body, Fill(c), Space) ELSE body

Output(o, item) == IF item.spec = "literal" THEN Put(o, item.arg.text) ELSE Converted(o, item)

Terminated(o) ==
    IF str_m = 0 THEN o
    ELSE LET i == Least(o.l, str_m - 1)
         IN  [o EXCEPT !.s = [j \in DOMAIN @ \cup {i} |-> IF j = i THEN "end" ELSE @[j]]]
-----------------------------------------------------------------------------
SnprintfInit ==
    /\ fmt \in Formats
    /\ pos = 1 /\ str_l = 0 /\ str = << >> /\ measured = -1
    /\ \/ pass = "print" /\ str_m \in BufferSizes /\ limit = -1
       \/ pass = "measure" /\ str_m = 0 /\ limit \in {-1} \cup BufferSizes

Item ==
    /\ pass # "done"
    /\ pos <= Len(fmt)
    /\ LET o == Output([l |-> str_l, s |-> str], fmt[pos])
       IN  str_l' = o.l /\ str' = o.s
    /\ pos' = pos + 1
    /\ UNCHANGED <<fmt, str_m, pass, measured, limit>>

Return ==
    /\ pass = "print"
    /\ pos > Len(fmt)
    /\ str' = Terminated([l |-> str_l, s |-> str]).s
    /\ pass' = "done"
    /\ UNCHANGED <<fmt, pos, str_m, str_l, measured, limit>>

\* asprintf, vasprintf, asnprintf and vasnprintf allocate what the first pass
\* measured, at most the caller's limit, and print again.
Allocate ==
    /\ pass = "measure"
    /\ pos > Len(fmt)
    /\ measured' = str_l
    /\ str_m' = IF limit = -1 THEN str_l + 1 ELSE Least(limit, str_l + 1)
    /\ pass' = IF str_m' = 0 THEN "done" ELSE "print"
    /\ pos' = 1 /\ str_l' = 0
    /\ UNCHANGED <<fmt, str, limit>>

\* vform tries again in a larger buffer when the text did not fit.
VformRetry ==
    /\ pass = "done"
    /\ measured = -1 /\ str_l >= str_m /\ str_m > 0
    /\ str_m' = str_l + 1
    /\ str' = << >> /\ pos' = 1 /\ str_l' = 0 /\ pass' = "print"
    /\ UNCHANGED <<fmt, measured, limit>>

\* getThreadId prints into a buffer of fixed size and, when that was too small,
\* lets asprintf allocate one.
ThreadIdRetry ==
    /\ pass = "done"
    /\ measured = -1 /\ str_l >= str_m /\ str_m > 0
    /\ pass' = "measure" /\ str_m' = 0
    /\ str' = << >> /\ pos' = 1 /\ str_l' = 0
    /\ UNCHANGED <<fmt, measured, limit>>

SnprintfNext == Item \/ Return \/ Allocate \/ VformRetry \/ ThreadIdRetry

SnprintfSpec == SnprintfInit /\ [][SnprintfNext]_snprintfVars
-----------------------------------------------------------------------------
\* Whatever wraps around: no character and no terminator is ever written
\* outside the buffer, what is returned is terminated, and the second pass of
\* the asprintf family generates as many characters as the first measured, as
\* its assertion says.
InBuffer ==
    /\ \A i \in DOMAIN str : i >= 0 /\ i < str_m
    /\ pass = "done" /\ str_m > 0 => \E i \in DOMAIN str : str[i] = "end"
    /\ pass = "done" /\ measured >= 0 /\ str_m > 0 => str_l = measured

\* The characters the format stands for.
Generated(item) ==
    IF item.spec = "literal" THEN Len(item.arg.text)
    ELSE LET n == Len(Prefix(item)) + Len(Digits(item)) + PrecisionZeros(item)
         IN  IF n < MinFieldWidth(item) THEN MinFieldWidth(item) ELSE n

\* The value returned is the number of characters that would be generated for
\* the input (snprintf.c:82).
ReturnsLength ==
    pass = "done" /\ measured = -1 =>
        str_l = FoldLeft(LAMBDA n, item : n + Generated(item), 0, fmt)
=============================================================================
