------------------------------- MODULE LogText ------------------------------
(***************************************************************************)
(* The parsers of log4cpp: PatternLayout::setConversionPattern with the    *)
(* formatting of its components, StringUtil::split, and Properties::load.  *)
(*                                                                         *)
(* A character is a one-letter string; "eol" stands for what std::endl     *)
(* adds.  The pattern arrives one character at a time, so every pattern    *)
(* over an alphabet is a state; those that have a name are initial states. *)
(* A property file arrives line by line, and a line in pieces of the size  *)
(* of the buffer that getline fills.                                       *)
(***************************************************************************)
EXTENDS Integers, Sequences, SequencesExt, FiniteSets, FiniteSetsExt

CONSTANTS
    Alphabets,   \* the sets of characters patterns are made of
    MaxPattern,  \* bound on the length of a pattern
    Lines,       \* the lines property files are made of
    MaxLines,    \* bound on the number of lines
    BufSize,     \* characters that load's line buffer holds
    Env          \* the environment, variable -> value

VARIABLES
    alphabet,    \* the alphabet of this run, {} when a property file is read
    pattern,     \* the characters read so far
    parser,      \* the locals of setConversionPattern and the components
    lines,       \* the lines of the property file so far
    getline,     \* of the last line: what is left, and fullLine
    props        \* the properties, key -> value

textVars == <<alphabet, pattern, parser, lines, getline, props>>

Digit == [c \in {"1", "3"} |-> IF c = "1" THEN 1 ELSE 3]

NumberOf(s) == FoldLeft(LAMBDA n, c : 10 * n + Digit[c], 0, s)

Components == {"m", "c", "d", "p", "r", "R", "t", "u", "x"}

-----------------------------------------------------------------------------
(* setConversionPattern: what one more character makes of the locals p.    *)

Component(kind, text, min, max) ==
    [kind |-> kind, text |-> text, min |-> min, max |-> max]

Flushed(p) ==
    IF p.literal = << >> THEN p
    ELSE [p EXCEPT !.comps = Append(@, Component("literal", p.literal, 0, 0)),
                   !.literal = << >>]

\* Mutant: the widths are not reset.
Emitted_KeepWidths(p) ==
    CASE p.spec = "%" -> [p EXCEPT !.mode = "text", !.literal = Append(@, "%")]
      [] p.spec = "n" -> [p EXCEPT !.mode = "text", !.literal = Append(@, "eol")]
      [] p.spec \in Components ->
             [Flushed(p) EXCEPT !.mode = "text",
                !.comps = Append(@, Component(p.spec, p.post, p.min, p.max))]
      [] OTHER -> [p EXCEPT !.mode = "failed"]

\* The switch on the specifier: %% and %n become literal text and leave the
\* widths read before them to the next component.
Emitted(p) ==
    CASE p.spec = "%" -> [p EXCEPT !.mode = "text", !.literal = Append(@, "%")]
      [] p.spec = "n" -> [p EXCEPT !.mode = "text", !.literal = Append(@, "eol")]
      [] p.spec \in Components ->
             [Flushed(p) EXCEPT !.mode = "text", !.min = 0, !.max = 0,
                !.comps = Append(@, Component(p.spec, p.post, p.min, p.max))]
      [] OTHER -> [p EXCEPT !.mode = "failed"]

InText(p, c) ==
    IF c = "%" THEN [p EXCEPT !.mode = "prefix"]
    ELSE [p EXCEPT !.literal = Append(@, c)]

Specifier(p, c) == [p EXCEPT !.mode = "spec", !.spec = c, !.post = << >>]

\* operator>> of a width takes digits, at least one after a sign or a dot.  The
\* maximal width is unsigned: a negative number wraps to one that no text
\* reaches, and stays negative here.
InPrefix(p, c) ==
    CASE c \in DOMAIN Digit /\ p.mode \in {"prefix", "sign"} ->
             [p EXCEPT !.min = IF p.mode = "sign" THEN -Digit[c] ELSE Digit[c],
                       !.mode = "min"]
      [] c \in DOMAIN Digit /\ p.mode = "min" ->
             [p EXCEPT !.min = @ * 10 + (IF @ < 0 THEN -Digit[c] ELSE Digit[c])]
      [] c \in DOMAIN Digit /\ p.mode \in {"dot", "dotsign"} ->
             [p EXCEPT !.max = IF p.mode = "dotsign" THEN -Digit[c] ELSE Digit[c],
                       !.mode = "max"]
      [] c \in DOMAIN Digit /\ p.mode = "max" ->
             [p EXCEPT !.max = @ * 10 + (IF @ < 0 THEN -Digit[c] ELSE Digit[c])]
      [] c = "-" /\ p.mode = "prefix" -> [p EXCEPT !.mode = "sign"]
      [] c = "-" /\ p.mode = "dot" -> [p EXCEPT !.mode = "dotsign"]
      [] c = "." /\ p.mode \in {"prefix", "min"} -> [p EXCEPT !.mode = "dot"]
      [] \/ c \notin DOMAIN Digit /\ p.mode \in {"sign", "dotsign"}
         \/ c \notin DOMAIN Digit \cup {"-"} /\ p.mode = "dot" -> [p EXCEPT !.mode = "failed"]
      [] OTHER -> Specifier(p, c)

\* A {...} postfix, or the character is put back.
InPostfix(p, c) ==
    CASE p.mode = "spec" /\ c = "{" -> [p EXCEPT !.mode = "brace"]
      [] p.mode = "brace" /\ c = "}" -> Emitted(p)
      [] p.mode = "brace" /\ c # "}" -> [p EXCEPT !.post = Append(@, c)]
      [] OTHER -> LET q == Emitted(p)
                  IN  IF q.mode = "failed" THEN q ELSE InText(q, c)

Read(p, c) ==
    CASE p.mode = "text" -> InText(p, c)
      [] p.mode \in {"prefix", "sign", "min", "dot", "dotsign", "max"} -> InPrefix(p, c)
      [] p.mode \in {"spec", "brace"} -> InPostfix(p, c)
      [] OTHER -> p

\* The end of the stream: in a prefix it is a ConfigureFailure, in a {...} not.
Ended(p) ==
    CASE p.mode \in {"spec", "brace"} -> Flushed(Emitted(p))
      [] p.mode = "text" -> Flushed(p)
      [] OTHER -> [p EXCEPT !.mode = "failed"]

\* The patterns PatternLayout has names for.
Patterns ==
    [default |-> <<"%", "m", "%", "n">>,
     simple |-> <<"%", "p", " ", "-", " ", "%", "m", "%", "n">>,
     basic |-> <<"%", "R", " ", "%", "p", " ", "%", "c", " ", "%", "x", ":", " ", "%", "m",
                 "%", "n">>,
     ttcc |-> <<"%", "r", " ", "[", "%", "t", "]", " ", "%", "p", " ", "%", "c", " ", "%",
                "x", " ", "-", " ", "%", "m", "%", "n">>]

\* create_pattern_layout: the parameter is the name of a pattern, or a pattern.
CreatePatternLayout(p) ==
    IF p = "" THEN Patterns.default ELSE IF p \in DOMAIN Patterns THEN Patterns[p] ELSE p

\* The locals of setConversionPattern before the first character.
Fresh ==
    [mode |-> "text", spec |-> "", post |-> << >>, literal |-> << >>,
     min |-> 0, max |-> 0, comps |-> << >>]

TextInit ==
    /\ \/ alphabet \in Alphabets \cup {{}} /\ pattern = << >>
       \/ /\ pattern \in {CreatePatternLayout(p) : p \in {"", "default", "simple", "basic", "ttcc"}}
          /\ alphabet = Range(pattern)
    /\ parser = FoldLeft(Read, Fresh, pattern)
    /\ lines = << >>
    /\ getline = [rest |-> << >>, full |-> << >>]
    /\ props = << >>

ReadPattern(c) ==
    /\ Len(pattern) < MaxPattern
    /\ parser.mode # "failed"
    /\ pattern' = Append(pattern, c)
    /\ parser' = Read(parser, c)
    /\ UNCHANGED <<alphabet, lines, getline, props>>
-----------------------------------------------------------------------------
(* format.  An event has a category, a message and the other fields, all   *)
(* sequences of characters but the category: that is its parts.            *)

Event == [c |-> << <<"1">>, <<"3">> >>, m |-> <<"m", "m">>, p |-> <<"p">>, t |-> <<"t">>,
          x |-> <<"x">>, r |-> <<"r">>, R |-> <<"R">>, u |-> <<"u">>, d |-> <<"d">>]

Dotted(parts) == FoldLeft(LAMBDA s, x : IF s = << >> THEN x ELSE s \o <<".">> \o x, << >>, parts)

\* %c{n}: the last n parts of the name, all of them without n or for 0; n is
\* what operator>> finds at the beginning of the text.
CategoryName(parts, text) ==
    LET digits == {i \in 1..Len(text) : \A j \in 1..i : text[j] \in DOMAIN Digit}
        n == NumberOf(SubSeq(text, 1, Cardinality(digits)))
    IN  IF n = 0 \/ n >= Len(parts) THEN Dotted(parts)
        ELSE Dotted(SubSeq(parts, Len(parts) - n + 1, Len(parts)))

\* %d{f}: the first %l of f stands for the milliseconds.  The result is what
\* strftime is called with.
TimeFormat(f) ==
    LET at == {i \in 1..(Len(f) - 1) : f[i] = "%" /\ f[i + 1] = "l"}
    IN  IF at = {} THEN f
        ELSE SubSeq(f, 1, Min(at) - 1) \o <<"ms">> \o SubSeq(f, Min(at) + 2, Len(f))

Value(k) ==
    CASE k.kind = "literal" -> k.text
      [] k.kind = "c" -> CategoryName(Event.c, k.text)
      [] k.kind = "d" -> IF k.text = << >> THEN Event.d ELSE TimeFormat(k.text)
      [] OTHER -> Event[k.kind]

Blanks(n) == [i \in 1..n |-> " "]

\* FormatModifierComponent: cut to the maximal width, then fill up to the
\* minimal one, on the left unless the width is negative.
Modified(s, min, max) ==
    LET cut   == IF max > 0 /\ max < Len(s) THEN SubSeq(s, 1, max) ELSE s
        width == IF min < 0 THEN -min ELSE min
        fill  == IF width > Len(cut) THEN Blanks(width - Len(cut)) ELSE << >>
    IN  IF min < 0 THEN cut \o fill ELSE fill \o cut

Format(cs) == FlattenSeq([i \in 1..Len(cs) |-> Modified(Value(cs[i]), cs[i].min, cs[i].max)])
-----------------------------------------------------------------------------
(* Properties::load.                                                       *)

Blank == {" "}

Trim(s) ==
    LET text == {i \in 1..Len(s) : s[i] \notin Blank}
    IN  IF text = {} THEN << >> ELSE SubSeq(s, Min(text), Max(text))

Find(s, c, from) == {i \in from..Len(s) : s[i] = c}

\* StringUtil::split: at most max segments, the last of which is what is left.
Split(s, delimiter, max) ==
    LET from[n \in 1..max, left \in 1..(Len(s) + 1)] ==
            IF n < max /\ Find(s, delimiter, left) # {}
            THEN LET right == Min(Find(s, delimiter, left))
                 IN  <<SubSeq(s, left, right - 1)>> \o from[n + 1, right + 1]
            ELSE <<SubSeq(s, left, Len(s))>>
    IN  from[1, 1]

\* ${key}: an environment variable before a property, nothing if neither is
\* there; ${${} is a literal ${, and without a } the text stays as it is.
Replacement(key, ps) ==
    CASE key = <<"$", "{">> -> key
      [] key \in DOMAIN Env -> Env[key]
      [] key \notin DOMAIN Env /\ key \in DOMAIN ps -> ps[key]
      [] OTHER -> << >>

OpensAt(s, i) == i < Len(s) /\ s[i] = "$" /\ s[i + 1] = "{"

Substituted(s, ps) ==
    LET from[i \in 1..(Len(s) + 1)] ==
            IF i > Len(s) THEN << >>
            ELSE IF ~OpensAt(s, i) THEN <<s[i]>> \o from[i + 1]
            ELSE IF Find(s, "}", i + 2) = {} THEN SubSeq(s, i, Len(s))
            ELSE LET close == Min(Find(s, "}", i + 2))
                 IN  Replacement(SubSeq(s, i + 2, close - 1), ps) \o from[close + 1]
    IN  from[1]

\* "L" is one of the words log4j and log4cpp.
Stripped(left) ==
    IF Len(left) > 1 /\ left[1] = "L" /\ left[2] = "." THEN SubSeq(left, 3, Len(left))
    ELSE left

Uncommented(s) == IF Find(s, "#", 1) = {} THEN s ELSE SubSeq(s, 1, Min(Find(s, "#", 1)) - 1)

\* The properties after one more line; the first value of a key stays.
Inserted(ps, line) ==
    LET s == Uncommented(line)
    IN  IF Find(s, "=", 1) = {} THEN ps
        ELSE LET eq    == Min(Find(s, "=", 1))
                 left  == Stripped(Trim(SubSeq(s, 1, eq - 1)))
                 right == Substituted(Trim(SubSeq(s, eq + 1, Len(s))), ps)
             IN  [k \in DOMAIN ps \cup {left} |-> IF k \in DOMAIN ps THEN ps[k] ELSE right]

\* A new line is begun when the one before is read completely.
ReadLine(l) ==
    /\ alphabet = {}
    /\ Len(lines) < MaxLines
    /\ getline.rest = << >>
    /\ lines' = Append(lines, l)
    /\ getline' = [rest |-> l, full |-> << >>]
    /\ UNCHANGED <<alphabet, pattern, parser, props>>

\* getline into the buffer: a piece that fills it is only a part of the line.
GetPiece ==
    /\ getline.rest # << >>
    /\ LET n    == IF Len(getline.rest) < BufSize THEN Len(getline.rest) ELSE BufSize
           line == getline.full \o SubSeq(getline.rest, 1, n)
       IN  /\ getline' = [rest |-> SubSeq(getline.rest, n + 1, Len(getline.rest)), full |-> line]
           /\ props' = IF n = Len(getline.rest) THEN Inserted(props, line) ELSE props
    /\ UNCHANGED <<alphabet, pattern, parser, lines>>

TextNext ==
    \/ \E c \in alphabet : ReadPattern(c)
    \/ \E l \in Lines : ReadLine(l)
    \/ GetPiece

TextSpec == TextInit /\ [][TextNext]_textVars
-----------------------------------------------------------------------------
(* What a pattern means, by cutting it into literals and specifiers.       *)

IsNumber(s) == \A i \in 1..Len(s) : s[i] \in DOMAIN Digit

\* The ways to read token t as %[-][min][.[-]max]k[{post}]; dot counts the
\* characters of ".-".
Readings(t, last) ==
    {r \in [sign : 0..1, min : 0..Len(t), dot : 0..2, max : 0..Len(t), brace : 0..2] :
        LET k == 1 + r.sign + r.min + r.dot + r.max + 1
        IN  /\ t[1] = "%"
            /\ k <= Len(t)
            /\ r.sign = 1 => t[2] = "-" /\ r.min > 0
            /\ r.sign = 0 /\ r.min = 0 => k = 2 \/ t[2] # "-"
            /\ IsNumber(SubSeq(t, 2 + r.sign, 1 + r.sign + r.min))
            /\ r.dot > 0 => t[2 + r.sign + r.min] = "." /\ r.max > 0
            /\ r.dot = 2 => t[3 + r.sign + r.min] = "-"
            /\ r.dot = 0 => r.max = 0
            /\ IsNumber(SubSeq(t, 2 + r.sign + r.min + r.dot, k - 1))
            /\ t[k] \in Components \cup {"%", "n"}
            /\ r.brace = 0 => k = Len(t)
            /\ r.brace > 0 => k < Len(t) /\ t[k + 1] = "{"
            /\ r.brace = 1 => Len(t) > k + 1 /\ Find(t, "}", k + 2) = {Len(t)}
            /\ r.brace = 2 => last /\ Find(t, "}", k + 2) = {}}

IsToken(t, last, next) ==
    IF t[1] # "%" THEN Len(t) = 1
    ELSE \E r \in Readings(t, last) : r.brace > 0 \/ next # "{"

\* The ways to cut the pattern into tokens.
Tokenizations ==
    LET n == Len(pattern)
        from[i \in 1..(n + 1)] ==
            IF i = n + 1 THEN {<< >>}
            ELSE UNION {{<<SubSeq(pattern, i, j)>> \o rest : rest \in from[j + 1]} :
                           j \in {k \in i..n :
                                     IsToken(SubSeq(pattern, i, k), k = n,
                                             IF k < n THEN pattern[k + 1] ELSE "end")}}
    IN  from[1]

Kind(t) ==
    LET r == CHOOSE r \in Readings(t, TRUE) : TRUE
    IN  t[1 + r.sign + r.min + r.dot + r.max + 1]

\* The text a token stands for; a width holds up to the next component.
Meaning(ts, i) ==
    LET t == ts[i]
        r(j) == CHOOSE r \in Readings(ts[j], TRUE) : TRUE
        min(j) == IF r(j).min = 0 THEN 0
                  ELSE (1 - 2 * r(j).sign) * NumberOf(SubSeq(ts[j], 2 + r(j).sign, 1 + r(j).sign + r(j).min))
        max(j) == LET b == 2 + r(j).sign + r(j).min + r(j).dot
                  IN  IF r(j).dot = 2 THEN 0 ELSE NumberOf(SubSeq(ts[j], b, b + r(j).max - 1))
        \* the specifiers whose widths reach i
        near == {j \in 1..i : /\ ts[j][1] = "%"
                              /\ \A k \in j..(i - 1) : ts[k][1] = "%" => Kind(ts[k]) \in {"%", "n"}}
        mins == {j \in near : r(j).min > 0}
        maxs == {j \in near : r(j).max > 0}
        k == 1 + r(i).sign + r(i).min + r(i).dot + r(i).max + 1
        text == IF r(i).brace = 0 THEN << >>
                ELSE SubSeq(t, k + 2, Len(t) - (IF r(i).brace = 1 THEN 1 ELSE 0))
    IN  CASE t[1] # "%" -> t
          [] t[1] = "%" /\ Kind(t) = "%" -> <<"%">>
          [] t[1] = "%" /\ Kind(t) = "n" -> <<"eol">>
          [] OTHER -> Modified(Value(Component(Kind(t), text, 0, 0)),
                               IF mins = {} THEN 0 ELSE min(Max(mins)),
                               IF maxs = {} THEN 0 ELSE max(Max(maxs)))

\* A pattern is accepted if and only if it can be cut into literal characters
\* and well-formed specifiers, and then an event is formatted as the pieces say
\* one after the other: no literal text is lost, doubled or moved across a
\* component, and a width applies to the next component and to no other.
LayoutMatches ==
    LET end == Ended(parser)
    IN  /\ (end.mode # "failed") = (Tokenizations # {})
        /\ \A ts \in Tokenizations :
               Format(end.comps) = FlattenSeq([i \in 1..Len(ts) |-> Meaning(ts, i)])

\* Whatever text is split where: joined by the delimiter again the segments are
\* the text, only the last one may hold the delimiter, and that only if there
\* are as many segments as were asked for.
SplitMatches ==
    \A max \in 1..4 :
        LET segs == Split(pattern, "%", max)
        IN  /\ FoldLeft(LAMBDA joined, seg : joined \o <<"%">> \o seg, Head(segs), Tail(segs))
                   = pattern
            /\ Len(segs) <= max
            /\ \A i \in 1..Len(segs) :
                   Contains(segs[i], "%") => i = Len(segs) /\ i = max

\* The pieces of a long line are put together again before anything is looked
\* for in them: the properties are those of the complete lines, in their order.
PropertiesMatch ==
    getline.rest = << >> =>
        props = FoldLeft(Inserted, << >>, lines)

\* The parsers read what is there.
TextMatches == LayoutMatches /\ SplitMatches /\ PropertiesMatch
=============================================================================
