-------------------------------- MODULE MCLog -------------------------------
(***************************************************************************)
(* The parts of log4cpp side by side: a behaviour is one of one part, the  *)
(* variables of the others stay as they are.  The parts share no state (a  *)
(* category reaches an appender only through doAppend), so nothing is lost *)
(* by looking at one at a time.                                            *)
(***************************************************************************)
EXTENDS MCLogConfigure, MailSender, Snprintf, SnprintfFormats, LogFiles, LogSinks, TLC

CONSTANTS
    Alphabets, MaxPattern, Lines, MaxLines, BufSize, Env

VARIABLES
    part,
    alphabet, pattern, parser, lines, getline, props

TextPart  == INSTANCE LogText

textVars  == <<alphabet, pattern, parser, lines, getline, props>>
-----------------------------------------------------------------------------
LogInit ==
    /\ part \in {"configure", "files", "text", "print", "sinks", "mail"}
    /\ ConfInit /\ MailInit /\ SnprintfInit /\ FilesInit /\ SinksInit
    /\ part # "print" => fmt = <<Literal>> /\ str_m = 0 /\ limit = -1 /\ pass = "print"
    /\ part # "files" => kind = "plain" /\ ~conf.trunc
    /\ IF part = "text" THEN TextPart!TextInit
       ELSE /\ alphabet = NULL /\ pattern = NULL /\ parser = NULL /\ lines = NULL
            /\ getline = NULL /\ props = NULL
    /\ part # "sinks" => sink = "queue"

LogNext ==
    \/ /\ part = "configure" /\ ConfNext
       /\ UNCHANGED <<part, fileVars, textVars, snprintfVars, sinkVars, mailVars>>
    \/ /\ part = "files" /\ FilesNext
       /\ UNCHANGED <<part, confVars, textVars, snprintfVars, sinkVars, mailVars>>
    \/ /\ part = "text" /\ TextPart!TextNext
       /\ UNCHANGED <<part, confVars, fileVars, snprintfVars, sinkVars, mailVars>>
    \/ /\ part = "print" /\ SnprintfNext
       /\ UNCHANGED <<part, confVars, fileVars, textVars, sinkVars, mailVars>>
    \/ /\ part = "sinks" /\ SinksNext
       /\ UNCHANGED <<part, confVars, fileVars, textVars, snprintfVars, mailVars>>
    \/ /\ part = "mail" /\ MailNext
       /\ UNCHANGED <<part, confVars, fileVars, textVars, snprintfVars, sinkVars>>

LogSpec ==
    LogInit /\ [][LogNext]_<<part, confVars, fileVars, textVars, snprintfVars, sinkVars, mailVars>>
-----------------------------------------------------------------------------
(* The instance.                                                           *)

MCAlphabets == {{"%", "-", "3", ".", "{", "}", "m", "n"},
                {"%", "d", "c", "{", "}", "l", "1"}}

MCMaxMsgs == [plain |-> 4, rolling |-> 4, daily |-> 3]

\* Two whole days and the beginning of a third.
MCLocalDay == <<1, 1, 2, 2, 3>>

MCConfs == [trunc : BOOLEAN, backups : {2}, size : {2}, days : {1}]

MCEnv == (<<"h">> :> <<"e">>)

\* Plain and indented definitions, a comment, a reference to another key, to
\* the environment and to neither, one that is not closed, and no definition.
MCLines ==
    {<<"a", "=", "b">>, <<"L", ".", "a", " ", "=", " ", "c">>,
     <<"b", "=", "$", "{", "a", "}">>, <<"#", "a", "=", "d">>, <<"b", "=", "a", "#", "$">>,
     <<"c", "=", "$", "{", "h", "}", "$", "{", "b">>,
     <<"c", "=", "$", "{", "$", "{", "}", "x">>, <<"x">>}

\* The addresses of appenders are interchangeable.
Symmetry == Permutations(Apps)

MCFilters == {[deny |-> {300}, accept |-> {}], [deny |-> {700}, accept |-> {300}]}
-----------------------------------------------------------------------------
\* The layout and the properties are what the pattern and the lines say (see
\* LogText), whatever the order of literals, specifiers, widths and pieces.
TextMatches == part = "text" => TextPart!TextMatches
=============================================================================
