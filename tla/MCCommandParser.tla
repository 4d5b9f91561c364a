---------------------------- MODULE MCCommandParser ----------------------------
(* CommandParser for TLC.                                                         *)
EXTENDS CommandParser, TLC

\* The numbers at the ends of the ranges, and one beyond.
MCNumerals ==
    ("-50" :> -5000) @@ ("100" :> 10000) @@ ("200" :> 20000) @@ ("200.01" :> 20001)

\* Two words and much space: every way to cut an input into up to five tokens.
Spaced == [pieces |-> {" ", "\n", "inject", "temperature"}, longest |-> 9]

\* A simple command and the words of inject, with one place more than it needs.
Commands ==
    [pieces |-> {" ", "status", "inject", "temperature", "vibration", "current", "offline"}
                    \cup DOMAIN MCNumerals,
     longest |-> 6]

MCVocabularies == {Spaced, Commands}
=================================================================================
