----------------------------- MODULE CommandParser -----------------------------
(* ipc/command.hpp: the parser of the daemon's commands, against the grammar of   *)
(* docs/zh-CN/05-linux-ipc.md.                                                    *)
(*                                                                                *)
(* An input is a sequence of pieces: characters that are spaces, and words or     *)
(* parts of words.  Pieces with no space between them are one token, as "-5x" is  *)
(* one of "-5" and "x".  The length of an input is counted in pieces.  A          *)
(* string_view of it is the places from its first to its last; it is empty when   *)
(* the first is behind the last.                                                  *)
EXTENDS CommandLimit, Integers, Sequences, FiniteSetsExt

CONSTANTS
    Vocabularies,            \* the pieces inputs are made of, and how many at most
    Numerals                 \* function: the pieces that are numbers, in hundredths

ASSUME VocabularyAssumption == \A v \in Vocabularies : v.longest \in Nat
ASSUME NumeralsAssumption ==
    /\ DOMAIN Numerals \subseteq UNION {v.pieces : v \in Vocabularies}
    /\ \A n \in DOMAIN Numerals : Numerals[n] \in Int

Simple == {"status", "metrics", "clear", "reset", "shutdown"}
Measured == {"temperature", "vibration", "current"}
InjectionTarget == Measured \cup {"offline"}

CommandOf(kind, target, value) == [kind |-> kind, target |-> target, value |-> value]
Ok(command) == [command |-> command, error |-> "none"]
Error(error) == [command |-> CommandOf("invalid", "none", 0), error |-> error]

---------------------------------------------------------------------------------

is_space(piece) == piece \in {" ", "\t", "\r", "\n"}

\* The first place from .. to with a piece that is no space, or is one; behind the last
\* if there is none.
SkipSpaces(text, from, to) == Min({i \in from .. to : ~is_space(text[i])} \cup {to + 1})
SkipWord(text, from, to) == Min({i \in from .. to : is_space(text[i])} \cup {to + 1})

trim(text) ==
    LET first == SkipSpaces(text, 1, Len(text)) IN
    [first |-> first,
     last |-> Max({i \in first .. Len(text) : ~is_space(text[i])} \cup {first - 1})]

\* Faulty variant: what does not fit the array is forgotten.
OverflowForgotten(tokens) == tokens

Overflow(tokens) == [tokens EXCEPT !.overflow = TRUE]

\* The loop of tokenize() from its head to its head, with the tokens found so far and
\* the place from which the input is left.  Once it would end, nothing changes.
Round(tokens, text, to) ==
    LET start == SkipSpaces(text, tokens.from, to)
        stop == SkipWord(text, start, to)
    IN  IF start > to THEN tokens
        ELSE IF Len(tokens.values) = 4 THEN Overflow(tokens)
        ELSE [tokens EXCEPT !.values = Append(@, SubSeq(text, start, stop - 1)), !.from = stop]

\* Four rounds fill the array, and the fifth ends the loop.
tokenize(text, first, last) ==
    LET Again(tokens) == Round(tokens, text, last)
    IN  Again(Again(Again(Again(Again(
            [values |-> <<>>, overflow |-> FALSE, from |-> first])))))

\* from_chars takes the number at the front of the token and has to end at its end;
\* the pieces that are numbers are finite.
parse_number(token) == Len(token) = 1 /\ token[1] \in DOMAIN Numerals

\* Faulty variant: the ends are not in the range.
in_range_open(target, value) ==
    CASE target = "temperature" -> value > -5000 /\ value < 20000
      [] target = "vibration" -> value > 0 /\ value < 10000
      [] target = "current" -> value > 0 /\ value < 20000

in_range(target, value) ==
    CASE target = "temperature" -> value >= -5000 /\ value <= 20000
      [] target = "vibration" -> value >= 0 /\ value <= 10000
      [] target = "current" -> value >= 0 /\ value <= 20000

parse_inject(tokens) ==
    LET target == tokens[2][1] IN
    CASE Len(tokens) < 2 -> Error("wrong_argument_count")
      [] Len(tokens) >= 2 /\ tokens[2] \notin {<<t>> : t \in InjectionTarget} ->
           Error("unknown_target")
      [] OTHER ->
           CASE target = "offline" /\ Len(tokens) # 2 -> Error("wrong_argument_count")
             [] target = "offline" /\ Len(tokens) = 2 -> Ok(CommandOf("inject", "offline", 0))
             [] target # "offline" /\ Len(tokens) # 3 -> Error("wrong_argument_count")
             [] OTHER ->
                  LET value == Numerals[tokens[3][1]] IN
                  IF ~parse_number(tokens[3]) THEN Error("invalid_number")
                  ELSE IF ~in_range(target, value) THEN Error("out_of_range")
                  ELSE Ok(CommandOf("inject", target, value))

parse_command(text) ==
    LET view == trim(text)
        tokens == tokenize(text, view.first, view.last)
        verb == IF tokens.values = <<>> THEN <<>> ELSE tokens.values[1]
    IN  IF Len(text) > kMaximumCommandLength THEN Error("too_long")
        ELSE IF view.first > view.last THEN Error("empty")
        ELSE IF tokens.overflow THEN Error("wrong_argument_count")
        ELSE IF verb \in {<<s>> : s \in Simple}
        THEN IF Len(tokens.values) # 1 THEN Error("wrong_argument_count")
             ELSE Ok(CommandOf(verb[1], "none", 0))
        ELSE IF verb # <<"inject">> THEN Error("unknown_command")
        ELSE parse_inject(tokens.values)

---------------------------------------------------------------------------------
(* The inputs of each vocabulary, one piece longer with every step.               *)

VARIABLES vocabulary, input

inputVars == <<vocabulary, input>>

InputInit == vocabulary \in Vocabularies /\ input = <<>>

Type ==
    /\ Len(input) < vocabulary.longest
    /\ \E piece \in vocabulary.pieces : input' = Append(input, piece)
    /\ UNCHANGED vocabulary

InputSpec == InputInit /\ [][Type]_inputVars

---------------------------------------------------------------------------------
(* Properties.                                                                    *)

Blank == {" ", "\t", "\r", "\n"}

\* Where the words of the input begin, and where the word that begins at i ends.
Starts ==
    {i \in 1 .. Len(input) :
        input[i] \notin Blank /\ (i = 1 \/ input[i - 1] \in Blank)}
EndOf(i) ==
    CHOOSE j \in i .. Len(input) :
        /\ \A k \in i .. j : input[k] \notin Blank
        /\ j = Len(input) \/ input[j + 1] \in Blank

\* The words of the input in their order: the k-th has k - 1 before it.
StartOf(k) == CHOOSE i \in Starts : Cardinality({j \in Starts : j < i}) = k - 1
WordList ==
    [k \in 1 .. Cardinality(Starts) |->
        LET i == StartOf(k) IN SubSeq(input, i, EndOf(i))]

\* tokenize() finds the words of its input in their order, the first four of them, and
\* says so when there are more.
TokensAreWords ==
    LET tokens == tokenize(input, 1, Len(input))
        words == WordList
    IN  /\ tokens.values = SubSeq(words, 1, IF Len(words) < 4 THEN Len(words) ELSE 4)
        /\ tokens.overflow <=> Len(words) > 4

\* The lines of the grammar, each with the command it means.
Limits ==
    [temperature |-> [from |-> -5000, to |-> 20000], vibration |-> [from |-> 0, to |-> 10000],
     current |-> [from |-> 0, to |-> 20000]]
Within(target, value) == Limits[target].from <= value /\ value <= Limits[target].to
Grammar ==
    {[words |-> <<<<s>>>>, command |-> CommandOf(s, "none", 0)] : s \in Simple}
    \cup {[words |-> <<<<"inject">>, <<"offline">>>>,
           command |-> CommandOf("inject", "offline", 0)]}
    \cup UNION {{[words |-> <<<<"inject">>, <<t>>, <<n>>>>,
                  command |-> CommandOf("inject", t, Numerals[n])] :
                    n \in {m \in DOMAIN Numerals : Within(t, Numerals[m])}} : t \in Measured}

\* docs/zh-CN/05-linux-ipc.md:57-71: what parse_command() accepts are the commands of
\* the grammar with numbers in their range, up to the maximal length and however they
\* are spaced, and each as the command it is.  Everything else is an error.
AcceptsTheGrammar ==
    LET result == parse_command(input)
        words == WordList
        lines == {line \in Grammar : line.words = words}
    IN  IF Len(input) <= kMaximumCommandLength /\ lines # {}
        THEN \A line \in lines : result = Ok(line.command)
        ELSE result.error # "none" /\ result.command.kind = "invalid"

=================================================================================
