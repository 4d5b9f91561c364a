\* Every input of up to nine pieces of space and two words, and of up to six pieces of
\* space, a simple command and the words of inject.
CONSTANTS
    Vocabularies <- MCVocabularies
    Numerals <- MCNumerals
    kMaximumCommandLength = 8
SPECIFICATION InputSpec
INVARIANTS TokensAreWords AcceptsTheGrammar
\* An input does not grow for ever.
CHECK_DEADLOCK FALSE
