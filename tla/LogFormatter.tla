----------------------------- MODULE LogFormatter -----------------------------
(***************************************************************************)
(* LogFormatter::init (log.cpp): a pattern, a sequence of characters, is   *)
(* cut into regular strings and format items.                              *)
(***************************************************************************)
EXTENDS Integers, Sequences

CONSTANTS
    FormatItems,    \* the characters of s_format_items, which d is not one of
    Alphabet, MaxPattern    \* the patterns that are compared with the grammar

ASSUME LogFormatterAssumption ==
    /\ FormatItems \cap {"%", "d"} = {}
    /\ MaxPattern \in Nat

\* init's locals.  error is "undefined" where it depends on a character behind the
\* terminating one.
Scanner ==
    [i |-> 1, parsingString |-> TRUE, tmp |-> <<>>, patterns |-> <<>>, dateFormat |-> <<>>,
     error |-> "no"]

\* Push the regular string that was collected, if any.
Flush(s) ==
    IF s.tmp = <<>> THEN s
    ELSE [s EXCEPT !.patterns = Append(@, <<"REGULAR_SYMBOL", s.tmp>>), !.tmp = <<>>]

\* Mutant: the closing brace is not asked for.
DateFormat_Open(p, s) ==
    LET close == {j \in s.i + 1 .. Len(p) : p[j] = "}"}
        end == IF close = {} THEN Len(p) + 1 ELSE CHOOSE j \in close : \A k \in close : j <= k
    IN [s EXCEPT !.dateFormat = @ \o SubSeq(p, s.i + 1, end - 1), !.i = end + 1]

\* Behind %d: the characters up to the closing brace are its format.
DateFormat(p, s) ==
    LET close == {j \in s.i + 1 .. Len(p) : p[j] = "}"}
        end == IF close = {} THEN Len(p) + 1 ELSE CHOOSE j \in close : \A k \in close : j <= k
    IN [s EXCEPT !.dateFormat = @ \o SubSeq(p, s.i + 1, end - 1),
                 !.i = end + 1,
                 !.error = IF s.i > Len(p) THEN "undefined"
                           ELSE IF close = {} THEN "yes" ELSE "no"]

\* One turn of the loop.
Turn(p, s) ==
    LET c == p[s.i]
        next == [s EXCEPT !.i = @ + 1]
        item == [next EXCEPT !.patterns = Append(@, <<"INNER_SYMBOL", c>>), !.parsingString = TRUE]
    IN IF s.parsingString
       THEN IF c = "%" THEN [Flush(next) EXCEPT !.parsingString = FALSE]
            ELSE [next EXCEPT !.tmp = Append(@, c)]
       ELSE IF c # "d" \/ (item.i <= Len(p) /\ p[item.i] # "{") THEN item
       ELSE DateFormat(p, item)

\* The loop ends with the pattern or with an error.
Over(p, s) == s.i > Len(p) \/ s.error = "yes"

\* Where the loop is after n turns; a turn takes at least one character, so that
\* Len(p) of them are enough.
ScanAfter(p) ==
    LET after[n \in 0 .. Len(p)] ==
            IF n = 0 THEN Scanner
            ELSE IF Over(p, after[n - 1]) THEN after[n - 1] ELSE Turn(p, after[n - 1])
    IN after

Scan(p) == ScanAfter(p)[Len(p)]

\* Patterns become items; an unknown one is an error.
Known(patterns) ==
    \A k \in 1 .. Len(patterns) :
        patterns[k][1] = "INNER_SYMBOL" => patterns[k][2] \in FormatItems \cup {"d"}

FormatterError(p) == LET s == Flush(Scan(p)) IN IF Known(s.patterns) THEN s.error ELSE "yes"

-----------------------------------------------------------------------------

\* The documented grammar without its escape, by the prefixes that are of it:
\* regular characters, %c with a known c, %d, and %d{...}.
Production(p, prefix, n) ==
    \/ n = 0
    \/ n >= 1 /\ prefix[n - 1] /\ p[n] # "%"
    \/ n >= 2 /\ prefix[n - 2] /\ p[n - 1] = "%" /\ p[n] \in FormatItems
    \/ n >= 2 /\ prefix[n - 2] /\ p[n - 1] = "%" /\ p[n] = "d"
              /\ (n = Len(p) \/ p[n + 1] # "{")
    \/ \E m \in 3 .. n - 1 :
          /\ prefix[m - 3] /\ p[m - 2] = "%" /\ p[m - 1] = "d" /\ p[m] = "{"
          /\ p[n] = "}" /\ \A k \in m .. n - 1 : p[k] # "}"

\* Whether the first n characters are plain.
PlainUpTo(p) ==
    LET prefix[n \in 0 .. Len(p)] == Production(p, prefix, n) IN prefix

Plain(p) == PlainUpTo(p)[Len(p)]

\* The documented grammar: the escape %% too.
Documented(p) ==
    LET prefix[n \in 0 .. Len(p)] ==
            \/ Production(p, prefix, n)
            \/ n >= 2 /\ prefix[n - 2] /\ p[n - 1] = "%" /\ p[n] = "%"
    IN prefix[Len(p)]

BoundedPatterns == UNION {[1 .. n -> Alphabet] : n \in 0 .. MaxPattern}

\* What init accepts beyond the grammar: a % at the end, which is dropped.
LonePercent(p) == p # <<>> /\ p[Len(p)] = "%" /\ Plain(SubSeq(p, 1, Len(p) - 1))

\* The verdict of init against the grammar: what needs the escape is refused; it may go
\* either way for a documented pattern that ends in %d.
VerdictOf(p) ==
    LET open == FormatterError(p) = "undefined"
    IN /\ ~open => (FormatterError(p) = "no" <=> Plain(p) \/ LonePercent(p))
       /\ Documented(p) /\ ~Plain(p) => FormatterError(p) = "yes" \/ LonePercent(p)
       /\ open => Plain(p) /\ p[Len(p)] = "d"
=============================================================================
