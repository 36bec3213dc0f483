---------------------------- MODULE ReaderMeaning ----------------------------
(***************************************************************************)
(* What the reader makes of a text is what the text means.                 *)
(***************************************************************************)
EXTENDS Reader, Grammar

ASSUME TokensAssumption ==
    \A s \in Sources : s.tokens \in Seq({s.tokens[i] : i \in DOMAIN s.tokens})

\* What is left of the tokens of a source from the k-th on.
TokensFrom(s, k) == SubSeq(s.tokens, k, Len(s.tokens))

\* Parse is the parser, wherever in a source it begins.
GrammarIsByParts ==
    \A s \in Sources : \A k \in 1 .. Len(s.tokens) + 1 : ParsedByParts(TokensFrom(s, k), READER_ARRAY_BUFSIZE)

Marks == {OpenParen, CloseParen, QuoteMark}

\* More than any token of a text can ask for.
Unlimited(s) == Memory([pool \in MemPools |-> MemoryEnd(s)], {})

\* A text from p to q is what a token says, read by itself: a blank is skipped,
\* a mark is one char, and an atom is the object it denotes.  A parenthesis
\* closed where an expression should be is an atom that takes no char.
Stands(s, token, p, q) ==
    LET here == Skip(s, p)
        atom == AtomAt(s, Unlimited(s), here)
        IsAtom(obj, next) ==
            /\ atom.val = obj
            /\ ~ atom.mem.refused
            /\ ~ IsError(obj) => Skip(s, atom.next) = Skip(s, next)
    IN  CASE token \in Blanks -> here = Skip(s, q)
          [] token \in Marks -> /\ At(s, here) = token.text /\ q = here + 1
                                /\ token = CloseParen => IsAtom(LispSymbol(""), here)
          [] OTHER -> At(s, here) \notin {NUL, "(", ")", "'"} /\ IsAtom(token.obj, q)

\* So is the whole text, if its tokens begin at these places.
TokensStandAt(s, begins) ==
    /\ begins[1] = 1
    /\ \A k \in 1 .. Len(s.tokens) : Stands(s, s.tokens[k], begins[k], begins[k + 1])
    /\ At(s, Skip(s, begins[Len(s.tokens) + 1])) = NUL

\* The places of the tokens, and the end.
Begins(s) ==
    [k \in 1 .. Len(s.tokens) + 1 |->
        FoldStep(LAMBDA p, t : p + Len(t.text), 1, SubSeq(s.tokens, 1, k - 1))]

\* The lexical part of the reader is right about the tokens of a text, each of
\* them alone and with all the memory it needs.
TokensStand(s) == TokensStandAt(s, Begins(s))
-----------------------------------------------------------------------------
Meant == Parse(source.tokens, READER_MAX_NESTING_LEVEL, READER_ARRAY_BUFSIZE).obj

\* Whatever the text, the objects already read and the blanks and comments in
\* it: the reader gives the object the text denotes, and an error if it has
\* none or exceeds a limit.  Only a shortage of memory may come before.
ReadsAsGrammar == (Done /\ ~ mem.refused) => reading.obj = Meant

\* A caller can tell a wrong text from a shortage (mlisj.c:44): the reader
\* returns Memory_Error when a pool was refused to it or a string is longer
\* than its buffer, and on no other occasion.
MemoryErrorIsShortage ==
    Done => (reading.obj = MemoryError <=> (mem.refused \/ Meant = MemoryError))

\* What the comment "double-quote is not closed" and test_reader_string_broken
\* say: a string without its closing quote is an error.
UnclosedStringIsAnError == (Done /\ Meant = ReaderError) => IsError(reading.obj)

\* The limit is one of nesting, as its name and test_reader_list_nested_toodeep
\* say: a text nested no deeper than the limit is not refused.
OnlyDeepNestingIsRefused ==
    (Done /\ reading.obj = ReaderError) =>
        (Parse(source.tokens, Len(source.tokens), READER_ARRAY_BUFSIZE).obj = ReaderError \/ Nesting(source.tokens) > READER_MAX_NESTING_LEVEL)
=============================================================================
