---------------------------- MODULE MCPieceReaders ----------------------------
(* PieceReaders on short texts.                                             *)
EXTENDS PieceReaders, SequencesExt

Texts(Units, n) ==
    {FlattenSeq(u) : u \in UNION {[1..k -> Units] : k \in 1..n}}

\* Up to four lines: data, with a character of two bytes or a separator in it,
\* an error event, and the empty lines that end a message.
MCStreams ==
    Texts({<<"n">>, <<"d", "a", "n">>, <<"d", "n">>, <<"d", "H", "T", "a", "n">>, <<"d", "a", "s", "a", "n">>,
           <<"e", "n">>, <<"a", "n">>}, 4)

\* Words, white space and tags, a word that begins like a tag among them.
MCAnswers == Texts({<<"w">>, <<"space">>, <<"o", "k">>, <<"c", "k">>, <<"o", "w">>}, 5)

MCInputs == UNION {[1..k -> {"c", "N", "Q", "X", "P"}] : k \in 0..2}

\* Nothing, an input cut off within an escape, and no object at all.
MCCutoffs == {<<>>, <<"begin", "key", "colon", "q", "c", "b">>,
              <<"begin", "key", "colon", "q", "c">>, <<"begin", "key", "colon">>, <<"c", "c">>}
=============================================================================
