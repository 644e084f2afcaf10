------------------------------ MODULE CustomInput ------------------------------
(***************************************************************************)
(* The input of a custom tool.  The upstream writes it as the field        *)
(* "input" of the call's JSON arguments; the client gets its decoded text  *)
(* while the arguments still come (partial_custom_tool_input_from_chat_-   *)
(* arguments), and the whole input at the end.  Arguments are sequences of *)
(*   "begin" "end"        the braces of an object                          *)
(*   "colon" "comma" "space"  punctuation and white space                  *)
(*   "key" "other"        the name "input", another name, in quotes        *)
(*   "q"                  a quote                                          *)
(*   "c" "P"              characters; "P" is beyond the BMP                *)
(*   "b"                  a backslash; after it "n", "u" and so on         *)
(*   "x" "hi" "lo"        four hex digits: of "X", or of half a "P".       *)
(* An input is a sequence of "c", "P", "X", "N" (a newline) and "Q".       *)
(***************************************************************************)
EXTENDS Runs, SequencesExt

Start == [arguments |-> <<>>, emitted |-> <<>>, told |-> <<>>, done |-> <<>>,
          failed |-> FALSE]

Symbols ==
    {"begin", "end", "colon", "comma", "space", "key", "other", "q", "c", "P",
     "b", "n", "u", "x", "hi", "lo"}
Characters == {"c", "P", "X", "N", "Q"}

From(s, i) == SubSeq(s, i, Len(s))
At(s, x) == {i \in DOMAIN s : s[i] = x}

Escapes == [n |-> "N", q |-> "Q"]
Hex == [x |-> "X", hi |-> "hi", lo |-> "lo"]

\* One turn of the loop of _partial_json_string_prefix.
Unescape(d, x) ==
    CASE d.mode = "plain" /\ x = "q" -> [d EXCEPT !.mode = "over"]
      [] d.mode = "plain" /\ x = "b" -> [d EXCEPT !.mode = "escape"]
      [] d.mode = "plain" /\ x \notin {"q", "b"} -> [d EXCEPT !.result = Append(@, x)]
      [] d.mode = "escape" /\ x = "u" -> [d EXCEPT !.mode = "hex"]
      [] d.mode = "escape" /\ x \in DOMAIN Escapes ->
            [mode |-> "plain", result |-> Append(d.result, Escapes[x])]
      [] d.mode = "hex" /\ x \in DOMAIN Hex ->
            [mode |-> "plain", result |-> Append(d.result, Hex[x])]
      [] OTHER -> [d EXCEPT !.mode = "over"]

Decodings == [mode : {"plain", "escape", "hex", "over"}, result : Seq(Symbols \cup Characters)]

Unescaping == [p \in Decodings \X Symbols |-> Unescape(p[1], p[2])]

Decoded(t) == Run(Unescaping, [mode |-> "plain", result |-> <<>>], t)

\* Seeded fault of Prefix: a backslash at the end is a character.
PrefixEager(t) ==
    IF Decoded(t).mode = "escape" THEN Append(Decoded(t).result, "b") ELSE Decoded(t).result

\* _partial_json_string_prefix: up to the quote, or an escape that is not whole.
Prefix(t) == Decoded(t).result

\* The input so far, in a set; none before its opening quote.
Partial(arguments) ==
    LET keys == At(arguments, "key")
        colons == {i \in At(arguments, "colon") : keys # {} /\ i > Min(keys)}
        solid == {i \in DOMAIN arguments :
                    colons # {} /\ i > Min(colons) /\ arguments[i] # "space"}
    IN IF solid = {} \/ arguments[Min(solid)] # "q" THEN {}
       ELSE {Prefix(From(arguments, Min(solid) + 1))}

\* Half a character cannot be encoded as UTF-8: the event fails.
Tell(s, delta) ==
    IF Range(delta) \cap {"hi", "lo"} # {} THEN [s EXCEPT !.failed = TRUE]
    ELSE [s EXCEPT !.told = @ \o delta]

\* _custom_input_delta_events
Deltas(s) ==
    IF Partial(s.arguments) \subseteq {s.emitted} THEN s
    ELSE LET prefix == CHOOSE p \in Partial(s.arguments) : TRUE
             known == IF IsPrefix(s.emitted, prefix) THEN s.emitted ELSE <<>>
         IN IF Len(prefix) = Len(known) THEN [s EXCEPT !.emitted = known]
            ELSE Tell([s EXCEPT !.emitted = prefix], From(prefix, Len(known) + 1))

\* push_delta of a custom call
Feed(s, delta) ==
    IF s.failed THEN s ELSE Deltas([s EXCEPT !.arguments = @ \o delta])

-----------------------------------------------------------------------------
(* The arguments that are JSON, with another field or white space or not.  *)

Written(x) ==
    CASE x = "N" -> {<<"b", "n">>}
      [] x = "Q" -> {<<"b", "q">>}
      [] x = "X" -> {<<"b", "u", "x">>}
      [] x = "P" -> {<<"P">>, <<"b", "u", "hi", "b", "u", "lo">>}
      [] x = "c" -> {<<"c">>}

Writing ==
    [p \in (SUBSET Seq(Symbols)) \X Characters |-> {w \o v : w \in p[1], v \in Written(p[2])}]

Writings(input) == Run(Writing, {<<>>}, input)

Field == <<"other", "colon", "q", "c", "q">>

\* json.dumps of the fields, in some order and with some white space.
Arguments(input) ==
    UNION {{<<"begin", "key", "colon", "q">> \o w \o <<"q", "end">>,
            <<"begin", "key", "colon", "space", "q">> \o w \o <<"q", "comma">> \o Field \o <<"end">>,
            <<"begin">> \o Field \o <<"comma", "key", "colon", "q">> \o w \o <<"q", "end">>} :
           w \in Writings(input)}

\* custom_tool_input_from_chat_arguments of the canonical arguments: without
\* arguments they are "{}", and what has no input is the input.
Final(arguments, Inputs) ==
    CASE arguments = <<>> -> <<"begin", "end">>
      [] \E i \in Inputs : arguments \in Arguments(i) ->
            CHOOSE i \in Inputs : arguments \in Arguments(i)
      [] OTHER -> arguments

\* _finalize_state of a custom call: what was not told, or all of it again.
End(s, Inputs) ==
    LET input == Final(s.arguments, Inputs)
        rest == IF IsPrefix(s.emitted, input) THEN From(input, Len(s.emitted) + 1) ELSE input
    IN IF s.failed THEN s ELSE [Tell(s, rest) EXCEPT !.emitted = input, !.done = input]
=============================================================================
