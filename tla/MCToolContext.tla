---------------------------- MODULE MCToolContext ----------------------------
(* ToolContext on a few tools: every kind, names that collide, names that  *)
(* are cut, a tool that is redefined.                                      *)
EXTENDS ToolContext

Tool(kind, space, name, actions, schema) ==
    [kind |-> kind, space |-> space, name |-> name, actions |-> actions, schema |-> schema]

Fun(name, schema) == Tool("function", None, name, {}, schema)
Child(space, name) == Tool("function", space, name, {}, "old")

MCDecls ==
    {Fun(<<"a">>, "old"), Fun(<<"a">>, "new"),
     Fun(<<"k", "r">>, "old"), Child(<<"k">>, <<"r">>), Child(<<"k">>, <<"r", "s">>),
     Child(<<"k">>, <<"k">>), Tool("namespace", <<"k">>, <<"k">>, {<<"r">>, <<"p">>}, "old"),
     Tool("custom", None, <<"p">>, {}, "old"), Tool("custom", None, <<"p">>, {}, "new"),
     Fun(Proxy, "old"), SearchTool}

MCCustomItems == {<<"p">>, <<"q">>}
MCHosted == {"web_search"}
MCDigest(full) == "#" \o full[1] \o full[2] \o full[3]
=============================================================================
