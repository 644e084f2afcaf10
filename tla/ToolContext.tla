------------------------------ MODULE ToolContext ------------------------------
(***************************************************************************)
(* The tool context of a request (bridge_context): what each name that the *)
(* upstream may call stands for.  It is built from the tools of the        *)
(* request and from some items of its input, merged into the context of    *)
(* the session the request continues, used to translate calls both ways,   *)
(* and saved with the session.                                             *)
(*                                                                         *)
(* A name is a sequence of segments, which the code joins with "__".  A    *)
(* flat namespace is as many declarations as it has children; tools        *)
(* without a name, or of a type nobody knows, change nothing and are left  *)
(* out.  chat_tools is kept in two sets: its order steers nothing.         *)
(***************************************************************************)
EXTENDS Naturals, Sequences, FiniteSets

CONSTANTS
    Decls,       \* the tools clients declare
    Hosted,      \* hosted tools (web_search, ...)
    CustomItems, \* the names of custom_tool_call items in inputs
    None,        \* no namespace, no name, no spec
    MaxLen,      \* CHAT_TOOL_NAME_MAX_LEN, in segments
    Digest(_),   \* short_sha256_hex
    MaxDecls,    \* bound: declarations and items in a request
    MaxTurns     \* bound: turns

Kinds == {"function", "custom", "tool_search", "namespace"}

Proxy == <<"tool_search">>

\* flatten_namespace_tool_name
Flatten(space, name) ==
    LET full == space \o name IN
    IF Len(full) <= MaxLen THEN full
    ELSE Append(SubSeq(full, 1, MaxLen - 1), Digest(full))

\* The name a tool has upstream, were no other in the way.
ChatName(d) ==
    CASE d.kind = "tool_search" -> Proxy
      [] d.kind # "tool_search" /\ d.space # None -> Flatten(d.space, d.name)
      [] OTHER -> d.name

\* A custom tool that is only known from a call in the input.
Called(name) ==
    [kind |-> "custom", space |-> None, name |-> name, actions |-> {}, schema |-> "none"]

SearchTool ==
    [kind |-> "tool_search", space |-> None, name |-> Proxy, actions |-> {}, schema |-> "none"]

Specs == Decls \cup {SearchTool} \cup {Called(n) : n \in CustomItems}
ChatNames == {ChatName(d) : d \in Specs}
Spaced == {<<d.space, d.name>> : d \in {e \in Specs : e.space # None}}

ASSUME ToolAssumption ==
    /\ \A d \in Decls : d.kind \in Kinds
    /\ \A d \in Decls : d.kind = "tool_search" => d = SearchTool
    /\ \A d \in Decls : d.kind = "custom" => d.space = None
    /\ \A d \in Decls : d.kind = "namespace" => d.space = d.name /\ d.space # None
    /\ None \notin Specs \cup ChatNames
    /\ MaxDecls \in Nat /\ MaxTurns \in Nat

VARIABLES
    policy,   \* settings.unsupported_tool_policy
    phase,    \* "idle", "tools" or "items": what of a request is being read
    from,     \* the turn whose session it continues, or 0
    context,  \* what build_tool_context_from_request has so far
    declared, \* the tools it declared, in their order
    read,     \* how many declarations and items were read
    sessions  \* what each turn saved: its context, the turn it continued, its tools

vars == <<policy, phase, from, context, declared, read, sessions>>

-----------------------------------------------------------------------------
(* BridgeToolContext.                                                      *)

EmptyContext ==
    [custom |-> {}, search |-> FALSE, spec |-> [n \in ChatNames |-> None],
     tools |-> {}, hosted |-> {}, seen |-> {}, spaces |-> [p \in Spaced |-> None]]

IsCustom(c, n) == n \in c.custom

\* Seeded fault of IsToolSearch: the name is enough.
IsToolSearchByName(c, n) == n = Proxy

IsToolSearch(c, n) == n = Proxy /\ c.search

ChatNameFor(c, space, name) ==
    IF space = None THEN name
    ELSE IF <<space, name>> \in Spaced /\ c.spaces[<<space, name>>] # None
         THEN c.spaces[<<space, name>>]
         ELSE Flatten(space, name)

\* Seeded fault of Restore: every name is split.
RestoreSplit(c, n) ==
    IF Len(n) > 1 THEN [space |-> SubSeq(n, 1, Len(n) - 1), name |-> <<n[Len(n)]>>]
    ELSE [space |-> None, name |-> n]

\* What a name stands for; one that is not known is split at its last "__".
Restore(c, n) ==
    IF n \in ChatNames /\ c.spec[n] # None THEN [space |-> c.spec[n].space, name |-> c.spec[n].name]
    ELSE IF Len(n) > 1 THEN [space |-> SubSeq(n, 1, Len(n) - 1), name |-> <<n[Len(n)]>>]
    ELSE [space |-> None, name |-> n]

Register(c, n, d) ==
    [c EXCEPT !.seen = @ \cup {n}, !.spec[n] = d,
              !.spaces = [p \in Spaced |-> IF p = <<d.space, d.name>> THEN n ELSE @[p]],
              !.tools = @ \cup {[name |-> n, tool |-> d]},
              !.custom = IF d.kind = "custom" THEN @ \cup {n} ELSE @,
              !.search = @ \/ d.kind = "tool_search"]

\* Seeded fault of AddChatTool: the last tool of a name counts.
AddChatToolAnew(c, n, d) == Register(c, n, d)

\* The first tool of a name is the one that counts.
AddChatTool(c, n, d) == IF n \in c.seen THEN c ELSE Register(c, n, d)

\* A nested namespace is one tool of the name its own name makes with itself.
AddResponseTool(c, d) ==
    AddChatTool(c, IF d.kind = "function" THEN ChatNameFor(c, d.space, d.name) ELSE ChatName(d), d)

\* Seeded fault of AddCalled: the tool is taken for a function.
AddCalledPlain(c, n) ==
    [c EXCEPT !.spec[n] = IF @ = None THEN [Called(n) EXCEPT !.kind = "function"] ELSE @]

AddCalled(c, n) ==
    [c EXCEPT !.custom = @ \cup {n}, !.spec[n] = IF @ = None THEN Called(n) ELSE @]

-----------------------------------------------------------------------------
(* merge: of the tools of the other context, those with new names.  There  *)
(* is at most one of a name (ToolsMatchSpecs), so their order is immaterial. *)

\* Seeded fault of NewTools: a tool is known when it was called.
NewToolsUnknown(c, other) == {t \in other.tools : c.spec[t.name] = None}

NewTools(c, other) ==
    {t \in other.tools : t.name \notin c.seen /\ other.spec[t.name] # None}

MergeTools(c, other) ==
    LET new == NewTools(c, other)
        names == {t.name : t \in new}
        naming(p) == {n \in names : <<other.spec[n].space, other.spec[n].name>> = p}
    IN  [c EXCEPT !.hosted = @ \cup other.hosted,
                  !.tools = @ \cup new,
                  !.seen = @ \cup names,
                  !.spec = [n \in ChatNames |-> IF n \in names THEN other.spec[n] ELSE @[n]],
                  !.spaces = [p \in Spaced |->
                                IF naming(p) # {} THEN CHOOSE n \in naming(p) : TRUE ELSE @[p]],
                  !.custom = @ \cup {n \in names : other.spec[n].kind = "custom"},
                  !.search = @ \/ \E n \in names : other.spec[n].kind = "tool_search"]

MergeCustom(c, other) ==
    [c EXCEPT !.custom = @ \cup other.custom,
              !.spec = [n \in ChatNames |->
                          IF n \in other.custom /\ @[n] = None THEN other.spec[n] ELSE @[n]]]

Merge(c, other) ==
    LET merged == MergeCustom(MergeTools(c, other), other) IN
    IF other.search THEN AddChatTool(merged, Proxy, SearchTool) ELSE merged

-----------------------------------------------------------------------------
(* Calls of the upstream, as items of the response, and back.  action is   *)
(* the action of a nested namespace that the arguments select, or None;    *)
(* tagged are arguments with anything to take out: an "action", known or   *)
(* not, or "params".  An item has the arguments of the call in their       *)
(* canonical form, or stripped: without "action", with "params" unpacked.  *)

Nested(c, n) == n \in ChatNames /\ c.spec[n] # None /\ c.spec[n].kind = "namespace"

Item(type, space, name, args) ==
    [type |-> type, space |-> space, name |-> name, args |-> args]

SpecName(c, n) == IF n \in ChatNames /\ c.spec[n] # None THEN c.spec[n].name ELSE n

SpecSpace(c, n) == IF n \in ChatNames /\ c.spec[n] # None THEN c.spec[n].space ELSE None

\* Not streamed: what is tagged is stripped, whatever the action is.
BufferedItem(c, n, action, tagged) ==
    IF IsToolSearch(c, n) THEN Item("tool_search_call", None, None, "canonical")
    ELSE IF IsCustom(c, n) THEN Item("custom_tool_call", None, SpecName(c, n), "canonical")
    ELSE Item("function_call", SpecSpace(c, n),
              IF Nested(c, n) /\ action # None THEN action ELSE SpecName(c, n),
              IF Nested(c, n) /\ tagged THEN "stripped" ELSE "canonical")

\* Streamed (stream_state): a nested call takes the name of its action before
\* its kind is looked for, and is stripped only if the action is known.
StreamedItem(c, n, action, tagged) ==
    LET resolved == Nested(c, n) /\ action # None
        name == IF resolved THEN action ELSE n
        args == IF resolved THEN "stripped" ELSE "canonical"
        restored == Restore(c, name)
    IN  IF IsCustom(c, name) THEN Item("custom_tool_call", None, name, args)
        ELSE IF IsToolSearch(c, name) THEN Item("tool_search_call", None, None, args)
        ELSE IF resolved THEN Item("function_call", c.spec[n].space, name, args)
        ELSE IF restored.space # None
             THEN Item("function_call", restored.space, restored.name, args)
        ELSE Item("function_call", None, name, args)

\* Seeded fault of Replayed: the names of the session are not looked at.
ReplayedFlat(c, item) ==
    CASE item.type = "tool_search_call" -> Proxy
      [] item.type = "custom_tool_call" -> item.name
      [] OTHER -> item.name

\* The name a call in the input is given upstream, and one in tool_choice.
Replayed(c, item) ==
    CASE item.type = "tool_search_call" -> Proxy
      [] item.type = "custom_tool_call" -> item.name
      [] OTHER -> ChatNameFor(c, item.space, item.name)

-----------------------------------------------------------------------------
(* Requests.                                                               *)

Init ==
    /\ policy \in {"reject", "passthrough", "ignore"}
    /\ phase = "idle" /\ from = 0 /\ read = 0
    /\ context = EmptyContext /\ declared = <<>>
    /\ sessions = <<>>

StartTurn(i) ==
    /\ phase = "idle" /\ Len(sessions) < MaxTurns
    /\ phase' = "tools" /\ from' = i
    /\ context' = EmptyContext /\ declared' = <<>> /\ read' = 0
    /\ UNCHANGED <<policy, sessions>>

\* A tool of the request, or one a tool_search_output in its input has found.
Declare(d) ==
    /\ phase \in {"tools", "items"} /\ read < MaxDecls
    /\ context' = AddResponseTool(context, d)
    /\ declared' = Append(declared, d) /\ read' = read + 1
    /\ UNCHANGED <<policy, phase, from, sessions>>

DeclareHosted(h) ==
    /\ phase \in {"tools", "items"} /\ read < MaxDecls
    /\ policy # "reject"
    /\ context' = IF policy = "passthrough" THEN [context EXCEPT !.hosted = @ \cup {h}] ELSE context
    /\ read' = read + 1
    /\ UNCHANGED <<policy, phase, from, declared, sessions>>

\* The request is answered with an error.
RejectHosted ==
    /\ phase \in {"tools", "items"} /\ read < MaxDecls
    /\ policy = "reject"
    /\ phase' = "idle"
    /\ UNCHANGED <<policy, from, context, declared, read, sessions>>

\* The input is read after the tools.
CallCustom(n) ==
    /\ phase \in {"tools", "items"} /\ read < MaxDecls
    /\ phase' = "items"
    /\ context' = AddCalled(context, n)
    /\ read' = read + 1
    /\ UNCHANGED <<policy, from, declared, sessions>>

Current == IF from = 0 THEN context ELSE Merge(sessions[from].context, context)

\* The request is sent and answered with this context, and the session saved.
Answer ==
    /\ phase \in {"tools", "items"}
    /\ sessions' = Append(sessions, [context |-> Current, from |-> from, declared |-> declared])
    /\ phase' = "idle"
    /\ UNCHANGED <<policy, from, context, declared, read>>

Next ==
    \/ \E i \in 0..Len(sessions) : StartTurn(i)
    \/ \E d \in Decls : Declare(d)
    \/ \E h \in Hosted : DeclareHosted(h)
    \/ Hosted # {} /\ RejectHosted
    \/ \E n \in CustomItems : CallCustom(n)
    \/ Answer

Spec == Init /\ [][Next]_vars

-----------------------------------------------------------------------------
(* Properties.                                                             *)

\* Clients that never use the name of a custom tool for another one: merge adds
\* the custom names of a request to those of the session although the session
\* keeps the tools it has, and so makes a function custom.
KeepsKind ==
    \A d \in Specs, e \in Specs :
        ChatName(d) = ChatName(e) /\ d.kind = "custom" => e.kind = "custom"

ChatTools == [name : ChatNames, tool : Specs]

Contexts ==
    [custom : SUBSET ChatNames, search : BOOLEAN,
     spec : [ChatNames -> Specs \cup {None}],
     tools : SUBSET ChatTools, hosted : SUBSET Hosted, seen : SUBSET ChatNames,
     spaces : [Spaced -> ChatNames \cup {None}]]

TypeOK ==
    /\ policy \in {"reject", "passthrough", "ignore"}
    /\ phase \in {"idle", "tools", "items"}
    /\ from \in 0..Len(sessions)
    /\ context \in Contexts
    /\ declared \in Seq(Decls)
    /\ read \in 0..MaxDecls
    /\ sessions \in Seq([context : Contexts, from : Nat, declared : Seq(Decls)])

Turns == DOMAIN sessions

\* What is known of a name is what the upstream was told of it: there is one tool
\* of the name, and the spec its calls are translated by comes from the same
\* declaration (add_chat_tool, merge: three dicts, a set and a list in step).
ToolsMatchSpecs ==
    \A i \in Turns : LET c == sessions[i].context IN
        /\ \A t \in c.tools : c.spec[t.name] = t.tool
        /\ c.seen = {t.name : t \in c.tools}

\* The first declaration of each name, as the upstream is told of it.
FirstOf(ds) ==
    {[name |-> ChatName(ds[k]), tool |-> ds[k]] :
        k \in {l \in DOMAIN ds : \A j \in 1..(l - 1) : ChatName(ds[j]) # ChatName(ds[l])}}

\* The upstream gets the tools of the session a turn continues and, of those the
\* turn declares, the first of each name the session does not have: none else is
\* lost and nothing more is told, and a tool_choice for a tool names what is
\* there under its name (add_chat_tool, merge).
DeclaredArrive ==
    \A i \in Turns :
        LET c == sessions[i].context
            old == IF sessions[i].from = 0 THEN EmptyContext ELSE sessions[sessions[i].from].context
            names == {t.name : t \in old.tools}
        IN  /\ c.tools = old.tools \cup {t \in FirstOf(sessions[i].declared) : t.name \notin names}
            /\ old.hosted \subseteq c.hosted
            /\ \A k \in DOMAIN sessions[i].declared :
                  LET d == sessions[i].declared[k] IN
                  ChatNameFor(c, d.space, d.name) \in {t.name : t \in c.tools}

\* The client sees a call as one of the tool the upstream was told of under its
\* name: of its kind, in its namespace (is_custom_tool, restore).
CallsAreOfTheirTool ==
    \A i \in Turns : LET c == sessions[i].context IN
        \A t \in c.tools :
            BufferedItem(c, t.name, None, FALSE) =
                CASE t.tool.kind = "custom" -> Item("custom_tool_call", None, t.tool.name, "canonical")
                  [] t.tool.kind = "tool_search" -> Item("tool_search_call", None, None, "canonical")
                  [] OTHER -> Item("function_call", t.tool.space, t.tool.name, "canonical")

\* Is a call of the tool n the same item streamed or not?
SameItem(c, n, action, tagged) ==
    StreamedItem(c, n, action, tagged) = BufferedItem(c, n, action, tagged)

\* The action has neither the name of a custom tool nor that of tool_search.
Plain(c, action) == ~IsCustom(c, action) /\ ~IsToolSearch(c, action)

\* A call is the same item streamed or not, its arguments included, unless the
\* action it selects has the name of a custom tool or of tool_search, or it is a
\* nested call that selects none of the actions: only the buffered answer
\* normalizes the arguments of that.
ModesAgree ==
    \A i \in Turns : LET c == sessions[i].context IN
        \A t \in c.tools, tagged \in BOOLEAN : \A a \in t.tool.actions \cup {None} :
            Plain(c, a) /\ (a # None => tagged) /\ (t.tool.kind = "namespace" /\ tagged => a # None)
                => SameItem(c, t.name, a, tagged)

\* A call the client was given, and sends back in this turn or one that continues
\* it, goes upstream under the name the upstream called (chat_name_for_function);
\* an action of a nested namespace does not.
CallsReturn ==
    \A i \in Turns : \A j \in {i} \cup {k \in Turns : sessions[k].from = i} :
        \A t \in sessions[i].context.tools, tagged \in BOOLEAN :
            Replayed(sessions[j].context, BufferedItem(sessions[i].context, t.name, None, tagged))
                = t.name
=============================================================================
