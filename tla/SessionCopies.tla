----------------------------- MODULE SessionCopies -----------------------------
(***************************************************************************)
(* Sessions and turns as the objects they are in memory: a session and a   *)
(* turn have a list of references to message objects and a reference to a  *)
(* tool context; some steps change objects in place, others make new       *)
(* lists of the same objects.  What keeps turns apart that continue one    *)
(* session are the copies a SessionRecord makes.                           *)
(*                                                                         *)
(* A turn is converted without an await; others run while it waits for the *)
(* upstream, which is when its messages are read.  Which sessions there     *)
(* still are is the business of SessionStore, whose steps are taken here;  *)
(* a turn is named by the id of its response.  Objects are never freed.    *)
(* System messages, which every turn makes anew, are left out.             *)
(***************************************************************************)
EXTENDS SessionStore, Sequences

CONSTANTS Calls, NoCall

VARIABLES
    memory,   \* the objects: messages and tool contexts, by reference
    records,  \* the record each turn gave the store
    turns     \* what each turn refers to while it is under way

copies == <<memory, records, turns>>

\* What references refer to.
Contents(refs) == [k \in DOMAIN refs |-> memory.messages[refs[k]]]

V == INSTANCE SessionValues WITH
        Turns <- Ids,
        saved <- [s \in DOMAIN records |->
                    [messages |-> Contents(records[s].messages),
                     tools |-> memory.contexts[records[s].tools],
                     cache |-> records[s].cache]],
        turns <- [t \in Ids |->
                    [phase |-> turns[t].phase,
                     messages |-> Contents(turns[t].messages),
                     tools |-> IF turns[t].tools = 0 THEN {} ELSE memory.contexts[turns[t].tools]]]

-----------------------------------------------------------------------------
(* Operations on memory; those that give a list or a record give the       *)
(* memory with it.                                                         *)

New(mem, m) == [mem EXCEPT !.messages = Append(@, m)]

\* A message object changes in place.
Change(mem, ref, m) ==
    [mem EXCEPT !.messages = [a \in DOMAIN @ |-> IF a = ref THEN m ELSE @[a]]]

\* Seeded fault of Record: the list is copied, its messages are not.
RecordShallow(mem, r) ==
    [memory |-> [mem EXCEPT !.contexts = Append(@, mem.contexts[r.tools])],
     record |-> [r EXCEPT !.tools = Len(mem.contexts) + 1]]

\* SessionRecord: messages and tool context are copied with all they refer to.
Record(mem, r) ==
    [memory |-> [messages |-> mem.messages \o [k \in DOMAIN r.messages |-> mem.messages[r.messages[k]]],
                 contexts |-> Append(mem.contexts, mem.contexts[r.tools])],
     record |-> [r EXCEPT !.messages = [k \in DOMAIN @ |-> Len(mem.messages) + k],
                          !.tools = Len(mem.contexts) + 1]]

\* What SessionStore.get returns.
Copied(s) == Record(memory, records[s])

\* apply_reasoning_cache changes the messages of a record.
ApplyCache(mem, r) ==
    [mem EXCEPT !.messages =
        [a \in DOMAIN @ |-> IF a \in {r.messages[k] : k \in DOMAIN r.messages}
                            THEN V!Restored(@[a], r.cache) ELSE @[a]]]

\* _merge_tool_contexts changes a copy of the context, which comes last.
MergeTools(mem, r, t) == [mem EXCEPT !.contexts = Append(@, @[r.tools] \cup {t})]

\* A text is a new message; a reasoning is joined to the last message of the
\* assistant where that is.
Take(mem, refs, t, input) ==
    LET at == V!LastSaid([k \in DOMAIN refs |-> mem.messages[refs[k]]])
        said == mem.messages[refs[at]]
    IN  CASE input = "text" ->
               [memory |-> New(mem, V!Texted), list |-> Append(refs, Len(mem.messages) + 1)]
          [] input = "reasoning" /\ at # 0 ->
               [memory |-> Change(mem, refs[at], [said EXCEPT !.reasoning = Append(@, t)]),
                list |-> refs]
          [] OTHER -> [memory |-> mem, list |-> refs]

\* _sanitize_chat_messages: a new list, with new messages for the empty ones.
Sanitize(mem, refs) ==
    LET empty == {k \in DOMAIN refs : V!Pointless(mem.messages[refs[k]])}
        nth(k) == Cardinality({l \in empty : l <= k})
    IN  [memory |-> [mem EXCEPT !.messages = @ \o [n \in 1..Cardinality(empty) |-> V!Bare]],
         list |-> [k \in DOMAIN refs |-> IF k \in empty THEN Len(mem.messages) + nth(k) ELSE refs[k]]]

-----------------------------------------------------------------------------
CopiesInit ==
    /\ memory = [messages |-> <<>>, contexts |-> <<>>]
    /\ records = <<>>
    /\ turns = [t \in Ids |-> [phase |-> "idle", messages |-> <<>>, tools |-> 0]]
    /\ Init

\* What resolve_session does with a record, and responses_to_chat_request.
Begin(t, got, input) ==
    /\ turns[t].phase = "idle"
    /\ LET restored == ApplyCache(got.memory, got.record)
           merged == MergeTools(restored, got.record, t)
           taken == Take(merged, got.record.messages, t, input)
           sent == Sanitize(taken.memory, taken.list)
       IN  /\ memory' = sent.memory
           /\ turns' = [turns EXCEPT ![t] =
                          [phase |-> IF V!Meaningful([k \in DOMAIN sent.list |->
                                                        sent.memory.messages[sent.list[k]]])
                                     THEN "waiting" ELSE "done",
                           messages |-> sent.list, tools |-> Len(merged.contexts)]]
    /\ UNCHANGED records

\* A turn of its own starts with a tool context of its own.
Nothing ==
    [memory |-> [memory EXCEPT !.contexts = Append(@, {})],
     record |-> [messages |-> <<>>, tools |-> Len(memory.contexts) + 1, cache |-> V!CacheOf(<<>>)]]

\* A turn that continues none, or (resolve_session) one that may be gone.
Start(t, input) == Begin(t, Nothing, input) /\ UNCHANGED vars

Continue(t, s, input) ==
    /\ s \in Saved
    /\ \/ Miss(s) /\ Begin(t, Nothing, input)
       \/ Hit(s) /\ Begin(t, Copied(s), input)

\* save_session: the answer is a new message; the record, which is a copy, is
\* copied once more by the store.
Finish(t, answer) ==
    /\ turns[t].phase = "waiting"
    /\ turns' = [turns EXCEPT ![t].phase = "done"]
    /\ LET told == [memory EXCEPT !.messages = @ \o answer]
           list == turns[t].messages \o [k \in DOMAIN answer |-> Len(memory.messages) + k]
           once == Record(told, [messages |-> list, tools |-> turns[t].tools,
                                 cache |-> V!CacheOf([k \in DOMAIN list |-> told.messages[list[k]]])])
           twice == Record(once.memory, once.record)
       IN  /\ memory' = twice.memory
           /\ records' = [s \in DOMAIN records \cup {t} |->
                            IF s = t THEN twice.record ELSE records[s]]
    /\ Put(t)

\* The upstream fails, or the client goes.
Fail(t) ==
    /\ turns[t].phase = "waiting"
    /\ turns' = [turns EXCEPT ![t].phase = "done"]
    /\ UNCHANGED <<memory, records, vars>>

CopiesNext ==
    \/ \E t \in Ids :
          \/ \E input \in V!Inputs : Start(t, input)
          \/ \E s \in Ids, input \in V!Inputs : Continue(t, s, input)
          \/ \E answer \in V!Answers(t) : Finish(t, answer)
          \/ Fail(t)
    \/ Tick /\ UNCHANGED copies

CopiesSpec == CopiesInit /\ [][CopiesNext]_<<copies, vars>>

-----------------------------------------------------------------------------
(* Properties.                                                             *)

\* However turns interleave, each sees and saves what it would with messages and
\* tools that nobody else can change: "subsequent requests for the same
\* response_id cannot mutate the persisted history" (session.py), nor what another
\* turn, waiting for the upstream, is about to send or to save.
TurnsApart == V!Spec
=============================================================================
