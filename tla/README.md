# Models of codex-chat-bridge

The bridge takes requests of the OpenAI Responses API, sends them to an upstream
that speaks Chat Completions, and translates the answers back, as one JSON body
or as a stream of events. This directory holds TLA+ models of the parts of it
that keep state, the TLC configurations that check them on small instances, and
proofs, checked by TLAPS, of what holds for every instance. All paths are those
of the repository, below `codex_chat_bridge/` where no other root is named.

## The system

| part | state | operations |
|---|---|---|
| **Streaming translator**: `stream_chat_to_responses.py`, `stream_responses_state.py`, `stream_state/*`, `inline_think_sm.py` | one `ResponsesStreamState` per response: envelope (started, completed, next output index, items done), the reasoning and the message item, a table of tool calls, the think-tag detector | one handler per upstream frame (chunk, error, `[DONE]`), `finalize`, `fail` |
| **Upstream client**: `upstream.py`, `upstream_compat.py`, `upstream_transport.py`, `reasoning_policy.py` | the body of the attempt, the reasoning state, the attempt's number, the open HTTP client | send, read an error, rewrite and send again (compat loop), back off and try again (retry loop), stream and close |
| **Session store**: `protocol/session.py` | an ordered dict from response id to session, each with the time of its last use | `get`, `save`, with lazy expiry and a cap |
| **Turn input**: `responses_to_chat/*`, `api/policy.py`, the helpers of `protocol/session.py` | the messages so far, the calls and the reasoning not yet flushed, the call ids to skip | one branch per kind of input item; collapse and sanitize; save and restore with the reasoning cache |
| **Bridge service**: `api/routes.py`, `api/concurrency.py`, `api/response_service.py` | permits of a semaphore and its waiters; the generators that stream bodies and what they captured | take a permit, resolve the session, send, answer in one of three modes, save; be left by the client |
| **Tool context**: `bridge_context/*` | upstream names and what each stands for, in three dicts, a set and a list | build from a request, merge into that of a session, look up in both directions |
| **Readers of pieces**: `protocol/sse.py`, `inline_think_sm.py`, `bridge_context/custom_tools.py` | a buffer each | take a network chunk, a delta of text, a delta of arguments; end |
| **Non-streaming conversion**: `chat_to_responses/*`, `response_semantics.py` | none | one message to one response |
| Media and content mapping, HTTP shell, configuration, errors, metrics | none, or counters | pure functions and framework glue |

How they interact. A handler of `api/routes.py` takes a permit and calls
`create_response_core`, which asks the session store for the session to continue,
merges its tool context with that of the request, has the turn input build the
messages on top of it, and gives them to the upstream client. The body that comes
back is either converted at once and the session saved, or read frame by frame
into the streaming translator, whose events are passed to the client; the session
is then saved from the translator's state (`build_assistant_message`) when the
generator ends. Everything runs on one event loop: handlers interleave at an
`await` or a `yield` only. The store is shared by all requests, the rest is
private to one.

What makes this hard:

* The translator never sees the whole answer. Which items are open is a matter of
  the order the upstream chooses; some text and some calls are held back until
  more is known; and the stream may end in seven ways at any point, or go on after
  its end. The handler of an exception may raise in its turn.
* What is read comes in pieces that end within a frame, a character, a tag or an
  escape.
* Two retry loops are nested, the inner one bounded by nothing but the fact that
  its rewrites run out; overload, network errors, errors while an error is read
  and cancellation can come at each `await`.
* A client may leave at each `await` and each `yield`, and where it leaves decides
  in which order two nested generators are closed.
* Sessions expire lazily, by a wall clock, under a cap; several turns may continue
  the same one, and clients send more or less of what the session knows already.
* What one turn saves is read by the next, which skips, restores, sanitizes and
  merges it: damage shows turns later. Some of this changes message objects in place,
  while turns that continue the same session wait for the upstream.
* Tools get other names upstream, cut and flattened, and every call crosses the
  renaming twice or three times, in two pieces of code.

For each part, what makes it correct. **Translator**: events in order, each item
announced once and closed once under an index of its own, the final response lists
what was closed, nothing is swallowed or held back, an ended response stays as it
ended, the saved message has the calls the client knows, every stream ends.
**Client**: every request ends, after a bounded number of sends; the rewrites are
kept by later attempts; the caller's choice of reasoning is respected; no clients
pile up. **Store**: a bounded cache in which a session lives for its TTL after its
last use. **Turn input**: the upstream gets each call once, its output after it,
the history unchanged, whatever other turns do meanwhile. **Service**: no permit is lost, nobody waits for ever;
sessions are saved once, at the end; a client that was told of a response can
continue it, and none continues a failed one. **Tool context**: the first tool of
each name arrives, every call is taken for its tool, the same in both modes, and
comes back under the name it had. **Readers**: what is read does not depend on the cuts.

## The modules

| module | models |
|---|---|
| `ResponsesEvents` | abstract: what one event stream promises its reader |
| `ResponsesStream` | the streaming translator; implements `ResponsesEvents` |
| `UpstreamRetry` | one request to the upstream, both loops and the policy |
| `SessionCache` | abstract: a cache with a TTL and a cap, no expired entries |
| `SessionStore` | the session store; implements `SessionCache` |
| `SessionValues` | abstract: turns that continue the same sessions, each with messages and tools of its own |
| `SessionCopies` | the same turns on the objects in memory, and on top of `SessionStore`, which it extends; implements `SessionValues` |
| `BridgeService` | requests and their bodies on top of `SessionStore`, which it extends; implements its specification, and with it `SessionCache` |
| `TurnInput` | turns of conversations: input, answer, save, continue |
| `ToolContext` | tools of turns: declare, merge, translate calls both ways |
| `SseFrames`, `ThinkTags`, `CustomInput` | the three readers, as operators on their buffers, each with what the uncut text says |
| `Runs` | a loop over a sequence, as the readers' loops are written |
| `PieceReaders` | one of them reading one text, cut anywhere |
| `MC…` | the small inputs TLC runs take |
| `ResponsesStreamSafety`, `ResponsesStreamContract`, `ResponsesStreamEnds`, `UpstreamRetryProofs`, `BridgeServiceProofs` (with the session store's), `TurnInputProofs`, `ToolContextProofs`, `PieceReadersProofs` | theorems |

**ResponsesStream.** `st` is a record with one field for each attribute of the
Python objects that steers the translator; the Python methods are operators on it
that keep their names where they can (`FinalizeReasoning`, `PushTool`,
`FlushOpenItems`, `Finalize`, `Fail`). The events are not a list: `st.client` is
what a reader of the stream knows after them (is the response open, which items it
was told of, under which index and identity), and `faults` collects what it would
object to. `completed_items`, to which any handler may append, is a bag (`items` says
how often each item is in it): an item appended twice is listed twice by the final
response. Since a handler runs without an await, one frame is one action:
`ReadChunk`, `ReadBrokenChunk`, `ReadUnsendable`, `ReadError`, `ReadDone`, and the
endings `Eof` and `TransportException`.
A chunk may be `broken` at one of three places, at which its handler raises: what it
did before (`Partly`) stays, its events are lost, and `Fail` ends the response
(`upstream = "lost"`, if there was anything to lose). Or its
reasoning, its content or its call has a lone surrogate: the text is in an item before
the event made of it cannot be encoded, so `fail()` raises again when it comes to that
item (`Keeper`, `FailRaises`), and the generator ends with an exception and no further
event (`upstream = "raised"`). Texts are reduced to what steers the code: whether a delta
opens or closes a think tag or may begin one, whether the arguments of a call are
complete enough to name an action of a namespace. A chunk has at most two content
parts and two tool calls. A whole answer that is streamed
(`create_responses_sse_from_chat_response`) is the behaviour with one chunk per
choice and then the end.

**UpstreamRetry.** A body is the fields the compat rules look at, an error text the
set of words they look for, so an upstream may refuse anything for any reason. Each
rule is an operator that yields a set with the rewritten state, empty when the rule
does not apply; `Retry` tries them in the order of `retry_state`. Every await is a
place to wait (`phase`): for the answer, for the error's text, in a backoff; `Cancel`
may end each. `client` and `leaked` follow the HTTP client, which for a stream is
closed by hand. `compats` only counts, up to `CompatCap`, for the property about it.

**SessionStore.** `get` and `save` run without an await and are one action each. A
session is its id, the place it has in the dict (which decides ties of `min`) and
the time of its last use. `Tick` lets the clock run on by any amount, or be set to
any time if `ClockBack`.

**BridgeService.** A request and its response have one id, a new uuid. `phase` says
at which await or yield each request is; one action runs from there to the next.
`Acquire` and `Release` are the semaphore with its queue. The core runs up to the
upstream's answer (`BeginAwait`) or, when the upstream streams, to the end of the
handler (`BeginStream`), which gives the permit back before the body begins. The
body's generator reads (`Read…`), yields (`event`), is resumed once the event is
sent (`Send`, `Resume`), and ends in the `finally` clause that saves (`Close`).
`Leave` is the client going away: before the body is begun nothing runs at all; in
the inner await the cancellation passes through the inner generator first; at a
yield the outer generator is closed first, and the inner one after it, which
`Unwind` tells apart. The upstream's answer is reduced to whether there is output
and a finish reason; what a client was told last (`told`) relates it to the store.
A body that breaks is told so (`ReadBreaks`), unless `fail()` itself raises
(`ReadRaises`): the response is then completed, its status still in progress, which
the finally clause takes for one to save. The service saves with `Put`, which may be
done of any id at any time; that it is never done twice of one, as `SessionStore!Save`
says, is `StoreContract`. (Of an id that is there the dict would keep the place; `Put`
gives it a new one, so that a second save is no step of the store's.)

**TurnInput.** The code converts all items in one call; the model takes one item per
step, which shows what is true in between and changes nothing, as the call has no
await. The items of function calls, custom tools and tool search differ only in
data, so do text, images and audio. Texts and reasoning are there or not. The store
is a sequence that forgets nothing: an expired session is as good as none, which
`StartTurn(0, …)` is. Response ids are the places in the sequence. Messages are values
here, which `SessionCopies` justifies.

**SessionCopies, SessionValues.** A session and a turn have a list of references to
message objects and one to a tool context; `memory` has the objects. What the code
copies (`Record`: the deep copies of `SessionRecord`, made by `get`, by
`save_session` and again by `save`; the context `_merge_tool_contexts` copies once
more) gets new references; what it changes in place (`ApplyCache`, and reasoning joined
to an assistant's message in `Take`) changes for everybody who has a reference; what
makes new lists of old objects (`_initial_messages`, `Sanitize`, the list `save_session`
appends to) shares them. `SessionValues` has the same turns with values, and the
refinement says that nobody can tell. Which sessions there still are, is `SessionStore`'s:
a turn continues one with `Hit` or, where it is gone, starts anew with `Miss`, and ends
with `Put`; a turn and its response have one id. A turn converts its input in one step and waits
for the upstream in another, so any turns interleave there.

**ToolContext.** A name is a sequence of segments, which the code joins with `__`, so
that flattening, cutting with a digest, and splitting at the last `__` are what they
are in the code. A context is the record of `BridgeToolContext`; the order of
`chat_tools` steers nothing, so they are two sets (with and without a name). A turn
declares tools and reads `custom_tool_call` and `tool_search_output` items in any
number up to the bound, is merged into the context of the turn it continues, and is
saved. `BufferedItem` and `StreamedItem` are the two translations of the upstream's
calls, `Replayed` the one back. An item's arguments are those of the call in canonical
form, or stripped: without `action`, with `params` unpacked. `tagged` says that a call
has something to strip; which action its arguments select is known or not. A tool's
JSON schema is an opaque part of it. `declared` has the tools of a turn in their order,
as the first of a name is the one that counts.

**SseFrames, ThinkTags, CustomInput, PieceReaders.** Texts are short sequences of
pieces that steer the code: a frame's lines, newlines, the two bytes of a character,
a separator; the halves of tags, words, white space; quotes, backslashes, escapes,
surrogates. `Feed` and `End` are the code's handling of one piece and of the end;
beside them stands what the whole text says, written another way (line by line,
from the whole message, from how JSON writes an input). The code's loops (over the
buffer, the lines of a block, the characters of a string) are a `Run` of a step over
a sequence, and what a filter leaves is `Only`: functions of a number, so that they
can be proved about. `extract_block` looks for an empty line in a buffer that had
none before the last chunk came, so its `find` is one step for each byte of it. A line that
begins with `data:` or `event:` begins after a newline; one right after a separator,
which `splitlines()` would take for a line of its own, is not among the streams
(`IsStream`).

## The runs

Runs that pass:

* `stream_tools`: eleven chunks, five frames. Two calls, of every kind (function,
  custom, tool search, namespace), whole or in pieces, one without an id, one whose
  action never comes, after reasoning, text or a piece of a think tag. Two calls
  are what it takes for indexes to collide and for one to end while another is
  open; five frames open both piece by piece and end the stream. Here the upstream
  keeps the order reasoning, text, calls (`Interleaves = FALSE`): that no two items
  share an index, which the refinement `EventsContract` includes, needs it, because a
  tool call's index is a base plus the upstream's own number and anything opened in
  between takes a number of the same range; and so does `NothingDropped`, which is
  about text and calls: reasoning that comes late is dropped by design.
* `stream_content`: chunks of text, tags, parts, refusals, reasoning and calls in any
  order, and twelve that break: no JSON, before the choice is read, at a call after text
  or reasoning was handled, or with a text that cannot be encoded in reasoning, content,
  parts or a call. Five frames, no assumption on the order, with liveness: streams that end
  by `[DONE]`, end of file, an error event, a broken connection or a broken chunk. Any
  broken chunk ends the stream, so five frames have every one of them come upon every set
  of items that four chunks can open. What a chunk lost that raised halfway is excepted:
  by `EventsWellOrdered` and `TerminalListsAll` altogether, by `ItemsClose` for the
  reasoning only, which is all such a chunk can close. `StreamEnds` and `ItemsClose`
  except a generator that ends with an exception.
* `retry`: eight bodies (with and without a chosen effort, `top_p`, streaming, a
  model the bridge does not pass reasoning on to), five statuses, ten error texts,
  two retries. Two retries are enough for an attempt to start from what an earlier
  one rewrote twice. Seven is above any count `CompatBounded` allows.
* `sessions`: three turns with a store for two sessions, a TTL of one and times up to
  two. Two turns may continue the session of the first at once, or the third that of the
  second; one call id, which the messages of several turns may share. Two turns at once
  are what a shared object takes; the third is for the session both continue, and for
  one to be pushed out: of two used at different times, or at the same. A session
  is continued when it was just used, at the end of its TTL, and after it. The turns
  are alike (`SYMMETRY`), which all four properties treat them as.
* `turn_input`: twelve kinds of items, three items in two turns, so that a call, its
  output and the continuation of the session they are saved in all fit.
  `Repeats = FALSE` says that a client names a call once in an input and that the
  upstream makes up new ids. Two turns are a session and its continuation, or two
  starts.
* `bridge`: two requests with one permit and a store for one session that lives for
  one tick: the second waits for the first, evicts it, continues it, or finds it
  expired, each in any of the three modes and at every wait of the other. More
  requests add no new pair of waits; the theorems are for any number.
* `tool_context`: tools of all kinds whose names collide when flattened, are cut, look
  nested or have an action with another tool's name; two declarations in each of two
  turns, the second fresh or continuing the first; the three policies for hosted
  tools.
* `readers`: streams of up to four lines, answers of up to five words or tags, inputs
  of up to two characters in every way JSON may write them, each in up to three
  pieces. Three pieces cut a tag, a character or an escape on both sides.

`CHECK_DEADLOCK FALSE` is in every cfg, because streams, requests and bounded
conversations really end.

Runs that end in a violation show a disagreement between the code and what the
repository says of it:

* `stream_after_done` (`OneEnding`): after `[DONE]` has made the response complete,
  the generator reads on; a connection that breaks before its end adds
  `response.failed`.
* `retry_intent` (`IntentKept`): the effort is stripped from the body in one attempt;
  after an overload the next takes the caller for one without a choice and may turn
  reasoning off.
* `turn_outputs` (`OutputsArrive`): a client continues a session and sends the output
  of a call the session has. The output is dropped as known, because the ids of
  calls and of outputs are kept in one set.
* `bridge_gone` (`SavedWhenGone`): a client that has its complete response hangs up
  before the upstream's body ends. The generator is left at its yield, its `finally`
  runs before the inner one has handed over its state, and nothing is saved,
  whatever the comment above it promises.

Each property of a passing run has a seeded fault beside the definition it changes
(named after it, with the fault in the comment), under which TLC finds the property
violated.

### Seen on the way

What else the models show of the code, without a run of its own. The first four are
excepted by name in the properties they would break:

* JSON may hold a lone surrogate, which UTF-8 may not. The delta's text is kept before its
  event is encoded (`protocol/sse.py:70`), so that the except clause, which closes the
  items, raises as well (`stream_chat_to_responses.py:144`): the stream ends without any
  final event, although an error is "emitted as SSE response.failed event"
  (`errors.py:92`). `StreamEnds` without its second disjunct is violated.
* A chunk closes the reasoning and then breaks at a call without a numeric index
  (`stream_chat_to_responses.py:139`). Its events are lost; `response.failed` lists an
  item that was never done, where the tests of failing streams have
  `output_item.done` come first (`tests/test_streaming_failure_semantics.py:44`).
  `TerminalListsAll` without its condition is violated.
* When `fail()` raises, the response is completed and its status still `in_progress`,
  which is all that `should_save` looks at (`api/response_service.py:216-229`): it is
  saved, and a later turn builds on it. A test wants `saves == []` of a stream that failed
  (`test_stream_upstream_streaming_does_not_persist_failed_streams`,
  `tests/test_phase2_regression.py:1440`). `BuiltOnSound` without its exception, that is
  with `status[base[r]] = "complete"` of streams, is violated.
* Of a nested call with an action nobody knows, the arguments are stripped of `action` and
  `params` when the call comes whole, and kept when it is streamed, although "the
  non-streaming and streaming paths share the same action extraction rules"
  (`chat_to_responses/tools.py:72`) and "the original argument string is preserved"
  (`bridge_context/nested_namespace.py:25-27`). `ModesAgree` without its last condition
  is violated.
* The clamp of `top_p` (`upstream.py:157`) applies to a clamped body too. If the
  upstream goes on refusing, the same body is sent for ever; `CompatBounded` and
  `ConcludesUnclamped` leave bodies with `top_p` out.
* A refusal in a chunk of its own opens its part while the text part is open
  (`stream_state/message.py:126`); in one array the text is closed first.
* `get` deletes at most the entry it was asked for, although the comment of `_cleanup`
  (`protocol/session.py:179`) says it cleans up.
* The semaphore counts handlers, not streams (`api/routes.py:61`): any number of
  bodies may be streaming at once. `Served` depends on it.
* A client that continues at `response.completed`, before the body has ended, finds no
  session and silently starts anew (`api/response_service.py:222`).
* Of two tools whose names are one upstream (cut, flattened, or declared twice) the
  second is dropped without a word (`bridge_context/context.py:61`); so is a client's
  redefinition of a tool when it continues a session, except that a name once custom is custom for good
  (`:88`), and the old function's calls then are custom calls.
* An action of a nested namespace with the name of a custom tool or `tool_search` is
  that tool's call when streamed (`stream_state/tools.py:129`), a function call when not.
  A replayed call of an action goes upstream as `namespace__action`, which is no declared
  tool (`responses_to_chat/items.py:159`). An undeclared name with `__` in it is split
  when streamed, not otherwise (`stream_state/tool_items.py:87`).
* A network chunk that ends within a UTF-8 character loses it
  (`stream_chat_to_responses.py:28`); U+2028, U+0085 and others within a JSON string end
  the line for `splitlines()`, and the response fails (`protocol/sse.py:32`); a last
  frame without its empty line is dropped.
* A closing think tag that is cut between deltas, or comes in one delta with the opening
  one, is never seen, and the answer goes to reasoning (`inline_think_sm.py:69-97`). A
  first delta of white space ends the search. An empty block keeps its tags in a whole
  message. `<think >` is a tag in a stream only.
* A character beyond the BMP that JSON writes as two escapes fails the response when it
  is in a custom tool's input (`bridge_context/custom_tools.py:44`, `protocol/sse.py:70`).
  Arguments that are no JSON are told twice, as the prefix and as they are
  (`stream_state/tools.py:213`).

## Fairness

`ResponsesStream!Fairness` is weak fairness of the stream's being closed, in whichever
way: the body the upstream sends ends, breaks, or runs into the HTTP timeout
(`upstream_timeout_seconds`), or a chunk of it makes the handler raise, and the
generator's loop and except clause then run to their end, or out of it. Nothing is assumed of frames, so an upstream may send none.
`UpstreamRetry!Fairness` is weak fairness of answering, failing, reading and waking
taken together: the same timeout bounds each wait and `asyncio.sleep` returns. What
is answered is never assumed; neither is a client that stays, nor one that closes
the stream it was given.
`BridgeService!Fairness` is weak fairness, for each request, of serving it when it is
first in the semaphore's queue and a permit is there (the event loop wakes the waiter)
and of the upstream's answer, which is what `UpstreamRetry!ConcludesUnclamped` shows
of the client (for bodies without `top_p`). Nothing is assumed of clients, nor of
streams: a body may be read slowly, or for ever.

Modelled from how the code uses them, without source here: the HTTP client and the
upstream; `asyncio.Semaphore`, first come, first served; the server, which cancels the
task that sends a body when its client has gone, but no handler that has not returned.

## What is proved

TLC looks at two calls, eight bodies, three sessions or two requests; the theorems are
about any number and any value of the constants.

* `ResponsesStreamSafety`: `TypeOK` (`TypeCorrect`) of every upstream, with one lemma
  per operator on the state; and `EventsWellOrdered` (`EventsInOrder`), for any tools,
  names and chunks in any order, if nothing follows the end of the stream (`Stops`):
  what does is told outside the response. A stream closed by a chunk that raised halfway is
  excepted by the property: such a chunk loses events for which it has set flags, and
  `fail()` then tells more of those items; over text that cannot be encoded it tells
  nothing. The property is not
  inductive, because no handler reads what the client knows. `Agreed` says that the
  translator's flags (added, done, finalized) and what the client has seen are the
  same, that the flags are raised in order, and that each item is in the bag of those to
  be listed once if it is closed, and not at all otherwise. `InStep` is that statement in the middle of a frame, and each
  operator has a lemma that keeps it.
* `ResponsesStreamContract`: the refinement `EventsContract` (`ContractHolds`), for
  upstreams that besides send no chunk that raises between two changes (`Orderly`), and
  open no text or reasoning after their first call
  (`~Interleaves`, which the indexes need). The invariant `Kept` extends `Agreed` while
  the stream lasts by where items were
  numbered (`Numbered`: reasoning and message below `next`, a call at `base` plus its
  number; `InFront`: below `base` nothing is opened any more), by what may be held
  back and where (`Held`), by calls having an index once known (`Placed`), and by when
  reasoning may be over (`Calm`). Most of it is false in the middle of a frame's
  end, where items are closed one after the other: `Ending` and `Final` are its forms
  there. A frame's events are one step of `ResponsesEvents` (`Progress`, or `Finish` for
  the last) because the client's view only grows during it (`Grows`, part of `From`).
* `ResponsesStreamEnds`: the translator's other safety properties, of upstreams that need
  not be `Orderly`. A theorem has an assumption only where TLC finds a counterexample
  without it.
  - `ReplayMatches` (`ReplaysTheCalls`): none.
  - `NothingDropped` (`AllArrives`): reasoning is not sent beside or after other output
    (`Separate`: it comes as deltas of its own before the calls, or only as think tags;
    otherwise the code does swallow deltas, since closing an item is final).
  - `NothingHeldBack` (`NothingLeft`): no chunk after the end. One may open a message
    with a text part that nothing closes any more.
  - `TerminalListsAll` (`TerminalComplete`): none. Where a chunk raised at a tool call, the
    reasoning it closed first is listed, but its `output_item.done` is lost: the property
    excepts the stream. That no item is listed twice needs no handler to close
    an item that is done: the flags are there for it (`Listed`).
  - `OneEnding` (`EndsOnce`): after the end nothing comes but chunks that do not raise. The
    disagreement of `stream_after_done` is an error, a broken payload or a lost
    connection after the end, and nothing else.

  While the stream lasts, the invariant `Wake` is that of `ResponsesStreamContract`; it
  survives every frame, because a payload that raises ends the stream. What comes then has no
  flags that agree with the client's view to lean on. What carries the facts across is that
  the calls were finalized (`Later`, `Settled`: what was told of a call is what is saved) and
  that every handler leaves the calls and the response's end alone (`Quiet`, one lemma for each
  operator); the ends, of which there may be several, need only `Fit` of the state they start from.
* `UpstreamRetryProofs`: the types (among them that attempts stay within
  `MaxRetries`), `CompatBounded`, `AttemptKeepsIntent`, `LeakBounded`, and the action
  property `RetryResends`. `Weight` counts
  what the rules can still take from a body (at most five); the invariant says that
  compat retries plus weight stay within it as long as `top_p` is not set, that the
  effort the attempt works with is the one its body asked for unless that was
  unspecified, and that an attempt has not yet left a client behind while it still
  holds one. `RetryResends` needs that the body carried over a backoff is the one sent
  last (`Carried`), and that the reasoning policy reads a body it has written itself as
  it is (`InitialAgain`).
* `BridgeServiceProofs`, the session store by itself: the types and `CapHeld`, for any clock. The dict never
  holds more than one above the cap, and `min` finds a session to evict then: of
  those used longest ago, the first saved (`OldestIs`, from the least element of a
  set of numbers). `StoreIsCache`: if the clock is not set back, the store implements
  `SessionCache`. The refinement shows the sessions that have not expired; the invariant
  `Current` says that no session was used later than now, nor
  saved in a later place than the last, so that the one just saved is
  evicted only if all are as recent and it came first, which it did not. `save` is then
  the cache's save (`SaveIsSave`), and `get`, which may delete what is not shown, its
  get or a stutter (`StepIsStep`).
  The service: each property of the run `bridge` but `Served`. The strengthening,
  `ServiceInv`, says where a request can be in each mode, that what was not yet begun has told nothing,
  which phases follow a verdict, and that only requests that are over are in the store;
  without it `SavedAtEnd` is not inductive. That no id is saved twice (`StoreContract`,
  proved as `ServiceUsesStore`) is a consequence and no guard: each action that saves is
  one of a request under way, whose id, by `SavedAtEnd`, is not in the store (`PutIsSave`);
  so each `Put` is a `Save`. `BuiltOnSound` says no more than the code does: what is
  continued has no status failed and, if it was streamed, has come to some end;
  one whose end raised is among them. `ServiceUsesStore` and `ServiceHasCache` compose: the service implements the
  store's specification, so what was proved of the store holds in it.
* `TurnInputProofs`: every property of the run `turn_input`, for any items, answers and
  number of turns; `CallsOnce` with its own condition, that ids are not used again.
  `TurnInv` says of every saved session, and of the messages once they are sent, that
  the call of each tool message is made before it (`Backed`), that sanitizing once more
  would drop nothing (`Clean`, without which the second turn could lose history), and
  that no call is in two messages (`Distinct`); while items are read, it says of the
  messages so far (`Reading`, `Built`) that they continue the session, hold each new
  output, and have calls of the session and of this turn only, and of the pending calls
  that they are of this turn and in no message yet. What a filter keeps, and in which
  order, are the lemmas on `Only` (`OnlyIs`, `OnlyKeeps`, `OnlyPrefix`).
* `ToolContextProofs`: all properties of the run `tool_context`, for any tools, digests and
  lengths, if `KeepsKind`: clients do not use the name of a custom tool for another kind.
  The assumption is needed (`merge` makes such a function custom). `ToolInv` relates the
  five parts of a context: the tools, their names, the specs, the namespaces' names and
  the custom names; and it says of every context which tools are in it: those of the context it
  was merged into and the first of each new name (`FirstOf`), so that `ToolsArrive`
  says exactly what the upstream is told of. Every builder and `merge` have a lemma that
  keeps it.
* `PieceReadersProofs`: the three properties of the run `readers`, for texts of any length
  in any number of pieces, cut anywhere. `TextAssumption` says of the texts only that they
  are sequences of what the reader tells apart, and that they are streams. The
  invariants state what the state is after the pieces so far, so they are about
  `At`, the last cut (`Placed`). What is common: a `Run` over two pieces goes on from where the
  first ended (`RunConcat`), and what is kept of both is what is kept of each
  (`OnlyConcat`). Both rest on an induction on numbers, which is had from the least
  number of a set (`Least`, `Reached`) and not from an operator.
  - `FramesArrive` (`FramesTogether`). The state is what reading the bytes without the
    ones lost would give (`FramesRead`): what decoding drops of a chunk is what its two cuts go
    through (`UncutGrows`). That reading frame by frame is reading line by line is
    `SameMessages`, byte by byte (`Agree`): between two newlines the buffer, parsed, is
    the line read so far, and once a separator has ended it, what follows is `Inert`
    and never read.
  - `ThinkAlike` (`ThinkTogether`). Of every text, the words told so far are those of its pieces
    so far (`ThinkOk`); of a text with a block at places `o` and `c`, the detector is
    where the last cut is: before `o`, in the block, or behind it, and has told what is
    between (`BlockSeen`). `Recognised` yields such a block (`BlockIsThere`), and
    splitting the whole message finds it too (`BlockWhole`).
  - `InputAddsUp` (`InputTogether`). What was told is what can be decoded of the arguments so
    far (`CustomOk`, `Follows`): decoding more adds to it and takes nothing back (`DecodingGrows`),
    so the emitted prefix stays one, and the input opens at one place only (`OpeningOnce`). However JSON
    writes an input, that decodes to it, or holds half a surrogate pair (`WritingsDecode`),
    and each of the ways to write the arguments holds such a writing (`ArgumentsHold`).

Only model-checked: liveness (`StreamEnds`, `ItemsClose`, `ConcludesUnclamped`, `Served`),
as the provers do not do fairness and ENABLED, and `TurnsApart`, that copies keep turns
apart. Every other property of a passing run is proved.

## Plan

Done: the translator, the upstream client, the store, the turn input; then the service
on top of the store, the tool context, and the readers; then the proofs of all their
safety and action properties and of the three refinements. What is left:

1. `Separate` describes the whole conversation, while `AllArrives` needs only that
   nothing comes for an item after what closed it.
2. `KeepsKind` of the tool context, which is needed for one name at a time.
3. A line of data right after a separator (`IsStream`), for which the line by line
   reading would have to split lines as `splitlines()` does.
4. `TurnsApart` for any number of turns: that no two of them, nor a turn and a
   session, reach an object that either changes in place.

## Not modelled

* Content, media and annotation mapping (`responses_to_chat/content*.py`, `media.py`,
  `chat_to_responses/annotations.py`, `response.py`): functions of one value each, which
  keep nothing and decide nothing that a unit test would not reach. Where such a function
  decides about control, the outcome is a choice in the models (`RefuseInput`,
  `AwaitFails`).
* Configuration (`config.py`), types (`models.py`, `protocol/types.py`, `errors.py`): read
  once, or declarations. Their limits are constants.
* HTTP shell (`app.py`, `api/middleware.py`, `api/lifespan.py`, `api/errors.py`), metrics,
  logging: framework glue, counters nobody reads back.
* Usage, annotations and echoed request fields in the translator: stored and shown.
* Text that cannot be encoded elsewhere than in a delta of reasoning, content or a call
  of a response that has not ended: in refusals, names, ids, annotations, the model's
  name, error messages, in the arguments a namespace's call holds back, after the end. Each
  raises as the modelled ones do, or, where it is not kept, is followed by `response.failed`.
* In `ToolContext`, arguments that are no JSON object and pieces of a call that come after its
  action was resolved; in `ResponsesStream`, an index that is negative.
* Records freed, and `copy.deepcopy` of one object reached twice, in `SessionCopies`: a turn's
  list has each message once.
