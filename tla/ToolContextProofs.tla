--------------------------- MODULE ToolContextProofs ---------------------------
(***************************************************************************)
(* The properties of ToolContext for any tools, names, hash and bounds.    *)
(*                                                                         *)
(* None of them is inductive, since merge decides with one dict what it    *)
(* does to another.  GoodContext says how the five parts of a context hang *)
(* together; each operation on contexts has a lemma that keeps it.         *)
(***************************************************************************)
EXTENDS ToolContext, TLAPS

SpecsFit(c) == \A t \in c.tools : c.spec[t.name] = t.tool

SeenAreTools(c) == c.seen = {t.name : t \in c.tools}

\* A spec is kept under the name its tool has.
SpecsNamed(c) == \A n \in ChatNames : c.spec[n] # None => ChatName(c.spec[n]) = n

\* The dict of namespaces says nothing that flattening would not.
SpacesFlat(c) == \A p \in Spaced : c.spaces[p] # None => c.spaces[p] = Flatten(p[1], p[2])

CustomFits(c) ==
    /\ \A n \in c.custom : c.spec[n] # None /\ c.spec[n].kind = "custom"
    /\ \A n \in c.seen : c.spec[n].kind = "custom" => n \in c.custom

SearchFits(c) == c.search <=> Proxy \in c.seen /\ c.spec[Proxy].kind = "tool_search"

GoodContext(c) ==
    /\ c \in Contexts
    /\ SpecsFit(c) /\ SeenAreTools(c) /\ SpecsNamed(c) /\ SpacesFlat(c)
    /\ CustomFits(c) /\ SearchFits(c)

-----------------------------------------------------------------------------
(* Declarations.                                                           *)

\* What ToolAssumption says, of every spec.
LEMMA SpecFacts ==
    \A d \in Specs :
        /\ d.kind \in Kinds /\ d # None
        /\ d.kind = "tool_search" => d = SearchTool
        /\ d.kind = "custom" => d.space = None
        /\ d.kind = "namespace" => d.space = d.name /\ d.space # None
        /\ ChatName(d) \in ChatNames
        /\ d.space # None => <<d.space, d.name>> \in Spaced
<1>1. \A d \in Decls : d \in Specs  BY DEF Specs
<1>2. ASSUME NEW d \in Specs
      PROVE /\ d.kind \in Kinds
            /\ d.kind = "tool_search" => d = SearchTool
            /\ d.kind = "custom" => d.space = None
            /\ d.kind = "namespace" => d.space = d.name /\ d.space # None
  BY <1>2, ToolAssumption DEF Specs, SearchTool, Called, Kinds
<1>3. ASSUME NEW d \in Specs PROVE d # None
  BY <1>3, ToolAssumption
<1>4. ASSUME NEW d \in Specs
      PROVE ChatName(d) \in ChatNames /\ (d.space # None => <<d.space, d.name>> \in Spaced)
  BY <1>4 DEF ChatNames, Spaced
<1> QED  BY <1>2, <1>3, <1>4

\* tool_search is the one tool of its kind, under its own name.
LEMMA SearchFacts ==
    /\ SearchTool \in Specs /\ SearchTool.kind = "tool_search" /\ SearchTool.space = None
    /\ SearchTool.name = Proxy /\ ChatName(SearchTool) = Proxy /\ Proxy \in ChatNames
<1>1. SearchTool \in Specs  BY DEF Specs
<1>2. SearchTool.kind = "tool_search" /\ SearchTool.space = None /\ SearchTool.name = Proxy
  BY DEF SearchTool
<1>3. ChatName(SearchTool) = Proxy  BY <1>2 DEF ChatName
<1> QED  BY <1>1, <1>2, <1>3, SpecFacts

\* How a spec's name upstream comes about.
LEMMA NameFacts ==
    ASSUME NEW d \in Specs
    PROVE  /\ d.kind = "tool_search" => ChatName(d) = Proxy
           /\ d.kind # "tool_search" /\ d.space # None => ChatName(d) = Flatten(d.space, d.name)
           /\ d.kind # "tool_search" /\ d.space = None => ChatName(d) = d.name
  BY DEF ChatName

\* A called name is one of the names, and stands for itself.
LEMMA CalledFacts ==
    ASSUME NEW n \in CustomItems
    PROVE  /\ Called(n) \in Specs /\ Called(n).kind = "custom" /\ Called(n).space = None
           /\ ChatName(Called(n)) = n /\ n \in ChatNames
<1>1. Called(n) \in Specs  BY DEF Specs
<1>2. Called(n).kind = "custom" /\ Called(n).space = None /\ Called(n).name = n
  BY DEF Called
<1>3. ChatName(Called(n)) = n  BY <1>1, <1>2, NameFacts
<1> QED  BY <1>1, <1>2, <1>3, SpecFacts

-----------------------------------------------------------------------------
(* Contexts.                                                               *)

\* chat_name_for_function is flattening.
LEMMA ChatNameForFlat ==
    ASSUME NEW c, SpacesFlat(c), NEW space, NEW name
    PROVE  ChatNameFor(c, space, name) = IF space = None THEN name ELSE Flatten(space, name)
<1>1. CASE space # None /\ <<space, name>> \in Spaced /\ c.spaces[<<space, name>>] # None
  <2>1. c.spaces[<<space, name>>] = Flatten(<<space, name>>[1], <<space, name>>[2])
    BY <1>1 DEF SpacesFlat
  <2> QED  BY <1>1, <2>1 DEF ChatNameFor
<1> QED  BY <1>1 DEF ChatNameFor

\* So a declared tool is given its name whatever came before it.
LEMMA ChatNameForSpec ==
    ASSUME NEW c, SpacesFlat(c), NEW d \in Specs
    PROVE  ChatNameFor(c, d.space, d.name) = ChatName(d)
<1>1. CASE d.kind = "tool_search"
  <2>1. d = SearchTool  BY <1>1, SpecFacts
  <2> QED  BY <2>1, ChatNameForFlat, SearchFacts
<1>2. CASE d.kind # "tool_search"
  BY <1>2, ChatNameForFlat, NameFacts
<1> QED  BY <1>1, <1>2

\* The context a request starts with.
LEMMA EmptyGood == GoodContext(EmptyContext)
  BY DEF GoodContext, EmptyContext, Contexts, ChatTools, SpecsFit, SeenAreTools, SpecsNamed,
         SpacesFlat, CustomFits, SearchFits

\* add_chat_tool, of a new name under which no other tool is known as custom.
LEMMA RegisterGood ==
    ASSUME NEW c, GoodContext(c), NEW d \in Specs, NEW n, n = ChatName(d), n \notin c.seen,
           d.kind # "custom" => n \notin c.custom
    PROVE  GoodContext(Register(c, n, d)) /\ n \in Register(c, n, d).seen
<1> DEFINE r == Register(c, n, d)
<1>1. n \in ChatNames /\ c \in Contexts  BY SpecFacts DEF GoodContext
<1>2. /\ r.seen = c.seen \cup {n}
      /\ r.spec = [c.spec EXCEPT ![n] = d]
      /\ r.spaces = [p \in Spaced |-> IF p = <<d.space, d.name>> THEN n ELSE c.spaces[p]]
      /\ r.tools = c.tools \cup {[name |-> n, tool |-> d]}
      /\ r.custom = IF d.kind = "custom" THEN c.custom \cup {n} ELSE c.custom
      /\ r.search = (c.search \/ d.kind = "tool_search")
      /\ r.hosted = c.hosted
  BY <1>1 DEF Register, Contexts
<1>3. c.spec \in [ChatNames -> Specs \cup {None}] /\ c.tools \subseteq ChatTools
      /\ c.custom \subseteq ChatNames /\ c.seen \subseteq ChatNames
      /\ \A t \in c.tools : t.name \in c.seen
  BY <1>1 DEF Contexts, GoodContext, SeenAreTools
<1>a. r \in Contexts
  <2>1. r.spec \in [ChatNames -> Specs \cup {None}]  BY <1>1, <1>2, <1>3
  <2>2. r.spaces \in [Spaced -> ChatNames \cup {None}]  BY <1>1, <1>2 DEF Contexts
  <2>3. r.tools \in SUBSET ChatTools  BY <1>1, <1>2, <1>3 DEF ChatTools
  <2>4. r.custom \in SUBSET ChatNames /\ r.seen \in SUBSET ChatNames  BY <1>1, <1>2, <1>3
  <2>5. r.search \in BOOLEAN /\ r.hosted \in SUBSET Hosted  BY <1>1, <1>2 DEF Contexts
  <2> QED  BY <1>1, <2>1, <2>2, <2>3, <2>4, <2>5 DEF Register, Contexts
<1>4. SpecsFit(r)  BY <1>1, <1>2, <1>3 DEF SpecsFit, GoodContext
<1>5. SeenAreTools(r)
  <2>1. c.seen = {t.name : t \in c.tools}  BY DEF GoodContext, SeenAreTools
  <2>2. \A m : m \in r.seen <=> \E t \in r.tools : m = t.name
    <3>1. [name |-> n, tool |-> d].name = n  OBVIOUS
    <3> QED  BY <1>2, <2>1, <3>1, ZenonT(60)
  <2> QED  BY <2>2 DEF SeenAreTools
<1>6. SpecsNamed(r)  BY <1>1, <1>2, <1>3 DEF SpecsNamed, GoodContext
<1>7. SpacesFlat(r)
  <2> SUFFICES ASSUME NEW p \in Spaced, r.spaces[p] # None
               PROVE r.spaces[p] = Flatten(p[1], p[2])
    BY DEF SpacesFlat
  <2>1. CASE p = <<d.space, d.name>>
    <3>1. d.space # None
      <4>1. PICK e \in Specs : e.space # None /\ p = <<e.space, e.name>>
        BY DEF Spaced
      <4> QED  BY <4>1, <2>1
    <3>2. d.kind # "tool_search"  BY <3>1, SpecFacts, SearchFacts
    <3> QED  BY <1>2, <2>1, <3>1, <3>2, NameFacts
  <2> QED  BY <1>2, <2>1 DEF SpacesFlat, GoodContext
<1>8. CustomFits(r)
  <2>1. CustomFits(c)  BY DEF GoodContext
  <2>2. \A m \in ChatNames : r.spec[m] = IF m = n THEN d ELSE c.spec[m]
    BY <1>1, <1>2, <1>3
  <2>3. \A m \in r.custom : r.spec[m] # None /\ r.spec[m].kind = "custom"
    <3>1. d # None  BY SpecFacts
    <3>2. CASE d.kind = "custom"
      BY <1>1, <1>2, <1>3, <2>1, <2>2, <3>1, <3>2 DEF CustomFits
    <3>3. CASE d.kind # "custom"
      BY <1>2, <1>3, <2>1, <2>2, <3>3 DEF CustomFits
    <3> QED  BY <3>2, <3>3
  <2>4. \A m \in r.seen : r.spec[m].kind = "custom" => m \in r.custom
    BY <1>1, <1>2, <1>3, <2>1, <2>2 DEF CustomFits
  <2> QED  BY <2>3, <2>4 DEF CustomFits
<1>9. SearchFits(r)
  <2>1. d.kind = "tool_search" <=> (n = Proxy /\ d.kind = "tool_search")  BY NameFacts
  <2>2. r.spec[Proxy] = IF n = Proxy THEN d ELSE c.spec[Proxy]
    BY <1>1, <1>2, <1>3, SearchFacts
  <2>3. c.search <=> Proxy \in c.seen /\ c.spec[Proxy].kind = "tool_search"
    BY DEF SearchFits, GoodContext
  <2>4. CASE n = Proxy  BY <1>2, <2>1, <2>2, <2>3, <2>4 DEF SearchFits
  <2>5. CASE n # Proxy  BY <1>2, <2>1, <2>2, <2>3, <2>5 DEF SearchFits
  <2> QED  BY <2>4, <2>5
<1> QED  BY <1>a, <1>2, <1>4, <1>5, <1>6, <1>7, <1>8, <1>9 DEF GoodContext

\* With KeepsKind a name that is custom is not that of another kind of tool.
LEMMA CustomNames ==
    ASSUME KeepsKind, NEW c, GoodContext(c), NEW d \in Specs, d.kind # "custom"
    PROVE  ChatName(d) \notin c.custom
<1> SUFFICES ASSUME ChatName(d) \in c.custom PROVE FALSE  OBVIOUS
<1> DEFINE n == ChatName(d)
<1>1. n \in ChatNames /\ c.spec[n] \in Specs \cup {None}
  BY SpecFacts DEF GoodContext, Contexts
<1>2. c.spec[n] \in Specs /\ c.spec[n].kind = "custom" /\ ChatName(c.spec[n]) = n
  BY <1>1 DEF GoodContext, CustomFits, SpecsNamed
<1> QED  BY <1>2 DEF KeepsKind

\* add_chat_tool keeps contexts good, and the tool's name is known after it.
LEMMA AddGood ==
    ASSUME KeepsKind, NEW c, GoodContext(c), NEW d \in Specs
    PROVE  /\ GoodContext(AddChatTool(c, ChatName(d), d))
           /\ ChatName(d) \in AddChatTool(c, ChatName(d), d).seen
           /\ c.seen \subseteq AddChatTool(c, ChatName(d), d).seen
           /\ c.tools \subseteq AddChatTool(c, ChatName(d), d).tools
           /\ c.hosted = AddChatTool(c, ChatName(d), d).hosted
<1> DEFINE n == ChatName(d)
<1>1. CASE n \in c.seen  BY <1>1 DEF AddChatTool
<1>2. CASE n \notin c.seen
  <2>1. AddChatTool(c, n, d) = Register(c, n, d)  BY <1>2 DEF AddChatTool
  <2>2. GoodContext(Register(c, n, d)) /\ n \in Register(c, n, d).seen
    BY <1>2, CustomNames, RegisterGood
  <2>3. c.seen \subseteq Register(c, n, d).seen /\ c.tools \subseteq Register(c, n, d).tools
        /\ c.hosted = Register(c, n, d).hosted
    BY DEF Register, GoodContext, Contexts
  <2> QED  BY <2>1, <2>2, <2>3
<1> QED  BY <1>1, <1>2

\* add_response_tool
LEMMA AddResponseGood ==
    ASSUME KeepsKind, NEW c, GoodContext(c), NEW d \in Decls
    PROVE  /\ GoodContext(AddResponseTool(c, d))
           /\ ChatName(d) \in AddResponseTool(c, d).seen
           /\ c.seen \subseteq AddResponseTool(c, d).seen
           /\ AddResponseTool(c, d).tools =
                IF ChatName(d) \in c.seen THEN c.tools
                ELSE c.tools \cup {[name |-> ChatName(d), tool |-> d]}
<1>1. d \in Specs  BY DEF Specs
<1>2. AddResponseTool(c, d) = AddChatTool(c, ChatName(d), d)
  BY <1>1, ChatNameForSpec DEF AddResponseTool, GoodContext
<1>3. Register(c, ChatName(d), d).tools = c.tools \cup {[name |-> ChatName(d), tool |-> d]}
  BY DEF Register, GoodContext, Contexts
<1>4. AddResponseTool(c, d).tools =
        IF ChatName(d) \in c.seen THEN c.tools
        ELSE c.tools \cup {[name |-> ChatName(d), tool |-> d]}
  <2>1. CASE ChatName(d) \in c.seen  BY <1>2, <2>1 DEF AddChatTool
  <2>2. CASE ChatName(d) \notin c.seen
    <3>1. AddChatTool(c, ChatName(d), d) = Register(c, ChatName(d), d)
      BY <2>2 DEF AddChatTool
    <3> QED  BY <1>2, <1>3, <2>2, <3>1
  <2> QED  BY <2>1, <2>2
<1>5. /\ GoodContext(AddResponseTool(c, d))
      /\ ChatName(d) \in AddResponseTool(c, d).seen
      /\ c.seen \subseteq AddResponseTool(c, d).seen
  BY <1>1, <1>2, AddGood
<1> QED  BY <1>4, <1>5

\* What a good context knows of the names it has.
LEMMA GoodFacts ==
    ASSUME NEW c, GoodContext(c)
    PROVE  /\ c.spec \in [ChatNames -> Specs \cup {None}]
           /\ c.spaces \in [Spaced -> ChatNames \cup {None}]
           /\ c.tools \subseteq ChatTools /\ c.seen \subseteq ChatNames
           /\ c.custom \subseteq ChatNames /\ c.hosted \subseteq Hosted /\ c.search \in BOOLEAN
           /\ \A t \in c.tools : t.name \in c.seen /\ c.spec[t.name] = t.tool
           /\ \A n \in c.seen : /\ n \in ChatNames /\ c.spec[n] \in Specs
                                /\ \E t \in c.tools : t.name = n
           /\ \A n \in c.custom : c.spec[n] \in Specs /\ c.spec[n].kind = "custom"
           /\ \A n \in ChatNames : c.spec[n] # None => c.spec[n] \in Specs /\ ChatName(c.spec[n]) = n
<1>1. c \in Contexts /\ SpecsFit(c) /\ SeenAreTools(c) /\ SpecsNamed(c) /\ CustomFits(c)
  BY DEF GoodContext
<1>2. /\ c.spec \in [ChatNames -> Specs \cup {None}]
      /\ c.spaces \in [Spaced -> ChatNames \cup {None}]
      /\ c.tools \subseteq ChatTools /\ c.seen \subseteq ChatNames
      /\ c.custom \subseteq ChatNames /\ c.hosted \subseteq Hosted /\ c.search \in BOOLEAN
  BY <1>1 DEF Contexts
<1>3. \A t \in c.tools : t.name \in c.seen /\ c.spec[t.name] = t.tool
  BY <1>1 DEF SpecsFit, SeenAreTools
<1>4. \A n \in c.seen : \E t \in c.tools : t.name = n
  BY <1>1 DEF SeenAreTools
<1>5. \A n \in c.seen : n \in ChatNames /\ c.spec[n] \in Specs
  BY <1>2, <1>3, <1>4 DEF ChatTools
<1>6. \A n \in c.custom : c.spec[n] \in Specs /\ c.spec[n].kind = "custom"
  BY <1>1, <1>2 DEF CustomFits
<1>7. \A n \in ChatNames : c.spec[n] # None => c.spec[n] \in Specs /\ ChatName(c.spec[n]) = n
  BY <1>1, <1>2 DEF SpecsNamed
<1> QED  BY <1>2, <1>3, <1>4, <1>5, <1>6, <1>7

\* Two tools of one name are both custom or neither is.
LEMMA SameKind ==
    ASSUME KeepsKind, NEW d \in Specs, NEW e \in Specs, ChatName(d) = ChatName(e)
    PROVE  d.kind = "custom" <=> e.kind = "custom"
  BY DEF KeepsKind

\* The first loop of merge.
LEMMA MergeToolsGood ==
    ASSUME KeepsKind, NEW c, NEW other, GoodContext(c), GoodContext(other)
    PROVE  /\ GoodContext(MergeTools(c, other))
           /\ other.seen \subseteq MergeTools(c, other).seen
           /\ MergeTools(c, other).tools = c.tools \cup {t \in other.tools : t.name \notin c.seen}
           /\ c.hosted \subseteq MergeTools(c, other).hosted
<1> DEFINE new == NewTools(c, other)
           names == {t.name : t \in new}
           naming(p) == {n \in names : <<other.spec[n].space, other.spec[n].name>> = p}
           r == MergeTools(c, other)
<1>1. c \in Contexts /\ other \in Contexts  BY DEF GoodContext
<1>2. new \subseteq other.tools /\ \A t \in new : t.name \notin c.seen  BY DEF NewTools
<1>3. \A n \in names : /\ n \in ChatNames /\ n \in other.seen /\ n \notin c.seen
                       /\ other.spec[n] \in Specs /\ ChatName(other.spec[n]) = n
  <2>1. \A n \in names : \E t \in new : n = t.name  OBVIOUS
  <2>2. \A n \in names : n \in other.seen /\ n \notin c.seen
    BY <1>2, <2>1, GoodFacts
  <2>3. \A n \in other.seen : n \in ChatNames /\ other.spec[n] \in Specs
    BY GoodFacts
  <2>4. \A n \in ChatNames : other.spec[n] \in Specs => ChatName(other.spec[n]) = n
    BY GoodFacts, SpecFacts
  <2> QED  BY <2>2, <2>3, <2>4
<1>4. /\ r.hosted = c.hosted \cup other.hosted
      /\ r.tools = c.tools \cup new
      /\ r.seen = c.seen \cup names
      /\ r.spec = [n \in ChatNames |-> IF n \in names THEN other.spec[n] ELSE c.spec[n]]
      /\ r.spaces = [p \in Spaced |->
                       IF naming(p) # {} THEN CHOOSE n \in naming(p) : TRUE ELSE c.spaces[p]]
      /\ r.custom = c.custom \cup {n \in names : other.spec[n].kind = "custom"}
      /\ r.search = (c.search \/ \E n \in names : other.spec[n].kind = "tool_search")
  BY <1>1 DEF MergeTools, Contexts
<1>5. \A p : naming(p) # {} => (CHOOSE n \in naming(p) : TRUE) \in naming(p)
  OBVIOUS
<1>6. r \in Contexts
  <2>1. r.spec \in [ChatNames -> Specs \cup {None}]  BY <1>3, <1>4, GoodFacts
  <2>2. r.spaces \in [Spaced -> ChatNames \cup {None}]
    <3>1. \A p \in Spaced : naming(p) # {} => (CHOOSE n \in naming(p) : TRUE) \in ChatNames
      BY <1>3, <1>5
    <3>2. c.spaces \in [Spaced -> ChatNames \cup {None}]  BY GoodFacts
    <3> HIDE DEF naming
    <3> QED  BY <1>4, <3>1, <3>2
  <2>3. r.tools \in SUBSET ChatTools  BY <1>2, <1>4, GoodFacts
  <2>4. r.seen \in SUBSET ChatNames /\ r.custom \in SUBSET ChatNames
    BY <1>3, <1>4, GoodFacts
  <2>5. r.hosted \in SUBSET Hosted /\ r.search \in BOOLEAN  BY <1>4, GoodFacts
  <2> QED  BY <1>1, <2>1, <2>2, <2>3, <2>4, <2>5 DEF MergeTools, Contexts
<1>7. \A n \in ChatNames : r.spec[n] = IF n \in names THEN other.spec[n] ELSE c.spec[n]
  BY <1>4
<1>8. SpecsFit(r)
  <2>1. \A t \in c.tools : t.name \in c.seen /\ t.name \in ChatNames /\ c.spec[t.name] = t.tool
    BY GoodFacts
  <2>2. \A t \in new : t.name \in names /\ t.name \in ChatNames /\ other.spec[t.name] = t.tool
    BY <1>2, <1>3, GoodFacts
  <2> QED  BY <1>3, <1>4, <1>7, <2>1, <2>2 DEF SpecsFit
<1>9. SeenAreTools(r)
  <2>1. c.seen = {t.name : t \in c.tools}  BY DEF GoodContext, SeenAreTools
  <2> QED  BY <1>4, <2>1 DEF SeenAreTools
<1>10. SpecsNamed(r)  BY <1>3, <1>7, GoodFacts DEF SpecsNamed
<1>11. SpacesFlat(r)
  <2> SUFFICES ASSUME NEW p \in Spaced, r.spaces[p] # None
               PROVE r.spaces[p] = Flatten(p[1], p[2])
    BY DEF SpacesFlat
  <2>1. CASE naming(p) = {}
    <3>1. r.spaces[p] = c.spaces[p]  BY <1>4, <2>1
    <3> QED  BY <3>1 DEF SpacesFlat, GoodContext
  <2>2. CASE naming(p) # {}
    <3> DEFINE n == CHOOSE m \in naming(p) : TRUE
    <3>1. r.spaces[p] = n  BY <1>4, <2>2
    <3>2. n \in names /\ <<other.spec[n].space, other.spec[n].name>> = p
      BY <1>5, <2>2
    <3>3. PICK e \in Specs : e.space # None /\ p = <<e.space, e.name>>
      BY DEF Spaced
    <3> DEFINE d == other.spec[n]
    <3>4. d \in Specs /\ ChatName(d) = n  BY <1>3, <3>2
    <3>5. d.space # None /\ p[1] = d.space /\ p[2] = d.name  BY <3>2, <3>3
    <3> HIDE DEF n, d
    <3>6. d.kind # "tool_search"  BY <3>4, <3>5, SpecFacts, SearchFacts
    <3> QED  BY <3>1, <3>4, <3>5, <3>6, NameFacts
  <2> QED  BY <2>1, <2>2
<1>12. CustomFits(r)
  <2>a. \A n \in c.custom : /\ n \in ChatNames /\ c.spec[n] \in Specs
                              /\ c.spec[n].kind = "custom" /\ ChatName(c.spec[n]) = n
    BY GoodFacts, SpecFacts, ZenonT(60)
  <2>1. \A n \in names \cap c.custom : other.spec[n].kind = "custom"
    BY <1>3, <2>a, SameKind
  <2>2. \A n \in r.custom : r.spec[n] # None /\ r.spec[n].kind = "custom"
    <3>1. \A n \in r.custom : n \in ChatNames
      BY <1>3, <1>4, <2>a
    <3>2. \A n \in r.custom \cap names : r.spec[n] \in Specs /\ r.spec[n].kind = "custom"
      BY <1>3, <1>4, <1>7, <2>1, <3>1
    <3>3. \A n \in r.custom \ names : r.spec[n] \in Specs /\ r.spec[n].kind = "custom"
      BY <1>4, <1>7, <2>a, <3>1
    <3> QED  BY <3>2, <3>3, SpecFacts
  <2>3. \A n \in c.seen : c.spec[n].kind = "custom" => n \in c.custom
    BY DEF GoodContext, CustomFits
  <2>4. \A n \in r.seen : r.spec[n].kind = "custom" => n \in r.custom
    BY <1>3, <1>4, <1>7, <2>3, GoodFacts
  <2> QED  BY <2>2, <2>4 DEF CustomFits
<1>13. SearchFits(r)
  <2>1. \A n \in names : other.spec[n].kind = "tool_search" => n = Proxy
    BY <1>3, NameFacts
  <2>2. c.search <=> Proxy \in c.seen /\ c.spec[Proxy].kind = "tool_search"
    BY DEF SearchFits, GoodContext
  <2>3. CASE Proxy \in names
    BY <1>3, <1>4, <1>7, <2>1, <2>2, <2>3, SearchFacts DEF SearchFits
  <2>4. CASE Proxy \notin names
    <3>1. ~ \E n \in names : other.spec[n].kind = "tool_search"  BY <2>1, <2>4
    <3>2. r.spec[Proxy] = c.spec[Proxy]  BY <1>7, <2>4, SearchFacts
    <3>3. r.search <=> c.search  BY <1>4, <3>1, GoodFacts
    <3>4. Proxy \in r.seen <=> Proxy \in c.seen  BY <1>4, <2>4
    <3> QED  BY <2>2, <3>2, <3>3, <3>4 DEF SearchFits
  <2> QED  BY <2>3, <2>4
<1>14. other.seen \subseteq r.seen
  <2>1. \A n \in other.seen : \E t \in other.tools : t.name = n /\ other.spec[t.name] # None
    <3>1. \A n \in other.seen : other.spec[n] \in Specs /\ \E t \in other.tools : t.name = n
      BY GoodFacts
    <3>2. \A n \in other.seen : other.spec[n] # None  BY <3>1, SpecFacts
    <3> QED  BY <3>1, <3>2
  <2>2. \A n \in other.seen : n \in c.seen \/ n \in names
    BY <2>1 DEF NewTools
  <2> QED  BY <1>4, <2>2
<1>15. new = {t \in other.tools : t.name \notin c.seen}
  <2>1. \A t \in other.tools : other.spec[t.name] # None
    <3>1. \A t \in other.tools : t.name \in other.seen  BY GoodFacts
    <3>2. \A n \in other.seen : other.spec[n] \in Specs  BY GoodFacts
    <3> QED  BY <3>1, <3>2, SpecFacts
  <2> QED  BY <2>1 DEF NewTools
<1> QED
  BY <1>4, <1>6, <1>8, <1>9, <1>10, <1>11, <1>12, <1>13, <1>14, <1>15 DEF GoodContext

\* The second loop of merge.
LEMMA MergeCustomGood ==
    ASSUME KeepsKind, NEW c, NEW other, GoodContext(c), GoodContext(other)
    PROVE  /\ GoodContext(MergeCustom(c, other))
           /\ MergeCustom(c, other).seen = c.seen /\ MergeCustom(c, other).tools = c.tools
           /\ MergeCustom(c, other).hosted = c.hosted
<1> DEFINE r == MergeCustom(c, other)
<1>1. c \in Contexts /\ other \in Contexts  BY DEF GoodContext
<1>2. /\ r.custom = c.custom \cup other.custom
      /\ r.spec = [n \in ChatNames |->
                     IF n \in other.custom /\ c.spec[n] = None THEN other.spec[n] ELSE c.spec[n]]
      /\ r.seen = c.seen /\ r.tools = c.tools /\ r.hosted = c.hosted
      /\ r.search = c.search /\ r.spaces = c.spaces
  BY <1>1 DEF MergeCustom, Contexts
<1>3. \A n \in ChatNames :
        r.spec[n] = IF n \in other.custom /\ c.spec[n] = None THEN other.spec[n] ELSE c.spec[n]
  BY <1>2
<1>4. r \in Contexts
  <2>1. r.spec \in [ChatNames -> Specs \cup {None}]  BY <1>2, GoodFacts
  <2>2. r.custom \in SUBSET ChatNames  BY <1>2, GoodFacts
  <2> QED  BY <1>1, <2>1, <2>2 DEF MergeCustom, Contexts
<1>5. \A n \in c.seen : n \in ChatNames /\ r.spec[n] = c.spec[n]
  BY <1>3, GoodFacts, SpecFacts
<1>6. SpecsFit(r)
  <2>1. \A t \in c.tools : t.name \in c.seen /\ c.spec[t.name] = t.tool  BY GoodFacts
  <2> QED  BY <1>2, <1>5, <2>1 DEF SpecsFit
<1>7. SeenAreTools(r)  BY <1>2 DEF SeenAreTools, GoodContext
<1>8. SpecsNamed(r)  BY <1>3, GoodFacts DEF SpecsNamed
<1>9. SpacesFlat(r)  BY <1>2 DEF SpacesFlat, GoodContext
<1>10. CustomFits(r)
  <2>1. \A n \in other.custom : n \in ChatNames /\ other.spec[n] \in Specs
                                /\ other.spec[n].kind = "custom" /\ ChatName(other.spec[n]) = n
    BY GoodFacts, SpecFacts, ZenonT(60)
  <2>2. \A n \in c.custom : n \in ChatNames /\ c.spec[n] \in Specs /\ c.spec[n].kind = "custom"
    BY GoodFacts
  <2>3. \A n \in other.custom : c.spec[n] # None => c.spec[n].kind = "custom"
    BY <2>1, GoodFacts, SameKind
  <2>4. \A n \in r.custom : r.spec[n] # None /\ r.spec[n].kind = "custom"
    BY <1>2, <1>3, <2>1, <2>2, <2>3, SpecFacts, ZenonT(60)
  <2>5. \A n \in r.seen : r.spec[n].kind = "custom" => n \in r.custom
    BY <1>2, <1>5 DEF GoodContext, CustomFits
  <2> QED  BY <2>4, <2>5 DEF CustomFits
<1>11. SearchFits(r)
  BY <1>2, <1>5 DEF SearchFits, GoodContext
<1> QED
  BY <1>2, <1>4, <1>6, <1>7, <1>8, <1>9, <1>10, <1>11 DEF GoodContext

\* merge: the context stays good, keeps the tools it has, and gets those of new
\* names; tool_search is among them already when it is added in the end.
LEMMA MergeGood ==
    ASSUME KeepsKind, NEW c, NEW other, GoodContext(c), GoodContext(other)
    PROVE  /\ GoodContext(Merge(c, other))
           /\ c.seen \cup other.seen \subseteq Merge(c, other).seen
           /\ Merge(c, other).tools = c.tools \cup {t \in other.tools : t.name \notin c.seen}
           /\ c.hosted \subseteq Merge(c, other).hosted
<1> DEFINE first == MergeTools(c, other)
           second == MergeCustom(first, other)
           third == AddChatTool(second, Proxy, SearchTool)
<1>1. /\ GoodContext(first) /\ other.seen \subseteq first.seen
      /\ first.tools = c.tools \cup {t \in other.tools : t.name \notin c.seen}
      /\ c.hosted \subseteq first.hosted
  BY MergeToolsGood
<1> HIDE DEF first
<1>2. /\ GoodContext(second) /\ second.seen = first.seen
      /\ second.tools = first.tools /\ second.hosted = first.hosted
  BY <1>1, MergeCustomGood
<1> HIDE DEF second
<1>3. c.seen \subseteq second.seen
  <2>1. c.seen = {t.name : t \in c.tools} /\ second.seen = {t.name : t \in second.tools}
    BY <1>2 DEF GoodContext, SeenAreTools
  <2> QED  BY <1>1, <1>2, <2>1
<1>4. other.search => third = second
  <2>1. other.search => Proxy \in other.seen  BY DEF GoodContext, SearchFits
  <2> QED  BY <1>1, <1>2, <2>1 DEF AddChatTool
<1>5. Merge(c, other) = IF other.search THEN third ELSE second
  BY DEF Merge, first, second
<1> HIDE DEF third
<1> QED  BY <1>1, <1>2, <1>3, <1>4, <1>5

\* A call of a custom tool in the input.
LEMMA AddCalledGood ==
    ASSUME KeepsKind, NEW c, GoodContext(c), NEW n \in CustomItems
    PROVE  /\ GoodContext(AddCalled(c, n)) /\ AddCalled(c, n).seen = c.seen
           /\ AddCalled(c, n).tools = c.tools
<1> DEFINE r == AddCalled(c, n)
           d == Called(n)
<1>1. c \in Contexts /\ n \in ChatNames  BY CalledFacts DEF GoodContext
<1>2. /\ r.custom = c.custom \cup {n}
      /\ r.spec = [c.spec EXCEPT ![n] = IF c.spec[n] = None THEN d ELSE c.spec[n]]
      /\ r.seen = c.seen /\ r.tools = c.tools /\ r.hosted = c.hosted
      /\ r.search = c.search /\ r.spaces = c.spaces
  BY <1>1 DEF AddCalled, Contexts
<1>a. d \in Specs /\ d.kind = "custom" /\ ChatName(d) = n  BY CalledFacts
<1> HIDE DEF d
<1>3. \A m \in ChatNames :
        r.spec[m] = IF m = n /\ c.spec[m] = None THEN d ELSE c.spec[m]
  BY <1>1, <1>2, GoodFacts
<1>4. r \in Contexts
  <2>1. r.spec \in [ChatNames -> Specs \cup {None}]
    BY <1>a, <1>1, <1>2, GoodFacts
  <2>2. r.custom \in SUBSET ChatNames  BY <1>1, <1>2, GoodFacts
  <2> QED  BY <1>1, <2>1, <2>2 DEF AddCalled, Contexts
<1>5. \A m \in c.seen : m \in ChatNames /\ r.spec[m] = c.spec[m]
  <2>1. \A m \in c.seen : m \in ChatNames /\ c.spec[m] \in Specs  BY GoodFacts
  <2> QED  BY <1>3, <2>1, SpecFacts
<1>6. SpecsFit(r)
  <2>1. \A t \in c.tools : t.name \in c.seen /\ c.spec[t.name] = t.tool  BY GoodFacts
  <2> QED  BY <1>2, <1>5, <2>1 DEF SpecsFit
<1>7. SeenAreTools(r)  BY <1>2 DEF SeenAreTools, GoodContext
<1>8. SpecsNamed(r)  BY <1>a, <1>3, GoodFacts DEF SpecsNamed
<1>9. SpacesFlat(r)  BY <1>2 DEF SpacesFlat, GoodContext
<1>10. CustomFits(r)
  <2>1. c.spec[n] # None => c.spec[n].kind = "custom"
    <3>1. c.spec[n] # None => c.spec[n] \in Specs /\ ChatName(c.spec[n]) = n
      BY <1>1, GoodFacts
    <3> QED  BY <1>a, <3>1, SameKind
  <2>2. \A m \in c.custom : m \in ChatNames /\ c.spec[m] \in Specs /\ c.spec[m].kind = "custom"
    BY GoodFacts
  <2>3. d # None  BY <1>a, SpecFacts
  <2>4. \A m \in r.custom : r.spec[m] # None /\ r.spec[m].kind = "custom"
    <3>1. r.spec[n] # None /\ r.spec[n].kind = "custom"
      BY <1>a, <1>1, <1>3, <2>1, <2>3
    <3>2. \A m \in c.custom : m \in ChatNames /\ c.spec[m] # None /\ c.spec[m].kind = "custom"
      BY <2>2, SpecFacts
    <3>3. \A m \in c.custom : m # n => r.spec[m] = c.spec[m]
      BY <1>3, <3>2
    <3> QED  BY <1>2, <3>1, <3>2, <3>3
  <2>5. \A m \in r.seen : r.spec[m].kind = "custom" => m \in r.custom
    BY <1>2, <1>5 DEF GoodContext, CustomFits
  <2> QED  BY <2>4, <2>5 DEF CustomFits
<1>11. SearchFits(r)
  BY <1>2, <1>5 DEF SearchFits, GoodContext
<1> QED
  BY <1>2, <1>4, <1>6, <1>7, <1>8, <1>9, <1>10, <1>11 DEF GoodContext

\* A hosted tool that is passed through.
LEMMA AddHostedGood ==
    ASSUME NEW c, GoodContext(c), NEW h \in Hosted
    PROVE  /\ GoodContext([c EXCEPT !.hosted = @ \cup {h}])
           /\ [c EXCEPT !.hosted = @ \cup {h}].seen = c.seen
           /\ [c EXCEPT !.hosted = @ \cup {h}].tools = c.tools
<1> DEFINE r == [c EXCEPT !.hosted = @ \cup {h}]
<1>1. c \in Contexts  BY DEF GoodContext
<1>2. /\ r.hosted = c.hosted \cup {h}
      /\ r.custom = c.custom /\ r.spec = c.spec /\ r.seen = c.seen /\ r.tools = c.tools
      /\ r.search = c.search /\ r.spaces = c.spaces
  BY <1>1 DEF Contexts
<1>3. r \in Contexts  BY <1>1 DEF Contexts
<1> QED
  BY <1>2, <1>3
  DEF GoodContext, SpecsFit, SeenAreTools, SpecsNamed, SpacesFlat, CustomFits, SearchFits

-----------------------------------------------------------------------------
(* The conversation.                                                       *)

AllSeen(c, ds) == \A k \in DOMAIN ds : ChatName(ds[k]) \in c.seen

\* The upstream is told of what these declarations say, on top of a context.
ToolsOf(old, ds) == old.tools \cup {t \in FirstOf(ds) : t.name \notin old.seen}

Base(s, i) == IF s[i].from = 0 THEN EmptyContext ELSE s[s[i].from].context

\* What a turn saved, and what the session it continued had.
GoodSession(s, i) ==
    /\ GoodContext(s[i].context) /\ AllSeen(s[i].context, s[i].declared)
    /\ s[i].from \in 0..Len(s)
    /\ s[i].context.tools = ToolsOf(Base(s, i), s[i].declared)
    /\ Base(s, i).hosted \subseteq s[i].context.hosted

\* The context of a request has what the request declared so far.
GoodRequest ==
    /\ GoodContext(context) /\ AllSeen(context, declared)
    /\ context.tools = FirstOf(declared)

\* The inductive invariant.
ToolInv ==
    /\ TypeOK
    /\ GoodRequest
    /\ \A i \in Turns : GoodSession(sessions, i)

Sessions == [context : Contexts, from : Nat, declared : Seq(Decls)]

\* No declaration comes first where there is none.
LEMMA FirstOfNone == FirstOf(<<>>) = {}
  BY DEF FirstOf

\* One more declaration comes first if its name is new.
LEMMA FirstOfAppend ==
    ASSUME NEW ds \in Seq(Decls), NEW d \in Decls,
           NEW c, SeenAreTools(c), AllSeen(c, ds), c.tools = FirstOf(ds)
    PROVE  FirstOf(Append(ds, d)) =
             IF ChatName(d) \in c.seen THEN FirstOf(ds)
             ELSE FirstOf(ds) \cup {[name |-> ChatName(d), tool |-> d]}
<1> DEFINE new == Append(ds, d)
           First(e, l) == \A j \in 1..(l - 1) : ChatName(e[j]) # ChatName(e[l])
           Entry(e) == [name |-> ChatName(e), tool |-> e]
<1>1. /\ Len(ds) \in Nat /\ DOMAIN ds = 1..Len(ds) /\ DOMAIN new = 1..(Len(ds) + 1)
      /\ new[Len(ds) + 1] = d /\ \A k \in 1..Len(ds) : new[k] = ds[k]
  OBVIOUS
<1> HIDE DEF new
<1>2. /\ FirstOf(ds) = {Entry(ds[k]) : k \in {l \in DOMAIN ds : First(ds, l)}}
      /\ FirstOf(new) = {Entry(new[k]) : k \in {l \in DOMAIN new : First(new, l)}}
  BY DEF FirstOf
<1>3. \A k \in 1..Len(ds) : First(new, k) <=> First(ds, k)
  BY <1>1
<1>4. First(new, Len(ds) + 1) <=> ChatName(d) \notin c.seen
  <2>1. CASE ChatName(d) \in c.seen
    <3>1. PICK t \in FirstOf(ds) : t.name = ChatName(d)
      BY <2>1 DEF SeenAreTools
    <3>2. PICK k \in DOMAIN ds : t = Entry(ds[k])  BY <1>2, <3>1
    <3>3. ChatName(ds[k]) = ChatName(d)  BY <3>1, <3>2
    <3> QED  BY <1>1, <2>1, <3>3
  <2>2. CASE ChatName(d) \notin c.seen
    <3>1. \A k \in 1..Len(ds) : ChatName(ds[k]) # ChatName(d)  BY <1>1, <2>2 DEF AllSeen
    <3> QED  BY <1>1, <2>2, <3>1
  <2> QED  BY <2>1, <2>2
<1> HIDE DEF First, Entry
<1>5. \A t : t \in FirstOf(new) <=>
              \/ t \in FirstOf(ds)
              \/ ChatName(d) \notin c.seen /\ t = Entry(d)
  BY <1>1, <1>2, <1>3, <1>4
<1> QED  BY <1>5 DEF new, Entry

\* A turn is answered with a good context: the session's tools and its own.
LEMMA CurrentGood ==
    ASSUME KeepsKind, ToolInv
    PROVE  LET old == IF from = 0 THEN EmptyContext ELSE sessions[from].context IN
           /\ GoodContext(Current) /\ AllSeen(Current, declared)
           /\ Current.tools = ToolsOf(old, declared)
           /\ old.hosted \subseteq Current.hosted
<1>1. CASE from = 0
  <2>1. EmptyContext.tools = {} /\ EmptyContext.seen = {} /\ EmptyContext.hosted = {}
    BY DEF EmptyContext
  <2> QED  BY <1>1, <2>1 DEF Current, ToolInv, GoodRequest, ToolsOf
<1>2. CASE from # 0
  <2>1. from \in Turns  BY <1>2 DEF ToolInv, TypeOK, Turns
  <2>2. GoodContext(sessions[from].context) /\ GoodContext(context)
    BY <2>1 DEF ToolInv, GoodRequest, GoodSession
  <2>3. Current = Merge(sessions[from].context, context)  BY <1>2 DEF Current
  <2> QED  BY <1>2, <2>2, <2>3, MergeGood DEF ToolInv, GoodRequest, AllSeen, ToolsOf
<1> QED  BY <1>1, <1>2

\* Initially there is nothing.
LEMMA InitInv == Init => ToolInv
<1> SUFFICES ASSUME Init PROVE ToolInv  OBVIOUS
<1>1. sessions = <<>> /\ Len(sessions) = 0 /\ Turns = {}  BY DEF Init, Turns
<1>2. TypeOK
  BY <1>1, EmptyGood, ToolAssumption DEF Init, TypeOK, GoodContext
<1>3. EmptyContext.tools = {}  BY DEF EmptyContext
<1> QED  BY <1>1, <1>2, <1>3, EmptyGood, FirstOfNone DEF Init, ToolInv, GoodRequest, AllSeen

\* What has been saved stays as it is.
LEMMA SessionsStay ==
    ASSUME ToolInv, UNCHANGED sessions
    PROVE  (\A i \in Turns : GoodSession(sessions, i))'
  BY DEF ToolInv, Turns, GoodSession, Base

\* Every step keeps the invariant.
LEMMA NextInv == ASSUME KeepsKind, ToolInv, [Next]_vars PROVE ToolInv'
<1>1. TypeOK /\ GoodRequest
  BY DEF ToolInv
<1>a. GoodContext(context) /\ SeenAreTools(context)  BY <1>1 DEF GoodRequest, GoodContext
<1>2. ASSUME NEW i \in 0..Len(sessions), StartTurn(i) PROVE ToolInv'
  <2>1. (\A k \in Turns : GoodSession(sessions, k))'  BY <1>2, SessionsStay DEF StartTurn
  <2>2. TypeOK'
    BY <1>1, <1>2, EmptyGood, ToolAssumption DEF StartTurn, TypeOK, GoodContext
  <2>3. EmptyContext.tools = {}  BY DEF EmptyContext
  <2>4. GoodRequest'  BY <1>2, <2>3, EmptyGood, FirstOfNone DEF StartTurn, GoodRequest, AllSeen
  <2> QED  BY <2>1, <2>2, <2>4 DEF ToolInv
<1>3. ASSUME NEW d \in Decls, Declare(d) PROVE ToolInv'
  <2>1. (\A k \in Turns : GoodSession(sessions, k))'  BY <1>3, SessionsStay DEF Declare
  <2>a. declared \in Seq(Decls) /\ declared' = Append(declared, d)
        /\ context' = AddResponseTool(context, d)
    BY <1>1, <1>3 DEF Declare, TypeOK
  <2>b. GoodContext(context') /\ AllSeen(context', declared')
    <3>1. /\ GoodContext(context') /\ ChatName(d) \in context'.seen
          /\ context.seen \subseteq context'.seen
      BY <1>a, <2>a, AddResponseGood
    <3>2. \A k \in DOMAIN declared' :
             declared'[k] = d \/ (k \in DOMAIN declared /\ declared'[k] = declared[k])
      BY <2>a
    <3> QED  BY <1>1, <3>1, <3>2 DEF GoodRequest, AllSeen
  <2>c. context'.tools = FirstOf(declared')
    <3>1. AllSeen(context, declared) /\ context.tools = FirstOf(declared)
      BY <1>1 DEF GoodRequest
    <3>2. context'.tools = IF ChatName(d) \in context.seen THEN context.tools
                           ELSE context.tools \cup {[name |-> ChatName(d), tool |-> d]}
      BY <1>a, <2>a, AddResponseGood
    <3>3. FirstOf(Append(declared, d)) =
            IF ChatName(d) \in context.seen THEN FirstOf(declared)
            ELSE FirstOf(declared) \cup {[name |-> ChatName(d), tool |-> d]}
      BY <1>a, <2>a, <3>1, FirstOfAppend
    <3> QED  BY ONLY <2>a, <3>1, <3>2, <3>3
  <2>2. GoodRequest'  BY <2>b, <2>c DEF GoodRequest
  <2>3. TypeOK'
    BY <1>1, <1>3, <2>a, <2>b, ToolAssumption DEF Declare, TypeOK, GoodContext
  <2> QED  BY <2>1, <2>2, <2>3 DEF ToolInv
<1>4. ASSUME NEW h \in Hosted, DeclareHosted(h) PROVE ToolInv'
  <2>1. (\A k \in Turns : GoodSession(sessions, k))'  BY <1>4, SessionsStay DEF DeclareHosted
  <2>2. GoodRequest'
    BY <1>1, <1>4, AddHostedGood DEF DeclareHosted, AllSeen, GoodRequest
  <2>3. TypeOK'
    BY <1>1, <1>4, <2>2, ToolAssumption DEF DeclareHosted, TypeOK, GoodRequest, GoodContext
  <2> QED  BY <2>1, <2>2, <2>3 DEF ToolInv
<1>5. ASSUME RejectHosted PROVE ToolInv'
  <2>1. (\A k \in Turns : GoodSession(sessions, k))'  BY <1>5, SessionsStay DEF RejectHosted
  <2>2. TypeOK'  BY <1>1, <1>5 DEF RejectHosted, TypeOK
  <2> QED  BY <1>1, <1>5, <2>1, <2>2 DEF RejectHosted, ToolInv, GoodRequest
<1>6. ASSUME NEW n \in CustomItems, CallCustom(n) PROVE ToolInv'
  <2>1. (\A k \in Turns : GoodSession(sessions, k))'  BY <1>6, SessionsStay DEF CallCustom
  <2>2. GoodRequest'
    BY <1>1, <1>6, AddCalledGood DEF CallCustom, AllSeen, GoodRequest
  <2>3. TypeOK'
    BY <1>1, <1>6, <2>2, ToolAssumption DEF CallCustom, TypeOK, GoodRequest, GoodContext
  <2> QED  BY <2>1, <2>2, <2>3 DEF ToolInv
<1>7. ASSUME Answer PROVE ToolInv'
  <2> DEFINE s == [context |-> Current, from |-> from, declared |-> declared]
  <2>1. sessions \in Seq(Sessions) /\ s \in Sessions
    BY <1>1, CurrentGood DEF TypeOK, Sessions, GoodContext
  <2>2. sessions' = Append(sessions, s)  BY <1>7 DEF Answer
  <2>3. /\ s.context = Current /\ s.from = from /\ s.declared = declared
    OBVIOUS
  <2> HIDE DEF s
  <2>4. /\ sessions' \in Seq(Sessions) /\ Len(sessions') = Len(sessions) + 1
        /\ Len(sessions) \in Nat /\ sessions'[Len(sessions) + 1] = s
        /\ \A i \in 1..Len(sessions) : sessions'[i] = sessions[i]
        /\ DOMAIN sessions' = 1..(Len(sessions) + 1) /\ DOMAIN sessions = 1..Len(sessions)
    BY <2>1, <2>2
  <2>5. TypeOK'
    BY <1>1, <1>7, <2>4 DEF Answer, TypeOK, Sessions
  <2>6. ASSUME NEW i \in 1..Len(sessions) PROVE GoodSession(sessions', i)
    <3>1. GoodSession(sessions, i)  BY <2>4 DEF ToolInv, Turns
    <3>2. sessions'[i] = sessions[i]  BY <2>4
    <3>3. sessions[i].from # 0 => sessions'[sessions[i].from] = sessions[sessions[i].from]
      BY <2>4, <3>1 DEF GoodSession
    <3> QED  BY <2>4, <3>1, <3>2, <3>3 DEF GoodSession, Base
  <2>7. GoodSession(sessions', Len(sessions) + 1)
    <3>1. from \in 0..Len(sessions)  BY <1>1 DEF TypeOK
    <3>2. from # 0 => sessions'[from] = sessions[from]  BY <2>4, <3>1
    <3> QED  BY <2>3, <2>4, <3>1, <3>2, CurrentGood DEF GoodSession, Base
  <2>8. (\A i \in Turns : GoodSession(sessions, i))'
    BY <2>4, <2>6, <2>7 DEF Turns
  <2> QED  BY <1>1, <1>7, <2>5, <2>8 DEF Answer, ToolInv, GoodRequest
<1>8. CASE UNCHANGED vars
  <2>1. (\A k \in Turns : GoodSession(sessions, k))'  BY <1>8, SessionsStay DEF vars
  <2>2. TypeOK'  BY <1>1, <1>8 DEF vars, TypeOK
  <2> QED  BY <1>1, <1>8, <2>1, <2>2 DEF vars, ToolInv, GoodRequest
<1> QED  BY <1>2, <1>3, <1>4, <1>5, <1>6, <1>7, <1>8 DEF Next

\* The invariant holds.
THEOREM ToolsSafe == KeepsKind => (Spec => []ToolInv)
<1> SUFFICES ASSUME KeepsKind PROVE Spec => []ToolInv  OBVIOUS
<1>1. Init => ToolInv  BY InitInv
<1>2. ToolInv /\ [Next]_vars => ToolInv'  BY NextInv
<1> QED  BY <1>1, <1>2, PTL DEF Spec

-----------------------------------------------------------------------------
(* What follows from the invariant.                                        *)

\* The variables keep their types.
THEOREM ToolTypes == KeepsKind => (Spec => []TypeOK)
<1>1. ToolInv => TypeOK  BY DEF ToolInv
<1> QED  BY <1>1, ToolsSafe, PTL

\* Whatever requests declare, what is known of a name is what the upstream was
\* told of it (add_chat_tool, merge).
THEOREM SpecsMatch == KeepsKind => (Spec => []ToolsMatchSpecs)
<1>1. ToolInv => ToolsMatchSpecs
  BY DEF ToolInv, GoodSession, GoodContext, SpecsFit, SeenAreTools, ToolsMatchSpecs
<1> QED  BY <1>1, ToolsSafe, PTL

\* The upstream is told of exactly the session's tools and the first declaration
\* of each new name (add_chat_tool, merge).
THEOREM ToolsArrive == KeepsKind => (Spec => []DeclaredArrive)
<1>1. ASSUME ToolInv, NEW i \in Turns
      PROVE LET c == sessions[i].context
                old == Base(sessions, i)
                names == {t.name : t \in old.tools}
            IN  /\ c.tools = old.tools \cup
                             {t \in FirstOf(sessions[i].declared) : t.name \notin names}
                /\ old.hosted \subseteq c.hosted
                /\ \A k \in DOMAIN sessions[i].declared :
                      LET d == sessions[i].declared[k] IN
                      ChatNameFor(c, d.space, d.name) \in {t.name : t \in c.tools}
  <2>1. GoodSession(sessions, i)  BY <1>1 DEF ToolInv
  <2>2. sessions \in Seq(Sessions) /\ i \in DOMAIN sessions
    BY <1>1 DEF ToolInv, TypeOK, Turns, Sessions
  <2>3. SeenAreTools(Base(sessions, i))
    <3>1. CASE sessions[i].from = 0
      BY <3>1, EmptyGood DEF Base, GoodContext
    <3>2. CASE sessions[i].from # 0
      <4>1. sessions[i].from \in Turns  BY <2>1, <2>2, <3>2 DEF GoodSession, Turns
      <4> QED  BY <1>1, <3>2, <4>1 DEF Base, ToolInv, GoodSession, GoodContext
    <3> QED  BY <3>1, <3>2
  <2>4. \A k \in DOMAIN sessions[i].declared : sessions[i].declared[k] \in Specs
    <3>1. sessions[i] \in Sessions  BY <2>2
    <3>2. sessions[i].declared \in Seq(Decls)  BY <3>1 DEF Sessions
    <3> QED  BY <3>2 DEF Specs
  <2>5. \A k \in DOMAIN sessions[i].declared :
           ChatNameFor(sessions[i].context, sessions[i].declared[k].space,
                       sessions[i].declared[k].name) = ChatName(sessions[i].declared[k])
    BY <2>1, <2>4, ChatNameForSpec DEF GoodSession, GoodContext
  <2>6. \A k \in DOMAIN sessions[i].declared :
           ChatName(sessions[i].declared[k]) \in {t.name : t \in sessions[i].context.tools}
    BY <2>1 DEF GoodSession, AllSeen, GoodContext, SeenAreTools
  <2> QED  BY <2>1, <2>3, <2>5, <2>6 DEF GoodSession, ToolsOf, SeenAreTools
<1>2. ToolInv => DeclaredArrive
  BY <1>1 DEF DeclaredArrive, Base
<1> QED  BY <1>2, ToolsSafe, PTL

\* What the two translations of calls find out about a tool.
LEMMA ToolFacts ==
    ASSUME NEW c, GoodContext(c), NEW t \in c.tools
    PROVE  /\ t.name \in ChatNames /\ t.tool \in Specs /\ ChatName(t.tool) = t.name
           /\ c.spec[t.name] = t.tool /\ c.spec[t.name] # None
           /\ IsCustom(c, t.name) <=> t.tool.kind = "custom"
           /\ IsToolSearch(c, t.name) <=> t.tool.kind = "tool_search"
           /\ Nested(c, t.name) <=> t.tool.kind = "namespace"
<1>1. t.name \in c.seen /\ c.spec[t.name] = t.tool /\ t.name \in ChatNames /\ t.tool \in Specs
  BY GoodFacts
<1>2. t.tool # None /\ ChatName(t.tool) = t.name
  <2>1. t.tool # None  BY <1>1, SpecFacts
  <2>2. c.spec[t.name] # None => ChatName(c.spec[t.name]) = t.name  BY <1>1, GoodFacts
  <2> QED  BY <1>1, <2>1, <2>2
<1>3. IsCustom(c, t.name) <=> t.tool.kind = "custom"
  BY <1>1 DEF IsCustom, GoodContext, CustomFits
<1>4. IsToolSearch(c, t.name) <=> t.tool.kind = "tool_search"
  <2>1. t.tool.kind = "tool_search" => t.name = Proxy  BY <1>1, <1>2, NameFacts
  <2> QED  BY <1>1, <2>1 DEF IsToolSearch, GoodContext, SearchFits
<1>5. Nested(c, t.name) <=> t.tool.kind = "namespace"
  BY <1>1, <1>2 DEF Nested
<1> QED  BY <1>1, <1>2, <1>3, <1>4, <1>5

\* The item a call becomes, by the tool it is a call of.
LEMMA BufferedFacts ==
    ASSUME NEW c, GoodContext(c), NEW t \in c.tools
    PROVE  \A tagged : BufferedItem(c, t.name, None, tagged) =
             CASE t.tool.kind = "custom" -> Item("custom_tool_call", None, t.tool.name, "canonical")
               [] t.tool.kind = "tool_search" -> Item("tool_search_call", None, None, "canonical")
               [] OTHER -> Item("function_call", t.tool.space, t.tool.name,
                                IF Nested(c, t.name) /\ tagged THEN "stripped" ELSE "canonical")
<1>1. SpecName(c, t.name) = t.tool.name /\ SpecSpace(c, t.name) = t.tool.space
  BY ToolFacts DEF SpecName, SpecSpace
<1>2. CASE t.tool.kind = "custom"  BY <1>1, <1>2, ToolFacts DEF BufferedItem
<1>3. CASE t.tool.kind = "tool_search"  BY <1>1, <1>3, ToolFacts DEF BufferedItem
<1>4. CASE t.tool.kind # "custom" /\ t.tool.kind # "tool_search"
  BY <1>1, <1>4, ToolFacts DEF BufferedItem
<1> QED  BY <1>2, <1>3, <1>4

\* A call is one of the tool the upstream was told of under its name
\* (is_custom_tool, is_tool_search, lookup_chat_name).
THEOREM CallsFindTheirTool == KeepsKind => (Spec => []CallsAreOfTheirTool)
<1>1. ToolInv => CallsAreOfTheirTool
  BY BufferedFacts DEF ToolInv, GoodSession, CallsAreOfTheirTool
<1> QED  BY <1>1, ToolsSafe, PTL

\* Streamed and not, a call of any tool is the same item with the same arguments,
\* unless the action it selects has the name of a custom tool or of tool_search,
\* or it is a nested call with an action nobody knows (tool_items.py).
THEOREM ModesSame == KeepsKind => (Spec => []ModesAgree)
<1>1. ASSUME NEW c, GoodContext(c), NEW t \in c.tools, NEW tagged \in BOOLEAN,
             NEW a \in t.tool.actions \cup {None}, Plain(c, a), a # None => tagged,
             t.tool.kind = "namespace" /\ tagged => a # None
      PROVE SameItem(c, t.name, a, tagged)
  <2> DEFINE n == t.name
             d == t.tool
  <2>1. SpecName(c, n) = d.name /\ SpecSpace(c, n) = d.space
    BY <1>1, ToolFacts DEF SpecName, SpecSpace
  <2>2. Restore(c, n) = [space |-> d.space, name |-> d.name]
    BY <1>1, ToolFacts DEF Restore
  <2>3. CASE d.kind = "namespace" /\ a # None
    <3>1. Nested(c, n) /\ ~IsCustom(c, n) /\ ~IsToolSearch(c, n) /\ c.spec[n] = d
      BY <1>1, <2>3, ToolFacts
    <3>2. StreamedItem(c, n, a, tagged) = Item("function_call", d.space, a, "stripped")
      BY <1>1, <2>3, <3>1 DEF StreamedItem, Plain
    <3>3. BufferedItem(c, n, a, tagged) = Item("function_call", d.space, a, "stripped")
      BY <1>1, <2>1, <2>3, <3>1 DEF BufferedItem
    <3> QED  BY <3>2, <3>3 DEF SameItem
  <2>4. CASE ~(d.kind = "namespace" /\ a # None)
    <3>1. ~(Nested(c, n) /\ a # None) /\ ~(Nested(c, n) /\ tagged)
      BY <1>1, <2>4, ToolFacts
    <3>2. StreamedItem(c, n, a, tagged) =
            IF IsCustom(c, n) THEN Item("custom_tool_call", None, n, "canonical")
            ELSE IF IsToolSearch(c, n) THEN Item("tool_search_call", None, None, "canonical")
            ELSE IF d.space # None THEN Item("function_call", d.space, d.name, "canonical")
            ELSE Item("function_call", None, n, "canonical")
      BY <2>2, <3>1 DEF StreamedItem
    <3>3. BufferedItem(c, n, a, tagged) =
            IF IsToolSearch(c, n) THEN Item("tool_search_call", None, None, "canonical")
            ELSE IF IsCustom(c, n) THEN Item("custom_tool_call", None, d.name, "canonical")
            ELSE Item("function_call", d.space, d.name, "canonical")
      BY <2>1, <3>1 DEF BufferedItem
    <3>4. d.kind # "tool_search" /\ d.space = None => d.name = n
      BY <1>1, ToolFacts, NameFacts
    <3>5. d.kind = "custom" => d.space = None  BY <1>1, ToolFacts, SpecFacts
    <3> QED  BY <1>1, <3>2, <3>3, <3>4, <3>5, ToolFacts DEF SameItem
  <2> QED  BY <2>3, <2>4
<1>2. ToolInv => ModesAgree
  BY <1>1 DEF ToolInv, GoodSession, ModesAgree
<1> QED  BY <1>2, ToolsSafe, PTL

\* A call that is sent back goes upstream under the name it came from, in its own
\* turn and the ones that continue it (chat_name_for_function).
THEOREM CallsComeBack == KeepsKind => (Spec => []CallsReturn)
<1>1. ASSUME NEW c, NEW e, GoodContext(c), GoodContext(e), NEW t \in c.tools,
             NEW tagged \in BOOLEAN
      PROVE Replayed(e, BufferedItem(c, t.name, None, tagged)) = t.name
  <2> DEFINE d == t.tool
  <2>1. CASE d.kind = "custom"
    <3>1. d.name = t.name  BY <1>1, <2>1, ToolFacts, SpecFacts, NameFacts
    <3>2. BufferedItem(c, t.name, None, tagged) = Item("custom_tool_call", None, d.name, "canonical")
      BY <1>1, <2>1, BufferedFacts
    <3> QED  BY <3>1, <3>2 DEF Replayed, Item
  <2>2. CASE d.kind = "tool_search"
    <3>1. t.name = Proxy  BY <1>1, <2>2, ToolFacts, NameFacts
    <3>2. BufferedItem(c, t.name, None, tagged) = Item("tool_search_call", None, None, "canonical")
      BY <1>1, <2>2, BufferedFacts
    <3> QED  BY <3>1, <3>2 DEF Replayed, Item
  <2>3. CASE d.kind # "custom" /\ d.kind # "tool_search"
    <3>1. PICK args : BufferedItem(c, t.name, None, tagged) =
                        Item("function_call", d.space, d.name, args)
      BY <1>1, <2>3, BufferedFacts
    <3>2. ChatNameFor(e, d.space, d.name) = t.name
      BY <1>1, ToolFacts, ChatNameForSpec DEF GoodContext
    <3> QED  BY <3>1, <3>2 DEF Replayed, Item
  <2> QED  BY <2>1, <2>2, <2>3
<1>2. ToolInv => CallsReturn
  BY <1>1 DEF ToolInv, GoodSession, CallsReturn
<1> QED  BY <1>2, ToolsSafe, PTL
=============================================================================
