------------------------------- MODULE Reply -------------------------------
(***************************************************************************)
(* How a classifier's reply becomes a classification (extractJSON of       *)
(* internal/agent, and the end of Classifier.Classify): what wraps the     *)
(* JSON object is stripped, the object is parsed, and whatever does not    *)
(* parse counts as complex.                                                *)
(*                                                                         *)
(* A reply is a sequence of tokens.  "nl" is white space with a line feed, *)
(* "fence" a code fence, "text" is prose, never JSON of its own, and the   *)
(* JSON object is a brace, the value of its field classification, and a    *)
(* brace.  Brackets make JSON arrays, whose commas are left out.           *)
(***************************************************************************)
EXTENDS Integers, FiniteSets, SequencesExt

CONSTANT MaxParts   \* bound of the model: parts of an arbitrary reply

Verdict == {"trivial", "complex", "not-fixable", "something else"}
Object(v) == <<"{", v, "}">>

First(s, t) == SelectInSeq(s, LAMBDA x : x = t)
Final(s, t) == SelectLastInSeq(s, LAMBDA x : x = t)

\* strings.TrimSpace
Trim(s) ==
    LET from == SelectInSeq(s, LAMBDA x : x # "nl")
    IN  IF from = 0 THEN <<>> ELSE SubSeq(s, from, SelectLastInSeq(s, LAMBDA x : x # "nl"))

\* One pass of the loop that strips think blocks; the loop breaks where this
\* changes nothing.
StripBlock(s) ==
    LET start == First(s, "<think>")
        end == First(s, "</think>")
    IN  IF start = 0 \/ end < start
          THEN s
          ELSE Trim(SubSeq(s, 1, start - 1) \o SubSeq(s, end + 1, Len(s)))

\* Mutation: only the first think block is stripped.
StripThinkOnce(s) == StripBlock(s)

\* The loop: a pass that strips removes two tokens at least.
StripThink(s) ==
    LET after[n \in 0..Len(s)] == IF n = 0 THEN s ELSE StripBlock(after[n - 1])
    IN  after[Len(s)]

\* A leading code fence goes with the rest of its line, the last one with all
\* that follows it.
StripFence(s) ==
    IF s = <<>> \/ Head(s) # "fence"
      THEN s
      ELSE LET body == IF First(s, "nl") = 0 THEN s ELSE SubSeq(s, First(s, "nl") + 1, Len(s))
               fence == Final(body, "fence")
           IN  Trim(IF fence = 0 THEN body ELSE SubSeq(body, 1, fence - 1))

Count(s, n, t) == Cardinality({i \in 1..n : s[i] = t})

IsObject(s) == \E v \in Verdict : s = Object(v)

\* Arrays of objects and of arrays: each bracket is closed, the first one at
\* the end, and nothing else is in there.
IsArray(s) ==
    /\ Len(s) > 1 /\ s[1] = "["
    /\ \A n \in 1..Len(s) :
         LET depth == Count(s, n, "[") - Count(s, n, "]")
         IN  IF n = Len(s) THEN depth = 0 ELSE depth > 0
    /\ \A i \in 1..Len(s) :
         \/ s[i] \in Verdict \cup {"[", "]", "nl"}
         \/ s[i] = "{" /\ i + 2 < Len(s) /\ IsObject(SubSeq(s, i, i + 2))
         \/ s[i] = "}" /\ i > 3 /\ IsObject(SubSeq(s, i - 2, i))

\* json.Valid
IsJSON(s) == IsObject(s) \/ IsArray(s)

\* From the first brace to the last, if what is there is not valid JSON.
Braced(s) ==
    IF ~IsJSON(s) /\ First(s, "{") # 0 /\ Final(s, "}") > First(s, "{")
      THEN SubSeq(s, First(s, "{"), Final(s, "}"))
      ELSE s

ExtractJSON(s) == Braced(StripFence(StripThink(Trim(s))))

\* What Classify makes of a reply.
ClassOf(reply) ==
    LET json == ExtractJSON(reply)
    IN  IF json \in {Object("trivial"), Object("not-fixable")} THEN json[2] ELSE "complex"
-----------------------------------------------------------------------------
(* Replies.                                                                *)

Part == {Object(v) : v \in {"trivial", "not-fixable"}}
          \cup {<<t>> : t \in {"text", "nl", "fence", "<think>", "</think>", "{", "}", "[", "]"}}

\* Arbitrary replies: up to MaxParts parts in any order.
Arbitrary == {FlattenSeq(parts) : parts \in BoundedSeq(Part, MaxParts)}

\* What a reasoning model thinks, drafts of its answer included.
Thought == {<<"<think>">> \o body \o <<"</think>", "nl">> :
              body \in {<<>>, <<"text">>, Object("not-fixable"), <<"{", "text", "fence", "nl">>}}

\* The wrappings extractJSON is written for: think blocks, text before and
\* after, a code fence whose fences stand on lines of their own.
Wrapped(v) ==
    {FlattenSeq(<<thoughts, preamble, body, postamble>>) :
       thoughts \in {<<>>} \cup Thought \cup {a \o b : a, b \in Thought},
       preamble \in {<<>>, <<"nl">>, <<"text", "nl">>},
       body \in {Object(v),
                 <<"fence", "nl">> \o Object(v) \o <<"nl", "fence">>,
                 <<"fence", "text", "nl">> \o Object(v) \o <<"nl", "fence">>},
       postamble \in {<<>>, <<"nl">>, <<"nl", "text">>}}

Replies == Arbitrary \cup UNION {Wrapped(v) : v \in Verdict}

\* Classifications a reply can lead to.
Classes == {ClassOf(r) : r \in Replies}
-----------------------------------------------------------------------------
\* Think blocks open after the first n tokens of a reply.
Open(s, n) == Count(s, n, "<think>") - Count(s, n, "</think>")

\* No think block holds another, and none ends that did not begin; the last one
\* may be cut off.
Unnested(s) == \A n \in 0..Len(s) : Open(s, n) \in {0, 1}

\* The reply says v outside its think blocks, or in one that is cut off.
Says(s, v) ==
    \E i \in 1..(Len(s) - 2) :
      /\ SubSeq(s, i, i + 2) = Object(v)
      /\ Open(s, i) = 0 \/ \A n \in i..Len(s) : Open(s, n) = 1

\* The answer in any of the wrappings counts as what it says, drafts that the
\* model rejected while it thought notwithstanding; an unknown verdict counts
\* as complex.
WrappedIsRead ==
    \A v \in Verdict : \A r \in Wrapped(v) :
      ClassOf(r) = IF v = "something else" THEN "complex" ELSE v

\* Recovery is skipped only for a reply that says so: not for a draft in a
\* think block that ends, nor for one that cannot be read.  The draft in a block
\* that is cut off, as it is where the reply reaches the model's limit of tokens,
\* does count: the code strips complete blocks only.
RefusalIsMeant ==
    \A r \in Replies :
      Unnested(r) /\ ClassOf(r) = "not-fixable" => Says(r, "not-fixable")
=============================================================================
