---------------------------- MODULE Conversation ----------------------------
(***************************************************************************)
(* A client's chat whose turns are answered by an Anthropic upstream and by *)
(* Gemini's compatibility endpoint in any order, as the two translations of *)
(* the hub see it: the client's messages are translated for every request,  *)
(* the upstream's answer - whole or event by event - is translated back,    *)
(* and what the client accumulates comes back in the next request.  Texts   *)
(* are sequences of pieces, each piece the number of the block it is from;  *)
(* 0 is what users and tools say, and `{}` among arguments.                 *)
(***************************************************************************)
EXTENDS Naturals, FiniteSets, SequencesExt, FiniteSetsExt

CONSTANTS
    MaxRequests,   \* bound on the requests of the chat
    MaxBlocks,     \* bound on the blocks of all answers together
    MaxPieces,     \* bound on the deltas of one block
    Ids,           \* ids Gemini gives its calls: the same in every answer
    Functions,     \* names of tools
    Schemas,       \* what the parameters of a client's tool may be: the paths of
                   \* keys of a JSON schema, the root's <<>> among them, or none
    Extras,        \* what a client may send beside: sets of "top_k" and "forced"
    Budgets,       \* thinking budgets a client asks for
    Limits,        \* max_tokens a client sends
    MinBudget,     \* MIN_THINKING_BUDGET
    DefaultTokens, \* used when the client sends no max_tokens
    Ceiling        \* the model's known maxOutputTokens

ASSUME ConversationConstants ==
    /\ MaxRequests \in Nat /\ MaxBlocks \in Nat /\ MaxPieces \in Nat
    /\ Extras \subseteq SUBSET {"top_k", "forced"}
    /\ Budgets \subseteq Nat /\ Limits \subseteq Nat \ {0}
    /\ MinBudget \in Nat \ {0}
    /\ DefaultTokens \in Nat \ {0} /\ Ceiling \in Nat \ {0}
    /\ 0 \notin Ids

VARIABLES
    chat,      \* the client's messages
    keeps,     \* the client keeps reasoning_details and thought signatures
    request,   \* what the hub sends upstream, <<>> when there is nothing
    asked,     \* number of requests so far
    upstream,  \* the answer under way: how far it is, and its blocks
    translator,\* AnthropicStreamTranslator
    got,       \* what the client has accumulated of the answer
    answers    \* history: which message of the chat is which answer

chatVars == <<chat, keeps, request, asked, upstream, translator, got, answers>>

Types == {"text", "thinking", "redacted_thinking", "tool_use", "tool_result"}
NoFunction == "none"

Block(type, id, body) ==
    [type |-> type, id |-> id, body |-> body, signed |-> FALSE, fn |-> NoFunction]

Message(role) ==
    [role |-> role, text |-> <<>>, details |-> <<>>, calls |-> <<>>,
     of |-> 0, name |-> NoFunction]

Nothing == [text |-> <<>>, reasoning |-> <<>>, details |-> <<>>,
            calls |-> <<>>, finish |-> FALSE]
NewTranslator == [started |-> FALSE, finish |-> FALSE,
                  toolIndex |-> <<>>, thinking |-> <<>>]
Quiet == [at |-> "none", blocks |-> <<>>]

ChatInit ==
    /\ chat = <<>>
    /\ keeps \in BOOLEAN
    /\ request = <<>>
    /\ asked = 0
    /\ upstream = Quiet
    /\ translator = NewTranslator
    /\ got = Nothing
    /\ answers = <<>>

-----------------------------------------------------------------------------
(* The chat as Anthropic turns.                                             *)

IsResult(b) == b.type = "tool_result"
IsThinking(b) == b.type \in {"thinking", "redacted_thinking"}
IsToolUse(b) == b.type = "tool_use"

\* Details exist only of thinking that is signed, and of redacted thinking.
IsDetail(b) == b.type = "redacted_thinking" \/ (b.type = "thinking" /\ b.signed)

\* The filters: the blocks of a kind, in their order.
If(kept, b) == IF kept THEN <<b>> ELSE <<>>
Results(blocks) == FlattenSeq([i \in DOMAIN blocks |-> If(IsResult(blocks[i]), blocks[i])])
Others(blocks) == FlattenSeq([i \in DOMAIN blocks |-> If(~IsResult(blocks[i]), blocks[i])])
ToolUses(blocks) == FlattenSeq([i \in DOMAIN blocks |-> If(IsToolUse(blocks[i]), blocks[i])])
Details(blocks) == FlattenSeq([i \in DOMAIN blocks |-> If(IsDetail(blocks[i]), blocks[i])])

UserBlocks(m) == IF m.text = <<>> THEN <<>> ELSE <<Block("text", 0, m.text)>>

\* A likely mistake: the blocks of a merged turn stay in the order they came.
PushUserBehind(turns, blocks) ==
    IF blocks = <<>> THEN turns
    ELSE IF turns # <<>> /\ Last(turns).role = "user"
         THEN [turns EXCEPT ![Len(turns)].content = @ \o blocks]
         ELSE Append(turns, [role |-> "user", content |-> blocks])

\* What a user or a tool says joins the user turn before it, results first.
PushUser(turns, blocks) ==
    IF blocks = <<>> THEN turns
    ELSE IF turns # <<>> /\ Last(turns).role = "user"
         THEN LET merged == Last(turns).content \o blocks
              IN [turns EXCEPT ![Len(turns)].content = Results(merged) \o Others(merged)]
         ELSE Append(turns, [role |-> "user", content |-> blocks])

\* The arguments of a call as the tool's input: nothing and `{}` are the same.
ParseArguments(args) == IF args = <<0>> THEN <<>> ELSE args

\* A likely mistake: redacted thinking, which has no text, is left out.
ReadableThinking(details) ==
    FlattenSeq([i \in DOMAIN details |-> If(details[i].type = "thinking", details[i])])

\* reasoning_details are the thinking blocks; they go in front of the turn.
ThinkingBlocks(details) == details

AssistantBlocks(m) ==
    ThinkingBlocks(m.details)
    \o (IF m.text = <<>> THEN <<>> ELSE <<Block("text", 0, m.text)>>)
    \o [i \in DOMAIN m.calls |->
          [Block("tool_use", m.calls[i].id, ParseArguments(m.calls[i].args))
             EXCEPT !.fn = m.calls[i].fn]]

Turned(turns, m) ==
    CASE m.role = "user" -> PushUser(turns, UserBlocks(m))
      [] m.role = "tool" ->
            PushUser(turns, <<Block("tool_result", m.of, m.text)>>)
      [] m.role = "assistant" ->
            IF AssistantBlocks(m) = <<>> THEN turns
            ELSE Append(turns, [role |-> "assistant", content |-> AssistantBlocks(m)])

Turns(messages) ==
    LET upTo[n \in 0 .. Len(messages)] ==
            IF n = 0 THEN <<>> ELSE Turned(upTo[n - 1], messages[n])
    IN  upTo[Len(messages)]

-----------------------------------------------------------------------------
(* The request for Anthropic.                                               *)

\* 0 stands for a field the client does not send.
MaxTokens(limit) ==
    IF limit # 0 THEN limit
    ELSE IF DefaultTokens < Ceiling THEN DefaultTokens ELSE Ceiling

\* A tool loop can only be continued with thinking if the turn that used the
\* tool comes back with its thinking.
LoopWithoutThinking(turns) ==
    LET spoken == {i \in DOMAIN turns : turns[i].role = "assistant"}
        lastAssistant == turns[Max(spoken)].content
    IN /\ spoken # {}
       /\ \E i \in DOMAIN lastAssistant : IsToolUse(lastAssistant[i])
       /\ ~IsThinking(lastAssistant[1])
       /\ Last(turns).role = "user"
       /\ \E i \in DOMAIN Last(turns).content : IsResult(Last(turns).content[i])

\* The budget that is sent, 0 for none: at least the minimum, below max_tokens.
ThinkingBudget(budget, maxTokens, turns) ==
    LET atLeast == IF budget < MinBudget THEN MinBudget ELSE budget
        below == IF atLeast >= maxTokens THEN maxTokens - 1 ELSE atLeast
    IN IF budget = 0 \/ LoopWithoutThinking(turns) \/ below < MinBudget
       THEN 0 ELSE below

\* The client always sends a temperature and a top_p, which are left out beside
\* thinking; a top_k and a tool the client insists on (tool_choice `required` or
\* a function) are sent beside thinking too.
ToAnthropicRequest(budget, limit, extras) ==
    LET turns == Turns(chat)
        thinking == ThinkingBudget(budget, MaxTokens(limit), turns)
    IN [to |-> "anthropic", messages |-> turns, maxTokens |-> MaxTokens(limit),
        thinking |-> thinking, sampling |-> thinking = 0,
        extras |-> extras]

-----------------------------------------------------------------------------
(* The request for Gemini.                                                  *)

HasSignature(call) == call.signed

\* Calls without any signature get the one Gemini accepts for foreign calls.
WithSignature(m) ==
    IF m.calls = <<>> \/ \E i \in DOMAIN m.calls : HasSignature(m.calls[i])
    THEN m
    ELSE [m EXCEPT !.calls[1].signed = TRUE]

\* The function behind a call id, as of the last call that bore the id.
NameOf(messages, id) ==
    LET uses(i) == {k \in DOMAIN messages[i].calls : messages[i].calls[k].id = id}
        users == {i \in DOMAIN messages : uses(i) # {}}
        last == Max(users)
    IN IF users = {} THEN NoFunction ELSE messages[last].calls[Max(uses(last))].fn

Adapted(i) ==
    IF chat[i].role = "tool" /\ chat[i].name = NoFunction
    THEN [chat[i] EXCEPT !.name = NameOf(SubSeq(chat, 1, i - 1), chat[i].of)]
    ELSE WithSignature(chat[i])

\* The keys that are stripped, wherever they are.
Unknown == {"$schema", "additionalProperties"}

\* A likely mistake: the keys are stripped at the top of the schema only.
StripTop(schema) == {path \in schema : path = <<>> \/ path[1] \notin Unknown}

\* The parameters of a tool; an object without properties is left out.
SanitizeSchema(schema) ==
    LET cleaned == {path \in schema : Range(path) \cap Unknown = {}}
        properties == {path \in cleaned : Len(path) = 2 /\ path[1] = "properties"}
    IN IF <<"type", "object">> \in cleaned /\ properties = {} THEN {} ELSE cleaned

AdaptRequestForGemini(schema) ==
    [to |-> "gemini", messages |-> [i \in DOMAIN chat |-> Adapted(i)],
     parameters |-> SanitizeSchema(schema)]

-----------------------------------------------------------------------------
(* The client.                                                              *)

Idle == request = <<>>
Unanswered ==
    LET spoken == {i \in DOMAIN chat : chat[i].role = "assistant"}
        last == Max(spoken)
    IN IF spoken = {} THEN {}
       ELSE {chat[last].calls[k].id : k \in DOMAIN chat[last].calls}
            \ {chat[i].of : i \in last + 1 .. Len(chat)}

\* One message of the user between two answers, anywhere among the results.
Say ==
    /\ Idle /\ asked < MaxRequests
    /\ \A i \in DOMAIN chat :
          chat[i].role = "user" => \E j \in i .. Len(chat) : chat[j].role = "assistant"
    /\ chat' = Append(chat, [Message("user") EXCEPT !.text = <<0>>])
    /\ UNCHANGED <<keeps, request, asked, upstream, translator, got, answers>>

ToolResult ==
    /\ Idle
    /\ \E id \in Unanswered : chat' = Append(chat, [Message("tool") EXCEPT !.of = id])
    /\ UNCHANGED <<keeps, request, asked, upstream, translator, got, answers>>

\* A request whose calls are all answered goes to either upstream.
Ask ==
    /\ Idle /\ asked < MaxRequests
    /\ chat # <<>> /\ Last(chat).role # "assistant" /\ Unanswered = {}
    /\ \/ \E budget \in Budgets \cup {0}, limit \in Limits \cup {0},
             extras \in Extras :
             request' = ToAnthropicRequest(budget, limit, extras)
       \/ \E schema \in Schemas : request' = AdaptRequestForGemini(schema)
    /\ asked' = asked + 1
    /\ upstream' = [Quiet EXCEPT !.at = "asked"]
    /\ UNCHANGED <<chat, keeps, translator, got, answers>>

\* The answer ends well: the client puts it behind its messages.
Take(answer) ==
    /\ chat' = Append(chat,
          [Message("assistant") EXCEPT !.text = answer.text,
             !.details = IF keeps THEN answer.details ELSE <<>>,
             !.calls = [i \in DOMAIN answer.calls |->
                          [answer.calls[i] EXCEPT !.signed = @ /\ keeps]]])
    /\ request' = <<>>
    /\ upstream' = Quiet
    /\ translator' = NewTranslator
    /\ got' = Nothing

\* It does not: the client keeps its messages and may ask again.
Forget ==
    /\ request' = <<>>
    /\ upstream' = Quiet
    /\ translator' = NewTranslator
    /\ got' = Nothing
    /\ UNCHANGED <<chat, answers>>

-----------------------------------------------------------------------------
(* The upstreams.                                                           *)

\* Once the answer begins only who gives it matters of the request.
Spent == [to |-> request.to]

\* Blocks answered so far, all answers together: the next one's number.
Used == Len(FlattenSeq([i \in DOMAIN answers |-> answers[i].blocks]))
NewId == Used + Len(upstream.blocks) + 1

Call(id, fn, args, signed) == [id |-> id, fn |-> fn, args |-> args, signed |-> signed]

Texts(blocks, type) ==
    FlattenSeq([i \in DOMAIN blocks |-> IF blocks[i].type = type THEN blocks[i].body ELSE <<>>])

\* A whole message; an empty input is written as `{}`.
FromAnthropicMessage(blocks) ==
    LET uses == ToolUses(blocks)
    IN [text |-> Texts(blocks, "text"),
        reasoning |-> Texts(blocks, "thinking"),
        details |-> Details(blocks),
        calls |-> [i \in DOMAIN uses |->
                     Call(uses[i].id, uses[i].fn,
                          IF uses[i].body = <<>> THEN <<0>> ELSE uses[i].body, FALSE)],
        finish |-> TRUE]

\* The upstream thinks of its next block, or of more of the one it is at.
GrowWhole ==
    /\ request # <<>> /\ request.to = "anthropic"
    /\ upstream.at \in {"asked", "whole"}
    /\ NewId <= MaxBlocks
    /\ \E type \in Types \ {"tool_result"}, n \in 0 .. MaxPieces,
          signed \in BOOLEAN, fn \in Functions :
          /\ signed => type = "thinking"
          /\ upstream' = [at |-> "whole", blocks |-> Append(upstream.blocks,
               [type |-> type, id |-> NewId,
                body |-> [i \in 1 .. (IF type = "redacted_thinking" THEN 1 ELSE n) |-> NewId],
                signed |-> signed, fn |-> IF type = "tool_use" THEN fn ELSE NoFunction])]
    /\ request' = Spent
    /\ UNCHANGED <<chat, keeps, asked, translator, got, answers>>

AnswerWhole ==
    /\ upstream.at = "whole"
    /\ answers' = Append(answers, [message |-> Len(chat) + 1, blocks |-> upstream.blocks])
    /\ Take(FromAnthropicMessage(upstream.blocks))
    /\ UNCHANGED <<keeps, asked>>

\* Gemini's answer passes through: its calls may bear a signature, the first.
GeminiAnswers ==
    /\ request # <<>> /\ request.to = "gemini"
    /\ Used + 1 <= MaxBlocks
    /\ \E ids \in SeqOf(Ids, 2), fn \in Functions, signed \in BOOLEAN :
          /\ IsInjective(ids)
          /\ Len(ids) <= MaxBlocks - Used
          /\ answers' = Append(answers,
                [message |-> 0, blocks |-> [i \in DOMAIN ids |-> Block("text", 0, <<>>)]])
          /\ Take([Nothing EXCEPT !.text = IF ids = <<>> THEN <<0>> ELSE <<>>,
                     !.calls = [i \in DOMAIN ids |->
                                  Call(ids[i], fn, <<0>>, signed /\ i = 1)]])
    /\ UNCHANGED <<keeps, asked>>

-----------------------------------------------------------------------------
(* A streamed answer, event by event.  `got` is what a client makes of the  *)
(* chunks: it appends, and puts calls where their index says.               *)

Streaming(places) ==
    /\ request # <<>> /\ request.to = "anthropic"
    /\ upstream.at \in places

Index == Len(upstream.blocks)
Open == upstream.blocks[Index]

MessageStart ==
    /\ Streaming({"asked"})
    /\ upstream' = [upstream EXCEPT !.at = "between"]
    /\ translator' = [translator EXCEPT !.started = TRUE]
    /\ request' = Spent
    /\ UNCHANGED <<chat, keeps, asked, got, answers>>

\* `value` is set at `key`.
Put(f, key, value) == [k \in DOMAIN f \cup {key} |-> IF k = key THEN value ELSE f[k]]

\* A likely mistake: the index of the block is taken for the call's.
StartToolByBlock(block) ==
    /\ translator' = [translator EXCEPT !.toolIndex = Put(@, Index + 1, Index)]
    /\ got' = [got EXCEPT !.calls = Put(@, Index, Call(block.id, block.fn, <<>>, FALSE))]

\* A tool's block opens a call; calls are numbered among themselves.
StartTool(block) ==
    LET ti == Cardinality(DOMAIN translator.toolIndex)
    IN /\ translator' = [translator EXCEPT !.toolIndex = Put(@, Index + 1, ti)]
       /\ got' = [got EXCEPT !.calls = Put(@, ti, Call(block.id, block.fn, <<>>, FALSE))]

ContentBlockStart ==
    /\ Streaming({"between"})
    /\ NewId <= MaxBlocks
    /\ \E type \in Types \ {"tool_result"}, fn \in Functions :
          LET redacted == type = "redacted_thinking"
              block == [Block(type, NewId, IF redacted THEN <<NewId>> ELSE <<>>)
                          EXCEPT !.fn = IF type = "tool_use" THEN fn ELSE NoFunction]
          IN /\ upstream' = [at |-> "open", blocks |-> Append(upstream.blocks, block)]
             /\ \/ type = "tool_use" /\ StartTool(block)
                \/ /\ type = "thinking"
                   /\ translator' = [translator EXCEPT !.thinking =
                          Put(@, Index + 1, [text |-> <<>>, signed |-> FALSE])]
                   /\ UNCHANGED got
                \/ /\ redacted
                   /\ got' = [got EXCEPT !.details = Append(@, block)]
                   /\ UNCHANGED translator
                \/ type = "text" /\ UNCHANGED <<translator, got>>
    /\ UNCHANGED <<chat, keeps, request, asked, answers>>

ContentBlockDelta ==
    LET piece == Open.id IN
    /\ Streaming({"open"})
    /\ Len(Open.body) < MaxPieces
    /\ upstream' = [upstream EXCEPT !.blocks[Index].body = Append(@, piece)]
    /\ \/ /\ Open.type = "text"
          /\ got' = [got EXCEPT !.text = Append(@, piece)]
          /\ UNCHANGED translator
       \/ /\ Open.type = "thinking" /\ ~Open.signed
          /\ got' = [got EXCEPT !.reasoning = Append(@, piece)]
          /\ translator' = [translator EXCEPT !.thinking[Index].text = Append(@, piece)]
       \/ /\ Open.type = "tool_use"
          /\ got' = [got EXCEPT !.calls[translator.toolIndex[Index]].args = Append(@, piece)]
          /\ UNCHANGED translator
    /\ UNCHANGED <<chat, keeps, request, asked, answers>>

SignatureDelta ==
    /\ Streaming({"open"})
    /\ Open.type = "thinking" /\ ~Open.signed
    /\ upstream' = [upstream EXCEPT !.blocks[Index].signed = TRUE]
    /\ translator' = [translator EXCEPT !.thinking[Index].signed = TRUE]
    /\ UNCHANGED <<chat, keeps, request, asked, got, answers>>

\* Signed thinking becomes a detail when its block is complete.
ContentBlockStop ==
    /\ Streaming({"open"})
    /\ upstream' = [upstream EXCEPT !.at = "between"]
    /\ IF Index \in DOMAIN translator.thinking /\ translator.thinking[Index].signed
       THEN /\ got' = [got EXCEPT !.details = Append(@,
                 [Block("thinking", Open.id, translator.thinking[Index].text)
                    EXCEPT !.signed = TRUE])]
            /\ translator' = [translator EXCEPT !.thinking =
                 [i \in DOMAIN @ \ {Index} |-> @[i]]]
       ELSE UNCHANGED <<got, translator>>
    /\ UNCHANGED <<chat, keeps, request, asked, answers>>

\* The stop reason.
MessageDelta ==
    /\ Streaming({"between"})
    /\ upstream' = [upstream EXCEPT !.at = "stopping"]
    /\ translator' = [translator EXCEPT !.finish = TRUE]
    /\ UNCHANGED <<chat, keeps, request, asked, got, answers>>

\* The client is told a reason even when the upstream has given none.
MessageStop ==
    /\ Streaming({"between", "stopping"})
    /\ upstream' = [upstream EXCEPT !.at =
          IF @ = "stopping" THEN "stopped" ELSE "unexplained"]
    /\ got' = [got EXCEPT !.finish = TRUE]
    /\ UNCHANGED <<chat, keeps, request, asked, translator, answers>>

Complete == translator.started /\ translator.finish

Calls == [i \in 1 .. Cardinality(DOMAIN got.calls) |-> got.calls[i - 1]]

\* The body ends, early or not: it is an answer only if it is complete.
StreamEnds ==
    /\ Streaming({"asked", "between", "open", "stopping", "stopped", "unexplained"})
    /\ IF Complete
       THEN /\ answers' = Append(answers,
                  [message |-> Len(chat) + 1, blocks |-> upstream.blocks])
            /\ Take([got EXCEPT !.calls = Calls])
       ELSE Forget
    /\ UNCHANGED <<keeps, asked>>

\* An error event, a broken connection, an answer that is an error.
AnswerFails ==
    /\ request # <<>>
    /\ Forget
    /\ UNCHANGED <<keeps, asked>>

StreamEvent ==
    \/ MessageStart \/ ContentBlockStart \/ ContentBlockDelta \/ SignatureDelta
    \/ ContentBlockStop \/ MessageDelta \/ MessageStop \/ StreamEnds

ChatNext ==
    \/ Say \/ ToolResult \/ Ask
    \/ GrowWhole \/ AnswerWhole \/ GeminiAnswers
    \/ StreamEvent \/ AnswerFails

ChatSpec == ChatInit /\ [][ChatNext]_chatVars

-----------------------------------------------------------------------------
(* Properties.                                                              *)

ConversationTypeOK ==
    /\ keeps \in BOOLEAN
    /\ asked \in 0 .. MaxRequests
    /\ \A i \in DOMAIN chat : chat[i].role \in {"user", "assistant", "tool"}
    /\ upstream.at \in {"none", "asked", "whole", "between", "open",
                        "stopping", "stopped", "unexplained"}
    /\ DOMAIN got.calls \subseteq 0 .. MaxBlocks

\* What Anthropic insists on: the order of turns and blocks, results for every
\* tool use, a budget that fits, thinking in front of a loop that goes on, no
\* sampling and no forced tool beside thinking.
AnthropicAccepts(r) ==
    LET turn(i) == r.messages[i].content
        uses(i) == {b \in Range(turn(i)) : IsToolUse(b)}
        results(i) == {b.id : b \in {x \in Range(turn(i)) : IsResult(x)}}
        last == Len(r.messages)
    IN /\ \A i \in DOMAIN r.messages : turn(i) # <<>>
       /\ \A i \in 1 .. last - 1 :
             ~(r.messages[i].role = "user" /\ r.messages[i + 1].role = "user")
       /\ \A i \in DOMAIN r.messages : \A j, k \in DOMAIN turn(i) :
             j < k /\ IsResult(turn(i)[k]) => IsResult(turn(i)[j])
       /\ \A i \in DOMAIN r.messages : uses(i) # {} =>
             i < last /\ {b.id : b \in uses(i)} \subseteq results(i + 1)
       /\ r.thinking # 0 =>
             /\ r.thinking \in MinBudget .. r.maxTokens - 1
             /\ ~r.sampling /\ r.extras = {}
             /\ last > 1 /\ uses(last - 1) # {} => IsThinking(turn(last - 1)[1])

\* The parameters are sent without a key that Gemini does not know.
ParametersClean(parameters) ==
    /\ \A path \in parameters : Range(path) \cap Unknown = {}
    /\ <<"type", "object">> \in parameters =>
          \E path \in parameters : Len(path) = 2 /\ path[1] = "properties"

\* What Gemini insists on: signatures, and results that name their function -
\* the one that was called, also when ids of calls come again -, no key it does
\* not know, and parameters that have a property.
GeminiAccepts(r) ==
  /\ ParametersClean(r.parameters)
  /\ \A i \in DOMAIN r.messages :
        /\ r.messages[i].calls # <<>> =>
              \E k \in DOMAIN r.messages[i].calls : r.messages[i].calls[k].signed
        /\ r.messages[i].role = "tool" =>
              \E j \in 1 .. i - 1 :
                 /\ \E k \in DOMAIN chat[j].calls :
                       /\ chat[j].calls[k].id = r.messages[i].of
                       /\ chat[j].calls[k].fn = r.messages[i].name
                 /\ \A h \in j + 1 .. i - 1 : chat[h].role # "assistant"

\* Whatever a legal chat has been through - either upstream before, answers
\* whole or streamed, details kept or dropped, messages among tool results -
\* the request that is sent is accepted, but for two things that are sent as the
\* client has them: a top_k or a forced tool beside thinking, and an empty
\* object inside a tool's parameters (anthropic-translate.ts:99,187,224;
\* gemini.ts:5,48).
RequestsAccepted ==
    /\ ConversationTypeOK
    /\ upstream.at = "asked" =>
          IF request.to = "anthropic"
          THEN AnthropicAccepts([request EXCEPT !.extras = {}])
          ELSE GeminiAccepts(request)

\* A client that keeps what it was given sends an Anthropic model its own
\* blocks back: the thinking that was signed, unchanged, in order and in front,
\* then the text, then the tool uses with their ids and inputs; one that keeps
\* no details sends the same without thinking (anthropic-translate.ts:79).
EchoIsExact ==
    upstream.at = "asked" /\ request.to = "anthropic" =>
       \A a \in {x \in Range(answers) : x.message # 0} :
          LET text == Texts(a.blocks, "text")
              expected == (IF keeps THEN Details(a.blocks) ELSE <<>>)
                          \o (IF text = <<>> THEN <<>> ELSE <<Block("text", 0, text)>>)
                          \o ToolUses(a.blocks)
          IN expected # <<>> =>
                \E i \in DOMAIN request.messages : request.messages[i].content = expected

\* A streamed answer that ends well is the answer the same message would have
\* been in one piece, up to how an empty input is written; an answer that is
\* cut before its stop reason never passes for one (anthropic-translate.ts:8).
\* An end that comes without any stop reason is shown to the client as one
\* (anthropic-translate.ts:367), and the answer then fails as incomplete.
SameCalls(calls, blocks) ==
    LET whole == FromAnthropicMessage(blocks).calls
    IN /\ DOMAIN calls = 0 .. Len(whole) - 1
       /\ \A i \in DOMAIN whole :
             /\ calls[i - 1].id = whole[i].id
             /\ calls[i - 1].fn = whole[i].fn
             /\ ParseArguments(calls[i - 1].args) = ParseArguments(whole[i].args)

StreamIsWhole ==
    /\ Complete =>
          LET whole == FromAnthropicMessage(upstream.blocks)
          IN /\ upstream.at \in {"stopping", "stopped"}
             /\ got.text = whole.text
             /\ got.reasoning = whole.reasoning
             /\ got.details = whole.details
             /\ SameCalls(got.calls, upstream.blocks)
    /\ got.finish => Complete \/ upstream.at = "unexplained"
=============================================================================
