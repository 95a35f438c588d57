-------------------------- MODULE ProviderRequests --------------------------
(***************************************************************************)
(* llm/anthropic, llm/openai, llm/google: how a conversation becomes the   *)
(* request of a provider and its answer a message of the conversation.  A  *)
(* conversation may go to another provider at every turn, so the messages  *)
(* that one of them made are sent to the others too.                       *)
(*                                                                         *)
(* Text is a sequence of words, 0 standing for white space; a word names   *)
(* the message it is from.  A request is a sequence of turns of blocks.    *)
(***************************************************************************)
EXTENDS Integers, SequencesExt

CONSTANTS Clients,      \* the providers the conversation goes to
          MaxTurnCalls, \* bound on the tool calls of an answer
          MaxAnswers   \* bound on the answers

VARIABLES messages, \* []llm.Message
          answers   \* for each, what the provider's answer was, or nothing: history

requestVars == <<messages, answers>>

NoSignature == <<>>
Part(type, text, signature) == [type |-> type, text |-> text, signature |-> signature]
Text(text) == Part("text", text, NoSignature)
Image(word) == Part("image", <<word>>, NoSignature)
Reasoning(text, signature) == Part("reasoning", text, signature)

Blank(text) == \A i \in DOMAIN text : text[i] = 0
OfType(parts, types) == SelectSeq(parts, LAMBDA p : p.type \in types)
\* Message.TextContent
Joined(parts) == FlattenSeq([i \in DOMAIN parts |-> parts[i].text])
TextOf(parts) == Joined(OfType(parts, {"text"}))

Message(role, parts, toolCalls, id) ==
    [role |-> role, parts |-> parts, calls |-> toolCalls, id |-> id]

NoAnswer == [by |-> "nobody", blocks |-> <<>>]

\* A block of a request or of an answer.
Block_(kind, text, signature, id, name) ==
    [kind |-> kind, text |-> text, signature |-> signature, id |-> id, name |-> name]
NoId == <<>>
TextBlock(text) == Block_("text", text, NoSignature, NoId, 0)

RequestsInit == messages = <<>> /\ answers = <<>>

-----------------------------------------------------------------------------
(* From an answer to a message *)

OfKind(blocks, kind) == SelectSeq(blocks, LAMBDA b : b.kind = kind)
NotBlank(blocks) == SelectSeq(blocks, LAMBDA b : ~Blank(b.text))
AsPart(b) == Part(IF b.kind = "thinking" THEN "reasoning" ELSE b.kind, b.text, b.signature)

\* messageFromAnthropic: the blocks that are no tool call, in their order.
FromAnthropic(blocks) ==
    LET parts == NotBlank(SelectSeq(blocks, LAMBDA b : b.kind # "call"))
    IN  [i \in DOMAIN parts |-> AsPart(parts[i])]

\* messageFromOpenAI: the reasoning comes first.
FromOpenAI(blocks) ==
    LET parts == NotBlank(OfKind(blocks, "thinking") \o OfKind(blocks, "text"))
    IN  [i \in DOMAIN parts |-> AsPart(parts[i])]

\* toolCallFromGenai: a call without an id gets a generated one.
Generated(id) == Len(id) = 3
Identified(blocks, n) ==
    [i \in DOMAIN blocks |-> IF blocks[i].kind = "call" /\ blocks[i].id = NoId
                             THEN [blocks[i] EXCEPT !.id = <<"phero", n, i>>] ELSE blocks[i]]

\* encodeSignature: a reasoning part without text, that says what the signature is of.
EncodeSignature(kind, b) == Reasoning(<<>>, <<"genai", kind, b.signature, b.id>>)

\* messageFromParts: the texts of a kind are joined, and signatures get parts of their own.
FromGoogle(blocks) ==
    LET joined(kind) == LET text == Joined(OfKind(blocks, kind)) IN IF text = <<>> THEN <<>> ELSE <<text>>
        signed(kind) == SelectSeq(OfKind(blocks, kind), LAMBDA b : b.signature # NoSignature)
        encoded(kind, which) == [i \in DOMAIN which |-> EncodeSignature(kind, which[i])]
        last(bs) == IF bs = <<>> THEN <<>> ELSE <<Last(bs)>>
    IN  [i \in DOMAIN joined("thinking") |-> Reasoning(joined("thinking")[i], NoSignature)]
            \o encoded("thinking", last(signed("thinking")))
            \o encoded("call", signed("call"))
            \o encoded("text", last(signed("text")))
            \o [i \in DOMAIN joined("text") |-> Text(joined("text")[i])]

Received(by, answer, n) ==
    LET blocks == IF by = "google" THEN Identified(answer, n) ELSE answer
        asked == OfKind(blocks, "call")
    IN  Message("assistant",
                IF by = "anthropic" THEN FromAnthropic(blocks)
                ELSE IF by = "openai" THEN FromOpenAI(blocks) ELSE FromGoogle(blocks),
                [i \in DOMAIN asked |-> [id |-> asked[i].id, name |-> asked[i].name]], NoId)

-----------------------------------------------------------------------------
(* From the conversation to a request *)

\* Messages of one role, one after the other, make one turn (the add of both
\* messagesToAnthropic and contentsFromMessages).
AddTurn(turns, role, blocks) ==
    IF blocks = <<>> THEN turns
    ELSE IF turns # <<>> /\ Last(turns).role = role
         THEN [turns EXCEPT ![Len(turns)].blocks = @ \o blocks]
    ELSE Append(turns, [role |-> role, blocks |-> blocks])

\* contentBlocksToAnthropic, toolResultContentToAnthropic, partsFromContent.
ContentBlocks(parts, keepBlank) ==
    LET kept == SelectSeq(OfType(parts, {"text", "image"}), LAMBDA p : keepBlank \/ ~Blank(p.text))
    IN  [i \in DOMAIN kept |-> Block_(kept[i].type, kept[i].text, NoSignature, NoId, 0)]

CallBlocks(m) == [i \in DOMAIN m.calls |-> Block_("call", <<>>, NoSignature, m.calls[i].id, m.calls[i].name)]

ResultBlock(m, content, name) ==
    [kind |-> "result", id |-> m.id, content |-> content, name |-> name, signature |-> NoSignature, text |-> <<>>]

\* Thinking goes first, whatever its place among the parts.
AnthropicBlocks(m) ==
    IF m.role = "assistant"
    THEN LET thinking == SelectSeq(OfType(m.parts, {"reasoning", "redacted"}), LAMBDA p : ~Blank(p.text))
         IN  [i \in DOMAIN thinking |-> Block_("thinking", thinking[i].text, thinking[i].signature, NoId, 0)]
                 \o ContentBlocks(OfType(m.parts, {"text"}), FALSE) \o CallBlocks(m)
    ELSE IF m.role = "tool" THEN <<ResultBlock(m, ContentBlocks(m.parts, TRUE), 0)>>
    ELSE ContentBlocks(m.parts, FALSE)

ToAnthropic ==
    FoldLeft(LAMBDA turns, m : AddTurn(turns, IF m.role = "assistant" THEN "assistant" ELSE "user", AnthropicBlocks(m)),
             <<>>, messages)

\* messageToOpenAI: a text alone is sent as it is, blank or not; reasoning is not sent.
OpenAIContent(parts) ==
    IF Len(parts) = 1 /\ parts[1].type = "text" THEN <<TextBlock(parts[1].text)>>
    ELSE ContentBlocks(parts, FALSE)

OpenAIMessage(m) == [role |-> m.role, id |-> m.id, calls |-> m.calls, content |-> OpenAIContent(m.parts)]

\* An assistant message left without content and calls is not sent.
IsSent(msg) == msg.role = "assistant" => msg.calls # <<>> \/ \E i \in DOMAIN msg.content : msg.content[i].text # <<>>

\* The images of a run of tool messages go out after the run.
MustFlush(acc, m) == m.role # "tool" /\ acc.images # <<>>

ImageMessage(images) == OpenAIMessage(Message("user", images, <<>>, NoId))

\* splitToolImages: text that stands for the images, if there is no other.
ToolText(m) ==
    LET rest == SelectSeq(m.parts, LAMBDA p : p.type # "image")
    IN  IF OfType(m.parts, {"image"}) = <<>> \/ ~Blank(TextOf(rest)) THEN rest ELSE <<Text(<<-1>>)>>

OpenAIStep(acc, m) ==
    LET before == IF MustFlush(acc, m) THEN [out |-> Append(acc.out, ImageMessage(acc.images)), images |-> <<>>] ELSE acc
        images == IF m.role = "tool" THEN OfType(m.parts, {"image"}) ELSE <<>>
        label == IF images = <<>> THEN <<>> ELSE <<Text(<<-1>>)>>
        msg == OpenAIMessage(IF m.role = "tool" THEN [m EXCEPT !.parts = ToolText(m)] ELSE m)
    IN  [out |-> IF IsSent(msg) THEN Append(before.out, msg) ELSE before.out,
         images |-> before.images \o label \o images]

ToOpenAI ==
    LET acc == FoldLeft(OpenAIStep, [out |-> <<>>, images |-> <<>>], messages)
    IN  IF acc.images = <<>> THEN acc.out ELSE Append(acc.out, ImageMessage(acc.images))

\* signaturesFromParts: the last signature of a kind, for calls of an id.
SignatureFor(m, kind, id) ==
    LET of == SelectSeq(m.parts, LAMBDA p : /\ p.type = "reasoning" /\ Len(p.signature) = 4
                                            /\ p.signature[2] = kind /\ p.signature[4] = id)
    IN  IF of = <<>> THEN NoSignature ELSE Last(of).signature[3]

\* assistantParts: each signature back on its part, a thought only with its own.
GoogleParts(m) ==
    LET thought == SignatureFor(m, "thinking", NoId)
        text == SignatureFor(m, "text", NoId)
    IN  (IF thought = NoSignature THEN <<>>
         ELSE <<Block_("thinking", Joined(OfType(m.parts, {"reasoning"})), thought, NoId, 0)>>)
            \o (IF TextOf(m.parts) = <<>> /\ text = NoSignature THEN <<>>
                ELSE <<Block_("text", TextOf(m.parts), text, NoId, 0)>>)
            \o [i \in DOMAIN m.calls |->
                   Block_("call", <<>>, SignatureFor(m, "call", m.calls[i].id),
                          IF Generated(m.calls[i].id) THEN NoId ELSE m.calls[i].id, m.calls[i].name)]

\* callNames[id], as the messages before n have left it.
CallName(n, id) ==
    LET k == CHOOSE j \in 1 .. n : /\ \E c \in DOMAIN messages[j].calls : messages[j].calls[c].id = id
                                   /\ \A i \in j + 1 .. n : \A c \in DOMAIN messages[i].calls : messages[i].calls[c].id # id
        c == CHOOSE i \in DOMAIN messages[k].calls : messages[k].calls[i].id = id
    IN  messages[k].calls[c].name

\* functionResponse, which names the function it answers.
FunctionResponse(n) ==
    LET m == messages[n]
    IN  ResultBlock([m EXCEPT !.id = IF Generated(m.id) THEN NoId ELSE m.id],
                    ContentBlocks(m.parts, TRUE), CallName(n, m.id))

ToGoogle ==
    LET blocks(n) == IF messages[n].role = "assistant" THEN GoogleParts(messages[n])
                     ELSE IF messages[n].role = "tool" THEN <<FunctionResponse(n)>>
                     ELSE ContentBlocks(messages[n].parts, FALSE)
    IN  FoldLeft(LAMBDA turns, n : AddTurn(turns, IF messages[n].role = "assistant" THEN "assistant" ELSE "user", blocks(n)),
                 <<>>, [n \in DOMAIN messages |-> n])

-----------------------------------------------------------------------------
(* The conversation *)

Ready == messages # <<>> /\ (Last(messages).role = "assistant" => Last(messages).calls = <<>>)
Next_ == Len(messages) + 1
Word(k) == 10 * Next_ + k

\* Agent.Run's input: a text, a blank one, and an image.
UserSays ==
    /\ messages # <<>> => Ready /\ Last(messages).role = "assistant"
    /\ messages' = Append(messages, Message("user", <<Text(<<Word(1)>>), Text(<<0>>), Image(Word(2))>>, <<>>, NoId))
    /\ answers' = Append(answers, NoAnswer)

Thoughts(by) ==
    {<<>>}
        \cup {<<Block_("thinking", <<Word(1)>>, s, NoId, 0)>> :
                 s \in IF by = "openai" THEN {NoSignature}
                       ELSE IF by = "anthropic" THEN {<<"anthropic", Word(1)>>} ELSE {NoSignature, <<"google", Word(1)>>}}
        \cup (IF by = "anthropic" THEN {<<Block_("redacted", <<Word(1)>>, NoSignature, NoId, 0)>>} ELSE {})

Says(by) ==
    {<<>>, <<TextBlock(<<0>>)>>}
        \cup {<<Block_("text", <<Word(2)>>, s, NoId, 0)>> :
                 s \in IF by = "google" THEN {NoSignature, <<"google", Word(2)>>} ELSE {NoSignature}}

\* The calls of an answer, with ids that each answer uses again, or none; Gemini
\* signs the first.
Asks(by) ==
    {[i \in 1 .. k |-> Block_("call", <<>>, IF i = 1 /\ by = "google" THEN <<"google", Word(3)>> ELSE NoSignature,
                              IF named THEN <<"call", i>> ELSE NoId, Word(i + 2))] :
        k \in 0 .. MaxTurnCalls, named \in IF by = "google" THEN BOOLEAN ELSE {TRUE}}

Answers(by) == {t \o s \o c : t \in Thoughts(by), s \in Says(by), c \in Asks(by)}

ModelReplies(by) ==
    /\ Ready /\ Last(messages).role # "assistant"
    /\ Cardinality({n \in DOMAIN answers : answers[n].by # "nobody"}) < MaxAnswers
    /\ \E blocks \in Answers(by) :
           /\ by = "google" => blocks # <<>>
           /\ messages' = Append(messages, Received(by, blocks, Next_))
           /\ answers' = Append(answers, [by |-> by, blocks |-> blocks])

\* A result for each call, in order: text, or an image.
Result(call, kind, k) ==
    Message("tool", IF kind = "text" THEN <<Text(<<Word(k)>>)>> ELSE <<Text(<<0>>), Image(Word(k))>>, <<>>, call.id)

ToolsAnswer ==
    /\ messages # <<>> /\ ~Ready
    /\ LET asked == Last(messages).calls
       IN  /\ \E kinds \in [DOMAIN asked -> {"text", "image"}] :
                 messages' = messages \o [k \in DOMAIN asked |-> Result(asked[k], kinds[k], k)]
           /\ answers' = answers \o [k \in DOMAIN asked |-> NoAnswer]

RequestsNext == UserSays \/ ToolsAnswer \/ \E by \in Clients : ModelReplies(by)

RequestsSpec == RequestsInit /\ [][RequestsNext]_requestVars

-----------------------------------------------------------------------------
(* Properties *)

\* What a turn's blocks, or a message's content, hold of the conversation.
Words(blocks) == FlattenSeq([i \in DOMAIN blocks |->
    IF blocks[i].kind = "result" THEN Joined(blocks[i].content)
    ELSE IF blocks[i].kind = "call" THEN <<blocks[i].name>>
    ELSE IF blocks[i].kind \in {"text", "image"} THEN blocks[i].text ELSE <<>>])

\* Each word of the conversation but the reasoning, once.
Spoken(words) == SortSeq(SelectSeq(words, LAMBDA w : w > 0), <)
AllWords ==
    FlattenSeq([n \in DOMAIN messages |->
        Joined(OfType(messages[n].parts, {"text", "image"}))
            \o [c \in DOMAIN messages[n].calls |-> messages[n].calls[c].name]])

\* Turns of the two roles alternate, and each call has its result, in order, at the
\* start of the turn after it.
AnswersFollow(turns, named) ==
    \A i \in DOMAIN turns :
        /\ i > 1 => turns[i].role # turns[i - 1].role
        /\ LET asked == OfKind(turns[i].blocks, "call")
           IN  \A c \in DOMAIN asked :
                   /\ i < Len(turns) /\ c <= Len(turns[i + 1].blocks)
                   /\ LET answer == turns[i + 1].blocks[c]
                      IN  answer.kind = "result" /\ answer.id = asked[c].id
                              /\ (named => answer.name = asked[c].name)

\* Whatever providers have answered before, a conversation makes a request that each
\* of them takes: results of parallel calls together in the turn after the calls
\* (messagesToAnthropic), thinking first; tool messages right after the calls, without
\* images, and no empty message (messagesToOpenAI); responses in one turn, under the
\* name of the function (contentsFromMessages).  Nothing that was said is left out.
RequestsFit ==
    Ready =>
        /\ LET turns == ToAnthropic
           IN  /\ AnswersFollow(turns, FALSE)
               /\ \A i \in DOMAIN turns : \A j, k \in DOMAIN turns[i].blocks :
                      turns[i].blocks[k].kind = "thinking" /\ j < k => turns[i].blocks[j].kind = "thinking"
               /\ Spoken(FlattenSeq([i \in DOMAIN turns |-> Words(turns[i].blocks)])) = Spoken(AllWords)
        /\ LET sent == ToOpenAI
           IN  /\ \A i \in DOMAIN sent :
                      /\ \A c \in DOMAIN sent[i].calls :
                             /\ i + c <= Len(sent)
                             /\ sent[i + c].role = "tool" /\ sent[i + c].id = sent[i].calls[c].id
                      /\ sent[i].role = "tool" => OfKind(sent[i].content, "image") = <<>>
                      /\ sent[i].calls = <<>> => sent[i].content # <<>>
               /\ Spoken(FlattenSeq([i \in DOMAIN sent |->
                      Words(sent[i].content) \o [c \in DOMAIN sent[i].calls |-> sent[i].calls[c].name]]))
                      = Spoken(AllWords)
        /\ LET turns == ToGoogle
           IN  /\ AnswersFollow(turns, TRUE)
               /\ Spoken(FlattenSeq([i \in DOMAIN turns |-> Words(turns[i].blocks)])) = Spoken(AllWords)

\* The blocks of a provider's answers, and those of a request, that carry its signature.
SignedBlocks(blocks, by) ==
    {[kind |-> b.kind, signature |-> b.signature, name |-> b.name] :
        b \in {c \in ToSet(blocks) : c.signature # NoSignature /\ c.signature[1] = by}}

\* A signature comes back "unchanged and on the same part, when the conversation
\* continues" (llm/google/doc.go), and thinking with its own (messagesToAnthropic),
\* although a message has no field for it and others have answered in between.
SignaturesGoBack ==
    Ready =>
        \A by \in {"anthropic", "google"} \cap Clients :
            LET turns == IF by = "google" THEN ToGoogle ELSE ToAnthropic
                given == UNION {SignedBlocks(answers[n].blocks, by) :
                                   n \in {k \in DOMAIN answers : answers[k].by = by}}
            IN  UNION {SignedBlocks(turns[i].blocks, by) : i \in DOMAIN turns} = given

\* A conversation can be continued by any provider, with all it has to know of it.
AnyProviderContinues == RequestsFit /\ SignaturesGoBack
=============================================================================
