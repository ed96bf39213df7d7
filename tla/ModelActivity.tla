--------------------------- MODULE ModelActivity ---------------------------
(***************************************************************************)
(* One execution of a model activity (activities/activities.go): what the  *)
(* provider says, part by part or at once, is folded into the result that  *)
(* the workflow gets and, beside it, relayed into the lanes of a preview   *)
(* whose snapshots come back as receipts.  InvokeModel and GenerateObject  *)
(* ask the provider for everything at once; InvokeModelStream and          *)
(* StreamObject read a stream, which JSON answers enrich with partial      *)
(* values and with the elements that are known to be final.                *)
(*                                                                         *)
(* Data abstraction: text is a sequence of tokens, the grain at which      *)
(* deltas cut it.  A JSON text is "head" (the opening, up to an empty      *)
(* list of elements), then "part" and "rest" of one element after another, *)
(* then "end".  The connector calls of a part are one step here; module    *)
(* Relay has them one by one, with their executions and attempts.          *)
(***************************************************************************)
EXTENDS Naturals, Sequences, FiniteSets, SequencesExt

CONSTANTS
    Asks,      \* what may be asked, and what the provider means to answer
    CallIds,   \* the provider's tool call ids
    Nothing    \* an absent value, call id or lane

Apis == {"generate", "stream", "generateObject", "streamObject"}

Options == [api : Apis,
            json : BOOLEAN,             \* ResponseFormat is json
            lane : {"text", "object"},  \* the default lane of the preview
            visible : BOOLEAN,
            strict : BOOLEAN]           \* FailurePolicy

\* A call the provider wants made; a hosted one it makes itself.
Calls == [id : CallIds, input : Seq(STRING), hosted : BOOLEAN]
Answer == [reasoning : Seq(STRING), text : Seq(STRING), calls : Seq(Calls), file : BOOLEAN]

ASSUME AsksAssumption ==
    \A a \in Asks :
        /\ a.opts \in Options /\ a.answer \in Answer
        /\ \A i, j \in DOMAIN a.answer.calls :
              a.answer.calls[i].id = a.answer.calls[j].id => i = j

VARIABLES
    ask,       \* the options and the intended answer
    at,        \* what the activity waits for, or how it ended
    said,      \* how much of the answer the provider has sent
    acc,       \* the fold of the parts received
    tracker,   \* partialOutputTracker
    lanes,     \* r.attempts: the preview of each lane
    relay,     \* "on", or "off" once disabled
    result     \* what the activity returned

modelVars == <<ask, at, said, acc, tracker, lanes, relay, result>>

opts == ask.opts
answer == ask.answer
Streams == opts.api \in {"stream", "streamObject"}

-----------------------------------------------------------------------------
(* JSON answers (stream_output.go, and ai.ParsePartialJSON by its use).    *)

IsJSON(text) == text # <<>> /\ text[1] = "head"
Complete(text) == text[Len(text)] = "end"

\* An element, and whether all of it is there.
Elements == [n : Nat, whole : BOOLEAN]

\* The value a repaired prefix parses to: the elements begun so far, the last of
\* which may still be cut.
Value(text) ==
    LET begun == Cardinality({i \in DOMAIN text : text[i] = "part"}) IN
    [n \in 1..begun |-> [n |-> n, whole |-> n < begun \/ text[Len(text)] # "part"]]

\* Mutant: the last element is published as soon as it is begun.
ElementsBegun(text) == Value(text)

\* Nothing in the text says that its last element is over before the text is.
FinalElements(text) ==
    IF Complete(text) \/ Value(text) = <<>> THEN Value(text) ELSE Front(Value(text))

\* A JSON text is over at its end; its values are told from the absent one.
ASSUME JSONAssumption ==
    /\ \A a \in Asks : \A i \in DOMAIN a.answer.text :
          IsJSON(a.answer.text) /\ a.answer.text[i] = "end" => i = Len(a.answer.text)
    /\ Nothing \notin Seq(Elements)

-----------------------------------------------------------------------------
(* Parts of a stream.                                                      *)

Part(type, call, data, value) == [type |-> type, call |-> call, data |-> data, value |-> value]
TextDelta(d) == Part("text-delta", Nothing, d, Nothing)
ReasoningDelta(d) == Part("reasoning-delta", Nothing, d, Nothing)
ElementPart(v) == Part("element", Nothing, <<>>, v)
Plain(type) == Part(type, Nothing, <<>>, Nothing)

\* enrich: what a text delta carries besides its text, if it changes the value.
Enriched(part) ==
    LET text == tracker.text \o part.data
        new == SubSeq(FinalElements(text), tracker.published + 1, Len(FinalElements(text)))
    IN IF ~(opts.json /\ part.type = "text-delta" /\ IsJSON(text))
       THEN [part |-> part, extras |-> <<>>,
             tracker |-> IF part.type = "text-delta" /\ opts.json
                         THEN [tracker EXCEPT !.text = text] ELSE tracker]
       ELSE [part |-> [part EXCEPT !.value = IF tracker.last = Value(text) THEN Nothing
                                                                          ELSE Value(text)],
             extras |-> [i \in DOMAIN new |-> ElementPart(new[i])],
             tracker |-> [text |-> text, last |-> Value(text),
                          published |-> tracker.published + Len(new)]]

\* Mutant: the full input that ends a call's deltas is appended to them.
EndedInputAppends(deltas, full) == deltas \o full

\* A full input takes the place of the deltas before it.
EndedInput(deltas, full) == IF full = <<>> THEN deltas ELSE full

\* Mutant: a call takes what its deltas left even if it names its input itself.
CallInputFromDeltas(deltas, own) == deltas

\* A call that does not name its input takes what its deltas left.
CallInput(deltas, own) == IF own = <<>> THEN deltas ELSE own

\* GenerateResultFromAIStreamParts, one part at a time; no call is marked as hosted.
Fold(a, part) ==
    CASE part.type = "text-delta" -> [a EXCEPT !.text = @ \o part.data]
      [] part.type = "reasoning-delta" -> [a EXCEPT !.reasoning = @ \o part.data]
      [] part.type = "tool-input-delta" -> [a EXCEPT !.inputs[part.call] = @ \o part.data]
      [] part.type = "tool-input-end" ->
            [a EXCEPT !.inputs[part.call] = EndedInput(@, part.data)]
      [] part.type = "tool-call" ->
            [a EXCEPT !.content = Append(@, [id |-> part.call, hosted |-> FALSE,
                input |-> CallInput(a.inputs[part.call], part.data)])]
      [] part.type = "file" -> [a EXCEPT !.file = TRUE]
      [] OTHER -> a

\* isGeneratedOutputPart: an empty delta is not output, nor is the end of an input.
IsOutput(part) ==
    \/ part.type \in {"text-delta", "reasoning-delta", "tool-input-delta"} /\ part.data # <<>>
    \/ part.type \in {"file", "tool-call"}

-----------------------------------------------------------------------------
(* The relay's lanes (updates/relay.go).                                   *)

\* The key of r.attempts, without the step: the stream of one call is one step.
Lane(lane, call) == <<lane, call>>
LaneKeys == ({"object", "reasoning", "text"} \X {Nothing}) \cup ({"tool-input"} \X CallIds)
ASSUME LaneAssumption == Nothing \notin LaneKeys

NoLane == [begun |-> FALSE, text |-> <<>>, object |-> Nothing, elements |-> <<>>]
NoLanes == [k \in LaneKeys |-> NoLane]

TextLane == Lane(opts.lane, Nothing)

\* classifyPart: the lane of a part and what it adds there.
NoMeta == [lane |-> Nothing, text |-> <<>>, object |-> Nothing, elements |-> <<>>]
Classify(part) ==
    CASE part.type \in {"stream-start", "finish", "file"} -> [NoMeta EXCEPT !.lane = TextLane]
      [] part.type = "text-delta" /\ opts.lane = "object" ->
            IF part.value = Nothing THEN NoMeta
            ELSE [NoMeta EXCEPT !.lane = TextLane, !.object = part.value]
      [] part.type = "text-delta" /\ opts.lane = "text" ->
            [NoMeta EXCEPT !.lane = TextLane, !.text = part.data, !.object = part.value]
      [] part.type = "reasoning-delta" ->
            [NoMeta EXCEPT !.lane = Lane("reasoning", Nothing), !.text = part.data]
      [] part.type \in {"tool-input-delta", "tool-input-end"} ->
            [NoMeta EXCEPT !.lane = Lane("tool-input", part.call), !.text = part.data]
      [] part.type = "tool-call" -> [NoMeta EXCEPT !.lane = Lane("tool-input", part.call)]
      [] part.type = "element" ->
            [NoMeta EXCEPT !.lane = Lane("object", Nothing), !.elements = <<part.value>>]
      [] OTHER -> NoMeta

\* Mutant: the text of a delta is left out when its partial value is relayed.
LaneTextOrValue(old, m) == IF m.object = Nothing THEN old \o m.text ELSE old

LaneText(old, m) == old \o m.text

\* ensurePreview, and what Accept does to the lane's state.
AcceptPart(ls, part) ==
    LET m == Classify(part) IN
    IF m.lane = Nothing THEN ls
    ELSE [ls EXCEPT ![m.lane] =
            [begun |-> TRUE, text |-> LaneText(@.text, m),
             object |-> IF m.object = Nothing THEN @.object ELSE m.object,
             elements |-> @.elements \o m.elements]]

\* Accept of one part after another.
AcceptAll(ls, parts) ==
    LET after[n \in 0..Len(parts)] ==
            IF n = 0 THEN ls ELSE AcceptPart(after[n - 1], parts[n])
    IN  after[Len(parts)]

RelayEnabled == opts.visible /\ relay = "on"

\* relay.Accept of some parts: all well; or a connector call fails, and with it
\* the activity; or, in best-effort mode, the stream is missing and the relay is
\* off from then on: none of its lanes will be ended.
Relays(parts, next) ==
    \/ /\ lanes' = IF RelayEnabled THEN AcceptAll(lanes, parts) ELSE lanes
       /\ at' = next
       /\ UNCHANGED relay
    \/ /\ RelayEnabled
       /\ \E i \in DOMAIN parts : Classify(parts[i]).lane # Nothing
       /\ \/ at' = "failed" /\ UNCHANGED <<lanes, relay>>
          \/ ~opts.strict /\ at' = next /\ relay' = "off" /\ lanes' = NoLanes

-----------------------------------------------------------------------------
(* The provider of a stream sends its answer in deltas of its own choice,  *)
(* calls in their order, the inputs of several calls interleaved.          *)

Silent == [reasoning |-> 0, text |-> 0, inputs |-> [c \in CallIds |-> 0],
           ends |-> [c \in CallIds |-> "open"], calls |-> 0, file |-> FALSE, finish |-> 0]

\* The deltas that may come next of a sequence of which n tokens were sent.
Deltas(tokens, n) == {SubSeq(tokens, n + 1, k) : k \in n..Len(tokens)}

\* The provider has given the whole input of the call.
Told(call) == said.inputs[call.id] = Len(call.input) \/ said.ends[call.id] = "full"

\* All of the answer but the finish is sent.
SaidAll ==
    /\ said.reasoning = Len(answer.reasoning)
    /\ said.text = Len(answer.text)
    /\ said.calls = Len(answer.calls)
    /\ said.file = answer.file

\* The parts the provider may send next, each with what it has said then.
Sends(part, after) == [part |-> part, said |-> after]

DeltasNext ==
    {Sends(ReasoningDelta(d), [said EXCEPT !.reasoning = @ + Len(d)]) :
        d \in Deltas(answer.reasoning, said.reasoning)}
    \cup {Sends(TextDelta(d), [said EXCEPT !.text = @ + Len(d)]) :
             d \in Deltas(answer.text, said.text)}

InputsNext(call) ==
    IF said.ends[call.id] # "open" THEN {}
    ELSE {Sends(Part("tool-input-delta", call.id, d, Nothing), [said EXCEPT !.inputs[call.id] = @ + Len(d)]) :
             d \in Deltas(call.input, said.inputs[call.id]) \ {<<>>}}
         \cup {Sends(Part("tool-input-end", call.id, <<>>, Nothing), [said EXCEPT !.ends[call.id] = "blank"]),
               Sends(Part("tool-input-end", call.id, call.input, Nothing), [said EXCEPT !.ends[call.id] = "full"])}

\* A call names its input again unless the stream gave the whole of it.
CallNext(call) ==
    {Sends(Part("tool-call", call.id, input, Nothing), [said EXCEPT !.calls = @ + 1]) :
        input \in {call.input} \cup (IF Told(call) THEN {<<>>} ELSE {})}

PartsNext ==
    IF said.finish > 0 THEN {}
    ELSE DeltasNext
         \cup (UNION {InputsNext(answer.calls[i]) : i \in said.calls + 1..Len(answer.calls)})
         \cup (IF said.calls = Len(answer.calls) THEN {} ELSE CallNext(answer.calls[said.calls + 1]))
         \cup (IF answer.file /\ ~said.file
               THEN {Sends(Plain("file"), [said EXCEPT !.file = TRUE])} ELSE {})
         \cup (IF said = Silent THEN {Sends(Plain("stream-start"), said)} ELSE {})
         \cup (IF SaidAll THEN {Sends(Plain("finish"), [said EXCEPT !.finish = 1])} ELSE {})

-----------------------------------------------------------------------------
(* The activities.                                                         *)

NoAcc == [reasoning |-> <<>>, text |-> <<>>, inputs |-> [c \in CallIds |-> <<>>],
          content |-> <<>>, file |-> FALSE, elements |-> <<>>, seen |-> FALSE]
NoTracker == [text |-> <<>>, last |-> Nothing, published |-> 0]

ModelIdle ==
    /\ said = Silent
    /\ acc = NoAcc
    /\ tracker = NoTracker
    /\ lanes = NoLanes
    /\ relay = "on"

ModelInit ==
    /\ ask \in Asks
    /\ at = "calling"
    /\ ModelIdle
    /\ result = Nothing

\* DoStream returned a stream; StreamObject begins its preview before it asks.
OpenStream ==
    /\ at = "calling"
    /\ Streams
    /\ Relays(IF opts.api = "streamObject" THEN <<Plain("stream-start")>> ELSE <<>>, "reading")
    /\ UNCHANGED <<ask, said, acc, tracker, result>>

\* InvokeModelStream takes a part from the stream: enriched, kept and relayed.
ReceivePart ==
    /\ at = "reading"
    /\ opts.api = "stream"
    /\ \E s \in PartsNext :
          LET e == Enriched(s.part) IN
          /\ said' = s.said
          /\ tracker' = e.tracker
          /\ acc' = [Fold(acc, e.part) EXCEPT !.seen = @ \/ IsOutput(e.part)]
          /\ Relays(<<e.part>> \o e.extras, "reading")
    /\ UNCHANGED <<ask, result>>

\* consumeObjectStream takes a part: a text delta is followed by the values it
\* completes, as parts of their own, and a second finish is kept but not relayed.
ObjectParts(e) ==
    <<TextDelta(e.part.data)>>
    \o (IF e.part.value = Nothing THEN <<>> ELSE <<Part("text-delta", Nothing, <<>>, e.part.value)>>)
    \o e.extras

ReceiveObjectPart ==
    /\ at = "reading"
    /\ opts.api = "streamObject"
    /\ \/ \E d \in Deltas(answer.text, said.text) :
             LET e == Enriched(TextDelta(d)) IN
             /\ said.finish = 0
             /\ said' = [said EXCEPT !.text = @ + Len(d)]
             /\ tracker' = e.tracker
             /\ acc' = Fold(acc, TextDelta(d))
             /\ Relays(ObjectParts(e), "reading")
       \/ /\ said.text = Len(answer.text) /\ said.finish < 2
          /\ said' = [said EXCEPT !.finish = @ + 1]
          /\ Relays(IF said.finish = 0 THEN <<Plain("finish")>> ELSE <<>>, "reading")
          /\ UNCHANGED <<tracker, acc>>
    /\ UNCHANGED <<ask, result>>

\* consumeObjectStream takes an element from the other channel, which may lag
\* behind the stream.
ReceiveElement ==
    /\ at = "reading"
    /\ opts.api = "streamObject"
    /\ Len(acc.elements) < tracker.published
    /\ acc' = [acc EXCEPT !.elements =
                 Append(@, FinalElements(tracker.text)[Len(acc.elements) + 1])]
    /\ UNCHANGED <<ask, at, said, tracker, lanes, relay, result>>

\* The stream is over, whether or not the provider has said all; StreamObject
\* reads both channels to their ends.
StreamCloses ==
    /\ at = "reading"
    /\ \/ opts.api = "stream" /\ at' = IF acc.seen THEN "closing" ELSE "failed"
       \/ opts.api = "streamObject" /\ Len(acc.elements) = tracker.published /\ at' = "closing"
    /\ UNCHANGED <<ask, said, acc, tracker, lanes, relay, result>>

\* finalContentStreamParts and the parts of an object result.
Unless(empty, parts) == IF empty THEN <<>> ELSE parts
WholeParts ==
    <<Plain("stream-start")>>
    \o Unless(answer.reasoning = <<>>, <<ReasoningDelta(answer.reasoning)>>)
    \o Unless(answer.text = <<>>,
              <<Part("text-delta", Nothing, answer.text,
                     IF opts.api = "generateObject" THEN Value(answer.text) ELSE Nothing)>>)
    \o [i \in DOMAIN answer.calls |->
            Part("tool-call", answer.calls[i].id, answer.calls[i].input, Nothing)]
    \o Unless(~answer.file, <<Plain("file")>>)
    \o <<Plain("finish")>>

\* GenerateResultFromAI and GenerateObjectResultFromAI: hosted calls stay marked.
WholeAnswer == [NoAcc EXCEPT !.reasoning = answer.reasoning, !.text = answer.text,
                             !.content = answer.calls, !.file = answer.file]

\* InvokeModel and GenerateObject: the provider answers at once.
AnswersAtOnce ==
    /\ at = "calling"
    /\ ~Streams
    /\ acc' = WholeAnswer
    /\ Relays(WholeParts, "closing")
    /\ UNCHANGED <<ask, said, tracker, result>>

\* The provider fails, or the context is done: the previews are failed or
\* canceled, and the activity returns the error.
ModelBreaks ==
    /\ at \in {"calling", "reading"}
    /\ at' \in {"failed", "canceled"}
    /\ UNCHANGED <<ask, said, acc, tracker, lanes, relay, result>>

\* complete ends the lanes in the order of their keys, the lanes of tool inputs,
\* which come last, in that of the call ids.
Rank(lane) == CASE lane[1] = "object" -> 1 [] lane[1] = "reasoning" -> 2
                [] lane[1] = "text" -> 3 [] lane[1] = "tool-input" -> 4
Begun == {k \in LaneKeys : lanes[k].begun}
EndsInOrder == {ks \in SUBSET Begun : \A k \in ks, j \in Begun : Rank(j) < Rank(k) => j \in ks}

\* The result, and the receipts of the lanes that were ended.
Return(ended) ==
    /\ result' = [reasoning |-> acc.reasoning, text |-> acc.text, content |-> acc.content,
                  file |-> acc.file, elements |-> acc.elements,
                  receipts |-> [k \in ended |-> lanes[k]]]
    /\ at' = "returned"

\* Succeed, then the result: all lanes are ended; or a connector call fails; or,
\* in best-effort mode, the stream goes missing after some of them.
Succeed ==
    /\ at = "closing"
    /\ \/ Return(IF RelayEnabled THEN Begun ELSE {}) /\ UNCHANGED relay
       \/ RelayEnabled /\ Begun # {} /\ at' = "failed" /\ UNCHANGED <<relay, result>>
       \/ /\ RelayEnabled /\ Begun # {} /\ ~opts.strict
          /\ \E ended \in EndsInOrder : Return(ended)
          /\ relay' = "off"
    /\ UNCHANGED <<ask, said, acc, tracker, lanes>>

ModelNext ==
    \/ OpenStream \/ ReceivePart \/ ReceiveObjectPart \/ ReceiveElement
    \/ StreamCloses \/ AnswersAtOnce \/ ModelBreaks \/ Succeed

ModelSpec == ModelInit /\ [][ModelNext]_modelVars

-----------------------------------------------------------------------------
(* Properties.                                                             *)

\* The provider has said all it meant to say.
Finished == ~Streams \/ said.finish > 0

\* However a stream was cut, its deltas interleaved and the inputs of its calls
\* told (in deltas, at their end, with the call, or more than once), the result is
\* the answer the provider meant: reasoning, text, files, and its calls in order,
\* each with its whole input once.
ResultIsAnswer ==
    at = "returned" /\ Finished =>
        /\ result.text = answer.text
        /\ opts.api # "streamObject" =>
              /\ result.reasoning = answer.reasoning
              /\ result.file = answer.file
              /\ Len(result.content) = Len(answer.calls)
              /\ \A i \in DOMAIN answer.calls :
                    /\ result.content[i].id = answer.calls[i].id
                    /\ result.content[i].input = answer.calls[i].input

\* An element is relayed once, in its place, and never before it is whole
\* (newPartialElements holds the last one back), whatever the cuts.
ElementsAreFinal ==
    \A k \in LaneKeys : \A n \in DOMAIN lanes[k].elements :
        lanes[k].elements[n] = [n |-> n, whole |-> TRUE]

\* A beginning of a call's input, and after it the whole of it if a tool-input-end
\* carried it: the relay appends what the result puts in place of the deltas.
InputShown(call, text) ==
    \E n \in 0..Len(call.input) :
        text \in {SubSeq(call.input, 1, n), SubSeq(call.input, 1, n) \o call.input}

\* What a receipt says of a lane, which the workflow stores as the message
\* record, is what the result says: the text, the reasoning, the last value of a
\* JSON answer and the elements final in it.  The preview of a tool's input shows
\* what was streamed of the input of its own call, which may be more or less than
\* the input.
ReceiptsTellResult ==
    at = "returned" => \A k \in DOMAIN result.receipts :
        LET shown == result.receipts[k]
            parsed == opts.api # "generate" /\ opts.json /\ IsJSON(result.text)
        IN CASE k[1] = "reasoning" -> shown.text = result.reasoning
             [] k[1] = "text" -> shown.text = result.text
             [] k[1] = "object" /\ parsed ->
                   /\ TextLane = k => shown.object = Value(result.text)
                   /\ Streams => shown.elements = FinalElements(result.text)
             [] k[1] = "tool-input" ->
                   \E i \in DOMAIN answer.calls :
                       answer.calls[i].id = k[2] /\ InputShown(answer.calls[i], shown.text)
             [] OTHER -> TRUE
=============================================================================
