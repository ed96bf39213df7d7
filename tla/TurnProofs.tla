----------------------------- MODULE TurnProofs -----------------------------
(* Theorems about ModelActivity and Turn, for every value of their constants. *)
EXTENDS Turn, ToolActivityProofs, SequenceTheorems, FiniteSetTheorems, WellFoundedInduction, TLAPS

-----------------------------------------------------------------------------
(* Induction over an interval, with the set of its numbers that have the   *)
(* property in place of the property.                                      *)

LEMMA SmallestOf ==
    ASSUME NEW T, T \subseteq Nat, T # {}
    PROVE  \E x \in T : \A y \in T : x <= y
<1> DEFINE R == OpToRel(<, Nat)
<1>1. IsWellFoundedOn(R, Nat)
    BY NatLessThanWellFounded
<1>2. \A x, y \in Nat : <<y, x>> \in R <=> y < x
    BY DEF OpToRel
<1> HIDE DEF R
<1>3. PICK x \in T : \A y \in T : ~(<<y, x>> \in R)
    BY <1>1, WFMin
<1>4. \A y \in T : ~(y < x)
    BY <1>2, <1>3
<1> QED  BY <1>4

LEMMA IntervalInduction ==
    ASSUME NEW N \in Nat, NEW T, 0 \in T, \A n \in 1..N : n - 1 \in T => n \in T
    PROVE  \A n \in 0..N : n \in T
<1> SUFFICES ASSUME NEW m \in 0..N, m \notin T PROVE FALSE
    OBVIOUS
<1> DEFINE Rest0 == {n \in 0..N : n \notin T}
<1>1. \E x \in Rest0 : \A y \in Rest0 : x <= y
    <2>1. Rest0 \subseteq Nat /\ Rest0 # {}
        OBVIOUS
    <2> HIDE DEF Rest0
    <2> QED  BY <2>1, SmallestOf
<1>2. PICK x \in Rest0 : \A y \in Rest0 : x <= y
    BY <1>1
<1>3. x # 0 /\ x \in 1..N
    BY <1>2
<1>4. x - 1 \in 0..N /\ ~(x <= x - 1)
    BY <1>3
<1>5. x - 1 \in T
    BY <1>2, <1>4
<1> QED  BY <1>2, <1>3, <1>5

(* AcceptAll.                                                              *)

Chain(g, ls, parts) ==
    /\ g[0] = ls
    /\ \A n \in 1..Len(parts) : g[n] = AcceptPart(g[n - 1], parts[n])

\* The function that AcceptAll chooses, up to N parts.
Follows(g, ls, parts, N) ==
    g = [n \in 0..N |-> IF n = 0 THEN ls ELSE AcceptPart(g[n - 1], parts[n])]

\* A recursive function exists as far as it is asked for, one number after another.
LEMMA ChainExists ==
    ASSUME NEW ls, NEW parts, NEW N \in Nat
    PROVE  \E g : Follows(g, ls, parts, N)
<1> DEFINE Step0(h, n) == IF n = 0 THEN ls ELSE AcceptPart(h[n - 1], parts[n])
           Upto(m) == \E g : g = [n \in 0..m |-> Step0(g, n)]
           T == {m \in 0..N : Upto(m)}
<1>1. Upto(0)
    <2> DEFINE g == [n \in 0..0 |-> ls]
    <2>1. \A n \in 0..0 : Step0(g, n) = ls
        OBVIOUS
    <2>2. g = [n \in 0..0 |-> Step0(g, n)]
        BY <2>1
    <2> QED  BY <2>2
<1>2. ASSUME NEW m \in 1..N, Upto(m - 1) PROVE Upto(m)
    <2>1. PICK h : h = [n \in 0..m - 1 |-> Step0(h, n)]
        BY <1>2
    <2> DEFINE g == [n \in 0..m |-> IF n = m THEN AcceptPart(h[m - 1], parts[m]) ELSE h[n]]
    <2>2. \A n \in 0..m - 1 : g[n] = h[n] /\ h[n] = Step0(h, n)
        BY <2>1
    <2>3. \A n \in 0..m - 1 : n # 0 => n - 1 \in 0..m - 1 /\ g[n - 1] = h[n - 1]
        BY <2>2
    <2>4. \A n \in 0..m - 1 : g[n] = Step0(g, n)
        BY <2>2, <2>3
    <2>5. g[m] = Step0(g, m)
        BY <2>2
    <2>6. \A n \in 0..m : g[n] = Step0(g, n)
        BY <2>4, <2>5
    <2> HIDE DEF Step0
    <2>7. g = [n \in 0..m |-> g[n]]
        OBVIOUS
    <2>8. g = [n \in 0..m |-> Step0(g, n)]
        BY <2>6, <2>7
    <2> QED  BY <2>8
<1>3. 0 \in T /\ \A n \in 1..N : n - 1 \in T => n \in T
    <2> HIDE DEF Upto
    <2> QED  BY <1>1, <1>2
<1>4. N \in T
    <2> HIDE DEF T
    <2> QED  BY <1>3, IntervalInduction
<1> QED  BY <1>4 DEF Follows

\* The lanes between the parts of a batch.
LEMMA AcceptAllChain ==
    ASSUME NEW ls, NEW parts, Len(parts) \in Nat
    PROVE  \E g : Chain(g, ls, parts) /\ AcceptAll(ls, parts) = g[Len(parts)]
<1> DEFINE g0 == CHOOSE g : Follows(g, ls, parts, Len(parts))
<1>1. Follows(g0, ls, parts, Len(parts))
    BY ChainExists
<1>2. AcceptAll(ls, parts) = g0[Len(parts)]
    BY DEF AcceptAll, Follows
<1>3. Chain(g0, ls, parts)
    <2> HIDE DEF g0
    <2>1. \A n \in 0..Len(parts) :
             g0[n] = IF n = 0 THEN ls ELSE AcceptPart(g0[n - 1], parts[n])
        BY <1>1 DEF Follows
    <2> QED  BY <2>1 DEF Chain
<1> QED  BY <1>2, <1>3
-----------------------------------------------------------------------------
(* The invariant of a model activity: what was received is what the        *)
(* provider has said, what the tracker and the lanes have is what was      *)
(* received, and what was returned is the answer.                          *)

SaidType == [reasoning : Nat, text : Nat, inputs : [CallIds -> Nat],
             ends : [CallIds -> {"open", "blank", "full"}], calls : Nat,
             file : BOOLEAN, finish : Nat]
AccType == [reasoning : Seq(STRING), text : Seq(STRING), inputs : [CallIds -> Seq(STRING)],
            content : Seq(Calls), file : BOOLEAN, elements : Seq(Elements), seen : BOOLEAN]
LaneType == [begun : BOOLEAN, text : Seq(STRING), object : Seq(Elements) \cup {Nothing},
             elements : Seq(Elements)]

ModelTypes ==
    /\ ask \in Asks
    /\ said \in SaidType
    /\ acc \in AccType
    /\ lanes \in [LaneKeys -> LaneType]

\* Nothing is said that is not in the answer, and the finish comes last.
SaidOK ==
    /\ said.reasoning <= Len(answer.reasoning)
    /\ said.text <= Len(answer.text)
    /\ said.calls <= Len(answer.calls)
    /\ \A i \in DOMAIN answer.calls :
          said.inputs[answer.calls[i].id] <= Len(answer.calls[i].input)
    /\ said.file => answer.file
    /\ said.finish > 0 => said.text = Len(answer.text)
    /\ said.finish > 0 /\ opts.api = "stream" => SaidAll

\* A call as a stream tells it.
AsTold(call) == [id |-> call.id, hosted |-> FALSE, input |-> call.input]

\* The deltas of a call add up to what was said of its input, or to all of it.
InputTold(call) ==
    acc.inputs[call.id] = IF said.ends[call.id] = "full" THEN call.input
                          ELSE SubSeq(call.input, 1, said.inputs[call.id])

StreamTold ==
    /\ acc.text = SubSeq(answer.text, 1, said.text)
    /\ acc.reasoning = SubSeq(answer.reasoning, 1, said.reasoning)
    /\ acc.file = said.file
    /\ \A i \in DOMAIN answer.calls : InputTold(answer.calls[i])
    /\ Len(acc.content) = said.calls
    /\ \A i \in 1..said.calls : acc.content[i] = AsTold(answer.calls[i])

ObjectTold ==
    /\ acc.text = SubSeq(answer.text, 1, said.text)
    /\ acc.reasoning = <<>> /\ acc.content = <<>>

WholeTold ==
    /\ acc \in {NoAcc, WholeAnswer}
    /\ at = "closing" => acc = WholeAnswer

AccOK ==
    CASE opts.api = "stream" -> StreamTold
      [] opts.api = "streamObject" -> ObjectTold
      [] OTHER -> WholeTold

\* The tracker of a text.
TrackerOf(text) ==
    IF IsJSON(text) THEN [text |-> text, last |-> Value(text), published |-> Len(FinalElements(text))]
    ELSE [text |-> text, last |-> Nothing, published |-> 0]

Tracked == tracker = IF Streams /\ opts.json THEN TrackerOf(acc.text) ELSE NoTracker

ObjectLane == Lane("object", Nothing)
ReasoningLane == Lane("reasoning", Nothing)
WordLane == Lane("text", Nothing)

\* An element that is final, and the first n of them.
FinalElement(n) == [n |-> n, whole |-> TRUE]
FirstElements(n) == [i \in 1..n |-> FinalElement(i)]

\* What the lanes should show of a text, its last value and its published elements.
Shows(ls, reasoning, text, last, published) ==
    /\ ls[ReasoningLane].text = reasoning
    /\ opts.lane = "text" => ls[WordLane].text = text
    /\ opts.lane = "object" => ~ls[WordLane].begun
    /\ opts.lane = "object" => ls[ObjectLane].object = last
    /\ ls[ObjectLane].elements = FirstElements(published)
    /\ opts.lane = "text" /\ published = 0 => ~ls[ObjectLane].begun

LastValue ==
    IF opts.api = "generateObject"
    THEN IF acc.text = <<>> THEN Nothing ELSE Value(acc.text)
    ELSE tracker.last

LanesOK ==
    /\ \A k \in LaneKeys : lanes[k].begun \/ lanes[k] = NoLane
    /\ ElementsAreFinal
    /\ RelayEnabled /\ at # "failed" =>
          Shows(lanes, acc.reasoning, acc.text, LastValue, tracker.published)

Unasked == at = "calling" => said = Silent /\ acc = NoAcc /\ tracker = NoTracker /\ lanes = NoLanes

\* The answer is a list in the default lane, and some of its elements were relayed.
ElementsBesideText ==
    /\ opts.lane = "text" /\ opts.json
    /\ IsJSON(result.text) /\ FinalElements(result.text) # <<>>

\* Of the two lanes that are previews of the step's message one is relayed, except
\* for the elements of a list.
LanesApart ==
    {ObjectLane, WordLane} \subseteq DOMAIN result.receipts => ElementsBesideText

\* What ReceiptsTellResult says of the lanes that are not of tool inputs.
ReceiptsTellMessage ==
    at = "returned" => \A k \in DOMAIN result.receipts :
        LET shown == result.receipts[k]
            parsed == opts.api # "generate" /\ opts.json /\ IsJSON(result.text)
        IN CASE k[1] = "reasoning" -> shown.text = result.reasoning
             [] k[1] = "text" -> shown.text = result.text
             [] k[1] = "object" /\ parsed ->
                   /\ TextLane = k => shown.object = Value(result.text)
                   /\ Streams => shown.elements = FinalElements(result.text)
             [] OTHER -> TRUE

\* What was returned; the calls of a stream that was cut short are the first ones.
Returned ==
    /\ DOMAIN result = {"reasoning", "text", "content", "file", "elements", "receipts"}
    /\ result.content \in Seq(Calls)
    /\ \A i \in DOMAIN result.content :
          /\ i \in DOMAIN answer.calls
          /\ result.content[i].id = answer.calls[i].id
          /\ result.content[i].input = answer.calls[i].input
    /\ ResultIsAnswer
    /\ DOMAIN result.receipts \subseteq LaneKeys
    /\ ReceiptsTellMessage
    /\ LanesApart

\* No lane of a stream that was shown to its end lacks its receipt.
AllReceipts ==
    opts.visible /\ relay = "on" /\ Streams =>
        /\ result.reasoning # <<>> => ReasoningLane \in DOMAIN result.receipts
        /\ opts.lane = "text" /\ result.text # <<>> => WordLane \in DOMAIN result.receipts
        /\ opts.lane = "object" /\ opts.json /\ IsJSON(result.text) =>
              ObjectLane \in DOMAIN result.receipts

ModelInv ==
    /\ ModelTypes /\ SaidOK /\ AccOK /\ Tracked /\ LanesOK /\ Unasked
    /\ at = "returned" => Returned

Entries(s) == {s[i] : i \in DOMAIN s}

\* The rows of the step are written or still to be written.
RowsKept ==
    /\ ByAgent
    /\ at = "returned"
    /\ ~Streams => DOMAIN result.receipts = {}
    /\ writes \in Seq(Entries(MessageRows(result)))
    /\ Entries(MessageRows(result)) \subseteq rows \cup Entries(writes)
    /\ rows \subseteq Entries(MessageRows(result))

\* The call that was run is one of the answer.
CallKept ==
    attempt # 0 => \E i \in DOMAIN answer.calls :
        answer.calls[i].id = followed /\ answer.calls[i].input = input

TurnInv ==
    /\ ModelInv
    /\ phase \in {"model", "records"} /\ at = "returned" => AllReceipts
    /\ phase = "model" => rows = {}
    /\ phase = "records" => RowsKept
    /\ CallKept

-----------------------------------------------------------------------------
(* Prefixes of an answer, and the values of their JSON.                    *)

\* A delta takes a prefix to a longer one.
LEMMA PrefixGrows ==
    ASSUME NEW S, NEW s \in Seq(S), NEW n \in 0..Len(s), NEW d \in Deltas(s, n)
    PROVE  /\ d \in Seq(S) /\ Len(d) \in Nat
           /\ n + Len(d) \in 0..Len(s)
           /\ SubSeq(s, 1, n) \in Seq(S) /\ SubSeq(s, 1, n + Len(d)) \in Seq(S)
           /\ SubSeq(s, 1, n) \o d = SubSeq(s, 1, n + Len(d))
<1>1. PICK k \in n..Len(s) : d = SubSeq(s, n + 1, k)
    BY DEF Deltas
<1>2. d \in Seq(S) /\ Len(d) = k - n
    BY <1>1, SubSeqProperties
<1>3. \A j \in 0..Len(s) : /\ SubSeq(s, 1, j) \in Seq(S) /\ Len(SubSeq(s, 1, j)) = j
                           /\ \A i \in 1..j : SubSeq(s, 1, j)[i] = s[i]
    BY SubSeqProperties
<1>4. \A i \in 1..k - n : d[i] = s[n + i]
    BY <1>1, SubSeqProperties
<1> DEFINE a == SubSeq(s, 1, n)
           b == SubSeq(s, 1, k)
<1>5. /\ a \in Seq(S) /\ Len(a) = n /\ \A i \in 1..n : a[i] = s[i]
      /\ b \in Seq(S) /\ Len(b) = k /\ \A i \in 1..k : b[i] = s[i]
    BY <1>3
<1> HIDE DEF a, b
<1>6. a \o d \in Seq(S) /\ Len(a \o d) = k
      /\ \A i \in 1..k : (a \o d)[i] = IF i <= n THEN a[i] ELSE d[i - n]
    BY <1>2, <1>5, ConcatProperties
<1>7. \A i \in 1..k : (a \o d)[i] = b[i]
    BY <1>4, <1>5, <1>6
<1>8. a \o d = b
    BY <1>5, <1>6, <1>7, SeqEqual
<1> QED  BY <1>2, <1>3, <1>8 DEF a, b

\* How many elements a text has begun.
Count(text) == Cardinality({i \in DOMAIN text : text[i] = "part"})

LEMMA CountType ==
    ASSUME NEW text \in Seq(STRING)
    PROVE  /\ Count(text) \in Nat
           /\ IsFiniteSet({i \in DOMAIN text : text[i] = "part"})
<1>1. IsFiniteSet(DOMAIN text)
    BY LenProperties, FS_Interval
<1>2. IsFiniteSet({i \in DOMAIN text : text[i] = "part"})
    BY <1>1, FS_Subset
<1> QED  BY <1>2, FS_CardinalityType DEF Count

LEMMA ValueType ==
    ASSUME NEW text \in Seq(STRING)
    PROVE  /\ Value(text) \in Seq(Elements) /\ Len(Value(text)) = Count(text)
           /\ Value(text) # Nothing
           /\ \A n \in 1..Count(text) :
                 n < Count(text) \/ text[Len(text)] # "part" =>
                    Value(text)[n] = FinalElement(n)
<1> DEFINE c == Count(text)
           at0(n) == [n |-> n, whole |-> n < c \/ text[Len(text)] # "part"]
<1>1. Value(text) = [n \in 1..c |-> at0(n)] /\ c \in Nat
    BY CountType DEF Value, Count
<1>2. \A n \in 1..c : at0(n) \in Elements
    BY <1>1 DEF Elements
<1>4. ASSUME NEW n \in 1..c, n < c \/ text[Len(text)] # "part"
      PROVE  at0(n) = FinalElement(n)
    <2> DEFINE b == n < c \/ text[Len(text)] # "part"
    <2>1. b = TRUE
        BY <1>4
    <2> HIDE DEF b
    <2>2. [n |-> n, whole |-> b] = FinalElement(n)
        BY <2>1 DEF FinalElement
    <2> QED  BY <2>2 DEF b
<1> HIDE DEF c
<1>3. [n \in 1..c |-> at0(n)] \in Seq(Elements)
    BY <1>1, <1>2
<1>5. \A n \in 1..c : n < c \/ text[Len(text)] # "part" => Value(text)[n] = FinalElement(n)
    <2> HIDE DEF at0
    <2>1. \A n \in 1..c : Value(text)[n] = at0(n)
        BY <1>1
    <2> QED  BY <1>4, <2>1
<1>6. Value(text) \in Seq(Elements) /\ Len(Value(text)) = c
    <2> HIDE DEF at0
    <2> QED  BY <1>1, <1>3
<1> QED  BY <1>5, <1>6, JSONAssumption DEF c

\* What is final is whole and in its place.
LEMMA FinalShape ==
    ASSUME NEW text \in Seq(STRING), text # <<>>
    PROVE  /\ FinalElements(text) \in Seq(Elements)
           /\ FinalElements(text) = FirstElements(Len(FinalElements(text)))
           /\ Len(FinalElements(text)) =
                 IF Complete(text) \/ Count(text) = 0 THEN Count(text) ELSE Count(text) - 1
<1> DEFINE v == Value(text)
           c == Count(text)
<1>1. /\ v \in Seq(Elements) /\ Len(v) = c /\ c \in Nat
      /\ \A n \in 1..c : n < c \/ text[Len(text)] # "part" => v[n] = FinalElement(n)
    BY ValueType, CountType
<1>2. v = <<>> <=> c = 0
    <2> HIDE DEF v, c
    <2> QED  BY <1>1, EmptySeq
<1> HIDE DEF v, c
<1>3. CASE Complete(text) \/ c = 0
    <2>1. FinalElements(text) = v
        BY <1>2, <1>3 DEF FinalElements, v
    <2>2. \A n \in 1..c : v[n] = FinalElement(n)
        BY <1>1, <1>3 DEF Complete
    <2>3. v = FirstElements(c)
        BY <1>1, <2>2, LenProperties DEF FirstElements
    <2> QED  BY <1>1, <1>3, <2>1, <2>3 DEF c
<1>4. CASE ~(Complete(text) \/ c = 0)
    <2>1. FinalElements(text) = SubSeq(v, 1, c - 1)
        BY <1>1, <1>2, <1>4 DEF FinalElements, v, Front
    <2>2. /\ SubSeq(v, 1, c - 1) \in Seq(Elements) /\ Len(SubSeq(v, 1, c - 1)) = c - 1
          /\ \A n \in 1..c - 1 : SubSeq(v, 1, c - 1)[n] = v[n]
        BY <1>1, <1>4, SubSeqProperties
    <2>3. \A n \in 1..c - 1 : v[n] = FinalElement(n)
        BY <1>1
    <2>4. SubSeq(v, 1, c - 1) = FirstElements(c - 1)
        BY <1>1, <1>4, <2>2, <2>3, LenProperties DEF FirstElements
    <2>5. FinalElements(text) \in Seq(Elements) /\ Len(FinalElements(text)) = c - 1
        BY <2>1, <2>2
    <2>6. FinalElements(text) = FirstElements(Len(FinalElements(text)))
        BY <2>1, <2>4, <2>5
    <2>7. ~(Complete(text) \/ Count(text) = 0) /\ c = Count(text)
        BY <1>4 DEF c
    <2>8. Len(FinalElements(text)) =
             IF Complete(text) \/ Count(text) = 0 THEN Count(text) ELSE Count(text) - 1
        <3>1. Len(FinalElements(text)) = Count(text) - 1
            BY <2>5, <2>7
        <3> QED  BY <2>7, <3>1
    <2> QED  BY <2>5, <2>6, <2>8
<1> QED  BY <1>3, <1>4

\* A prefix of a JSON text is JSON as soon as it is not empty, and what is final in
\* it stays so in the longer ones: the text is not over before its end.
LEMMA PrefixJSON ==
    ASSUME NEW text \in Seq(STRING), NEW n \in 0..Len(text)
    PROVE  /\ SubSeq(text, 1, n) \in Seq(STRING) /\ Len(SubSeq(text, 1, n)) = n
           /\ \A i \in 1..n : SubSeq(text, 1, n)[i] = text[i]
           /\ DOMAIN SubSeq(text, 1, n) = 1..n
           /\ SubSeq(text, 1, n) = <<>> <=> n = 0
           /\ IsJSON(SubSeq(text, 1, n)) <=> n # 0 /\ text[1] = "head"
<1> DEFINE p == SubSeq(text, 1, n)
<1>1. p \in Seq(STRING) /\ Len(p) = n /\ \A i \in 1..n : p[i] = text[i]
    BY SubSeqProperties
<1> HIDE DEF p
<1>2. p = <<>> <=> n = 0
    BY <1>1, EmptySeq
<1>3. DOMAIN p = 1..n
    BY <1>1
<1> QED  BY <1>1, <1>2, <1>3 DEF IsJSON, p

LEMMA FinalGrows ==
    ASSUME NEW text \in Seq(STRING), \A i \in DOMAIN text : text[i] = "end" => i = Len(text),
           NEW n \in 1..Len(text), NEW m \in n..Len(text)
    PROVE  Len(FinalElements(SubSeq(text, 1, n))) <= Len(FinalElements(SubSeq(text, 1, m)))
<1> DEFINE a == SubSeq(text, 1, n)
           b == SubSeq(text, 1, m)
<1>1. /\ a \in Seq(STRING) /\ a # <<>> /\ Len(a) = n
      /\ DOMAIN a = 1..n /\ \A i \in 1..n : a[i] = text[i]
    BY PrefixJSON
<1>2. /\ b \in Seq(STRING) /\ b # <<>> /\ Len(b) = m
      /\ DOMAIN b = 1..m /\ \A i \in 1..m : b[i] = text[i]
    BY PrefixJSON
<1>3. CASE n = m
    <2>1. Len(FinalElements(a)) \in Nat
        BY <1>1, FinalShape
    <2> QED  BY <1>3, <2>1
<1>4. CASE n # m
    <2> HIDE DEF a, b
    <2>1. n \in DOMAIN text /\ n # Len(text)
        BY <1>4
    <2>2. ~Complete(a)
        BY <1>1, <2>1 DEF Complete
    <2>3. Count(a) \in Nat /\ Count(b) \in Nat /\ Count(a) <= Count(b)
        <3> DEFINE A == {i \in DOMAIN a : a[i] = "part"}
                   B == {i \in DOMAIN b : b[i] = "part"}
        <3>1. A \subseteq B
            BY <1>1, <1>2
        <3>2. IsFiniteSet(B)
            BY <1>2, CountType
        <3>3. Cardinality(A) <= Cardinality(B)
            BY <3>1, <3>2, FS_Subset
        <3> QED  BY <1>1, <1>2, <3>3, CountType DEF Count
    <2>4. Len(FinalElements(a)) = IF Count(a) = 0 THEN 0 ELSE Count(a) - 1
        BY <1>1, <2>2, FinalShape
    <2>5. Len(FinalElements(b)) = IF Complete(b) \/ Count(b) = 0 THEN Count(b) ELSE Count(b) - 1
        BY <1>2, FinalShape
    <2>6. Len(FinalElements(a)) <= Len(FinalElements(b))
        BY <2>3, <2>4, <2>5
    <2> QED  BY <2>6 DEF a, b
<1> QED  BY <1>3, <1>4

\* The elements from one number to another.
LEMMA FirstElementsGrow ==
    ASSUME NEW p \in Nat, NEW q \in Nat, p <= q
    PROVE  /\ FirstElements(p) \in Seq(Elements) /\ Len(FirstElements(p)) = p
           /\ Len(SubSeq(FirstElements(q), p + 1, q)) = q - p
           /\ SubSeq(FirstElements(q), p + 1, q) \in Seq(Elements)
           /\ \A i \in 1..q - p : SubSeq(FirstElements(q), p + 1, q)[i] = FinalElement(p + i)
<1>1. ASSUME NEW k \in Nat
      PROVE  /\ FirstElements(k) \in Seq(Elements) /\ Len(FirstElements(k)) = k
             /\ \A i \in 1..k : FirstElements(k)[i] = FinalElement(i)
    <2>1. \A i \in 1..k : FinalElement(i) \in Elements
        BY DEF Elements, FinalElement
    <2>2. [i \in 1..k |-> FinalElement(i)] \in Seq(Elements)
        BY <2>1
    <2>3. FirstElements(k) = [i \in 1..k |-> FinalElement(i)]
        BY DEF FirstElements
    <2> QED  BY <2>2, <2>3
<1> DEFINE f == FirstElements(q)
           new == SubSeq(f, p + 1, q)
<1>2. f \in Seq(Elements) /\ Len(f) = q /\ \A i \in 1..q : f[i] = FinalElement(i)
    BY <1>1
<1> HIDE DEF f
<1>3. \A i \in p + 1..q : f[i] \in Elements
    BY <1>2
<1>4. new \in Seq(Elements) /\ Len(new) = q - p /\ \A i \in 1..q - p : new[i] = f[p + 1 + i - 1]
    BY <1>3, SubSeqProperties
<1> HIDE DEF new
<1>5. \A i \in 1..q - p : new[i] = FinalElement(p + i)
    BY <1>2, <1>4
<1> QED  BY <1>1, <1>4, <1>5 DEF new, f

LEMMA FirstElementsAppend ==
    ASSUME NEW p \in Nat
    PROVE  FirstElements(p) \o <<FinalElement(p + 1)>> = FirstElements(p + 1)
<1> DEFINE x == FinalElement(p + 1)
<1>1. x \in Elements
    BY DEF Elements, FinalElement
<1>2. /\ FirstElements(p) \in Seq(Elements) /\ Len(FirstElements(p)) = p
      /\ FirstElements(p + 1) \in Seq(Elements) /\ Len(FirstElements(p + 1)) = p + 1
    BY FirstElementsGrow
<1>3. \A i \in 1..p + 1 : FirstElements(p + 1)[i] = IF i <= p THEN FirstElements(p)[i] ELSE x
    BY DEF FirstElements
<1> HIDE DEF x
<1>a. <<x>> \in Seq(Elements) /\ Len(<<x>>) = 1 /\ <<x>>[1] = x
    BY <1>1
<1> DEFINE w == <<x>>
<1>4. w \in Seq(Elements) /\ Len(w) = 1 /\ w[1] = x
    BY <1>a
<1> HIDE DEF w
<1>5. /\ FirstElements(p) \o w \in Seq(Elements) /\ Len(FirstElements(p) \o w) = p + 1
      /\ \A i \in 1..p + 1 : (FirstElements(p) \o w)[i] =
            IF i <= p THEN FirstElements(p)[i] ELSE w[i - p]
    <2> DEFINE f == FirstElements(p)
    <2>1. f \in Seq(Elements) /\ w \in Seq(Elements) /\ Len(f) = p /\ Len(w) = 1
        BY <1>2, <1>4
    <2> HIDE DEF f
    <2>2. /\ f \o w \in Seq(Elements) /\ Len(f \o w) = Len(f) + Len(w)
          /\ \A i \in 1..Len(f) + Len(w) : (f \o w)[i] = IF i <= Len(f) THEN f[i] ELSE w[i - Len(f)]
        BY <2>1, ConcatProperties
    <2>3. /\ f \o w \in Seq(Elements) /\ Len(f \o w) = p + 1
          /\ \A i \in 1..p + 1 : (f \o w)[i] = IF i <= p THEN f[i] ELSE w[i - p]
        BY <2>1, <2>2
    <2> QED  BY <2>3 DEF f
<1>6. \A i \in 1..p + 1 : (FirstElements(p) \o w)[i] = FirstElements(p + 1)[i]
    <2> SUFFICES ASSUME NEW i \in 1..p + 1
                 PROVE  (FirstElements(p) \o w)[i] = FirstElements(p + 1)[i]
        OBVIOUS
    <2>1. CASE i <= p
        BY <1>3, <1>5, <2>1
    <2>2. CASE i = p + 1
        <3>1. i - p = 1 /\ ~(i <= p)
            BY <2>2
        <3>2. (FirstElements(p) \o w)[i] = w[i - p] /\ FirstElements(p + 1)[i] = x
            BY <1>3, <1>5, <2>2, <3>1
        <3>3. w[i - p] = w[1] /\ w[1] = x
            BY <1>4, <3>1
        <3> QED  BY <3>2, <3>3
    <2>3. i <= p \/ i = p + 1
        OBVIOUS
    <2> QED  BY <2>1, <2>2, <2>3
<1>7. FirstElements(p) \o w = FirstElements(p + 1)
    BY <1>2, <1>5, <1>6, SeqEqual
<1> QED  BY <1>7 DEF x, w

-----------------------------------------------------------------------------
(* The lanes, part by part.                                                *)

\* Lanes in order, which show this much.
Fine(ls, reasoning, text, last, published) ==
    /\ ls \in [LaneKeys -> LaneType]
    /\ \A k \in LaneKeys : ls[k].begun \/ ls[k] = NoLane
    /\ \A k \in LaneKeys : \A n \in DOMAIN ls[k].elements : ls[k].elements[n] = FinalElement(n)
    /\ Shows(ls, reasoning, text, last, published)

Meta(lane, text, object, elements) ==
    [lane |-> lane, text |-> text, object |-> object, elements |-> elements]

LEMMA MessageKeys ==
    ASSUME opts.lane \in {"text", "object"}
    PROVE  /\ ObjectLane \in LaneKeys /\ ReasoningLane \in LaneKeys /\ WordLane \in LaneKeys
           /\ ObjectLane # ReasoningLane /\ ObjectLane # WordLane /\ ReasoningLane # WordLane
           /\ opts.lane = "text" => TextLane = WordLane
           /\ opts.lane = "object" => TextLane = ObjectLane
           /\ \A c \in CallIds : /\ Lane("tool-input", c) \in LaneKeys
                                 /\ Lane("tool-input", c) \notin {ObjectLane, ReasoningLane, WordLane}
           /\ NoMeta = Meta(Nothing, <<>>, Nothing, <<>>)
BY DEF ObjectLane, ReasoningLane, WordLane, Lane, LaneKeys, TextLane, NoMeta, Meta

LEMMA ClassifyPlain ==
    ASSUME NEW type \in {"stream-start", "finish", "file"}, NEW call, NEW data, NEW value
    PROVE  Classify(Part(type, call, data, value)) = Meta(TextLane, <<>>, Nothing, <<>>)
BY DEF Classify, Part, NoMeta, Meta

\* In an object lane a text delta is relayed for its value alone.
LEMMA ClassifyText ==
    ASSUME NEW data, NEW value
    PROVE  /\ opts.lane = "object" /\ value = Nothing =>
                 Classify(Part("text-delta", Nothing, data, value)).lane = Nothing
           /\ opts.lane = "object" /\ value # Nothing =>
                 Classify(Part("text-delta", Nothing, data, value)) = Meta(TextLane, <<>>, value, <<>>)
           /\ opts.lane = "text" =>
                 Classify(Part("text-delta", Nothing, data, value)) = Meta(TextLane, data, value, <<>>)
<1> DEFINE part == Part("text-delta", Nothing, data, value)
<1>1. part.type = "text-delta" /\ part.value = value /\ part.data = data
    BY DEF Part
<1> HIDE DEF part
<1>2. opts.lane = "object" /\ value = Nothing => Classify(part).lane = Nothing
    BY <1>1 DEF Classify, NoMeta
<1>3. opts.lane = "object" /\ value # Nothing => Classify(part) = Meta(TextLane, <<>>, value, <<>>)
    BY <1>1 DEF Classify, NoMeta, Meta
<1>4. opts.lane = "text" => Classify(part) = Meta(TextLane, data, value, <<>>)
    BY <1>1 DEF Classify, NoMeta, Meta
<1> QED  BY <1>2, <1>3, <1>4 DEF part

LEMMA ClassifyReasoning ==
    ASSUME NEW data
    PROVE  Classify(ReasoningDelta(data)) = Meta(ReasoningLane, data, Nothing, <<>>)
BY DEF Classify, ReasoningDelta, Part, NoMeta, Meta, ReasoningLane

LEMMA ClassifyCall ==
    ASSUME NEW type \in {"tool-input-delta", "tool-input-end", "tool-call"},
           NEW call, NEW data, NEW value
    PROVE  Classify(Part(type, call, data, value)) =
              Meta(Lane("tool-input", call), IF type = "tool-call" THEN <<>> ELSE data, Nothing, <<>>)
<1>1. CASE type = "tool-call"
    BY <1>1 DEF Classify, Part, NoMeta, Meta
<1>2. CASE type \in {"tool-input-delta", "tool-input-end"}
    BY <1>2 DEF Classify, Part, NoMeta, Meta
<1> QED  BY <1>1, <1>2

LEMMA ClassifyElement ==
    ASSUME NEW value
    PROVE  Classify(ElementPart(value)) = Meta(ObjectLane, <<>>, Nothing, <<value>>)
BY DEF Classify, ElementPart, Part, NoMeta, Meta, ObjectLane

\* Lanes in order, of which one alone has changed.
Kept(new, ls, lane, text, object, elements) ==
    /\ new \in [LaneKeys -> LaneType]
    /\ \A k \in LaneKeys : new[k].begun \/ new[k] = NoLane
    /\ \A k \in LaneKeys : \A n \in DOMAIN new[k].elements : new[k].elements[n] = FinalElement(n)
    /\ \A k \in LaneKeys \ {lane} : new[k] = ls[k]
    /\ new[lane].begun /\ new[lane].text = ls[lane].text \o text
    /\ new[lane].object = IF object = Nothing THEN ls[lane].object ELSE object
    /\ new[lane].elements = ls[lane].elements \o elements

\* What a part that has a lane does there.
Accepting(ls, lane, text, object, elements) ==
    [ls EXCEPT ![lane] = [begun |-> TRUE, text |-> ls[lane].text \o text,
                          object |-> IF object = Nothing THEN ls[lane].object ELSE object,
                          elements |-> ls[lane].elements \o elements]]

LEMMA AcceptIs ==
    ASSUME NEW ls \in [LaneKeys -> LaneType], NEW part, NEW lane \in LaneKeys,
           NEW text, NEW object, NEW elements,
           Classify(part) = Meta(lane, text, object, elements)
    PROVE  AcceptPart(ls, part) = Accepting(ls, lane, text, object, elements)
<1>1. lane # Nothing
    BY LaneAssumption
<1> QED  BY <1>1 DEF AcceptPart, Meta, LaneText, Accepting

\* A part changes its own lane alone, and leaves the lanes in order.
LEMMA AcceptKeeps ==
    ASSUME NEW ls, NEW r, NEW t, NEW l, NEW p \in Nat, Fine(ls, r, t, l, p),
           NEW part, NEW lane \in LaneKeys, NEW text \in Seq(STRING),
           NEW object, object = Nothing \/ object \in Seq(Elements), NEW elements \in Seq(Elements),
           Classify(part) = Meta(lane, text, object, elements),
           elements = <<>> \/ (lane = ObjectLane /\ elements = <<FinalElement(p + 1)>>)
    PROVE  Kept(AcceptPart(ls, part), ls, lane, text, object, elements)
<1> DEFINE new == AcceptPart(ls, part)
           old == ls[lane]
           rec == [begun |-> TRUE, text |-> old.text \o text,
                   object |-> IF object = Nothing THEN old.object ELSE object,
                   elements |-> old.elements \o elements]
<1>1. ls \in [LaneKeys -> LaneType] /\ old \in LaneType
    BY DEF Fine
<1>2. new = [ls EXCEPT ![lane] = rec]
    <2>1. AcceptPart(ls, part) = Accepting(ls, lane, text, object, elements)
        BY <1>1, AcceptIs
    <2> QED  BY <2>1 DEF Accepting
<1>3. /\ old.text \in Seq(STRING) /\ old.object \in Seq(Elements) \cup {Nothing}
      /\ old.elements \in Seq(Elements)
    BY <1>1 DEF LaneType
<1>4. /\ old.text \o text \in Seq(STRING) /\ old.elements \o elements \in Seq(Elements)
      /\ (IF object = Nothing THEN old.object ELSE object) \in Seq(Elements) \cup {Nothing}
    BY <1>3, ConcatProperties
<1>5. rec \in LaneType
    <2> HIDE DEF old
    <2> QED  BY <1>4 DEF LaneType
<1>6. /\ rec.begun /\ rec.text = old.text \o text /\ rec.elements = old.elements \o elements
      /\ rec.object = IF object = Nothing THEN old.object ELSE object
    OBVIOUS
<1>7. \A n \in DOMAIN (old.elements \o elements) : (old.elements \o elements)[n] = FinalElement(n)
    <2>1. \A n \in DOMAIN old.elements : old.elements[n] = FinalElement(n)
        BY DEF Fine
    <2>2. CASE elements = <<>>
        BY <1>3, <2>1, <2>2, ConcatEmptySeq
    <2>3. CASE lane = ObjectLane /\ elements = <<FinalElement(p + 1)>>
        <3>1. old.elements = FirstElements(p)
            BY <2>3 DEF Fine, Shows
        <3>2. old.elements \o elements = FirstElements(p + 1)
            BY <2>3, <3>1, FirstElementsAppend DEF FinalElement
        <3> QED  BY <3>2 DEF FirstElements
    <2> QED  BY <2>2, <2>3
<1> HIDE DEF old, rec, new
<1>8. new \in [LaneKeys -> LaneType] /\ new[lane] = rec /\ \A k \in LaneKeys \ {lane} : new[k] = ls[k]
    BY <1>1, <1>2, <1>5
<1>9. \A k \in LaneKeys : new[k].begun \/ new[k] = NoLane
    BY <1>6, <1>8 DEF Fine
<1>10. \A k \in LaneKeys : \A n \in DOMAIN new[k].elements : new[k].elements[n] = FinalElement(n)
    <2> SUFFICES ASSUME NEW k \in LaneKeys, NEW n \in DOMAIN new[k].elements
                 PROVE  new[k].elements[n] = FinalElement(n)
        OBVIOUS
    <2>1. CASE k = lane
        BY <1>6, <1>7, <1>8, <2>1
    <2>2. CASE k # lane
        BY <1>8, <2>2 DEF Fine
    <2> QED  BY <2>1, <2>2
<1>11. Kept(new, ls, lane, text, object, elements)
    BY <1>6, <1>8, <1>9, <1>10 DEF Kept, old
<1> QED  BY <1>11 DEF new

\* What each kind of part adds to what is shown.
LEMMA ShowPlain ==
    ASSUME opts.lane \in {"text", "object"}, NEW ls, NEW r, NEW t, NEW l, NEW p \in Nat,
           Fine(ls, r, t, l, p), NEW type \in {"stream-start", "finish", "file"},
           NEW call, NEW data, NEW value
    PROVE  Fine(AcceptPart(ls, Part(type, call, data, value)), r, t, l, p)
<1> DEFINE part == Part(type, call, data, value)
           new == AcceptPart(ls, part)
<1>1. Classify(part) = Meta(TextLane, <<>>, Nothing, <<>>) /\ TextLane \in LaneKeys
    <2>1. Classify(part) = Meta(TextLane, <<>>, Nothing, <<>>)
        BY ClassifyPlain
    <2> QED  BY <2>1, MessageKeys
<1>2. <<>> \in Seq(STRING) /\ <<>> \in Seq(Elements)
    OBVIOUS
<1> HIDE DEF part
<1>b. Kept(new, ls, TextLane, <<>>, Nothing, <<>>)
    BY <1>1, <1>2, AcceptKeeps
<1>3. /\ new \in [LaneKeys -> LaneType]
      /\ \A k \in LaneKeys : new[k].begun \/ new[k] = NoLane
      /\ \A k \in LaneKeys : \A n \in DOMAIN new[k].elements : new[k].elements[n] = FinalElement(n)
      /\ \A k \in LaneKeys \ {TextLane} : new[k] = ls[k]
      /\ new[TextLane].text = ls[TextLane].text \o <<>>
      /\ new[TextLane].object = ls[TextLane].object
      /\ new[TextLane].elements = ls[TextLane].elements \o <<>>
    BY <1>b DEF Kept
<1>4. ls[TextLane].text \in Seq(STRING) /\ ls[TextLane].elements \in Seq(Elements)
    BY <1>1 DEF Fine, LaneType
<1>5. new[TextLane].text = ls[TextLane].text /\ new[TextLane].elements = ls[TextLane].elements
    BY <1>3, <1>4, ConcatEmptySeq
<1> HIDE DEF new
<1>6. Shows(new, r, t, l, p)
    BY <1>3, <1>5, MessageKeys DEF Fine, Shows
<1>7. Fine(new, r, t, l, p)
    BY <1>3, <1>6 DEF Fine
<1> QED  BY <1>7 DEF new, part

LEMMA ShowReasoning ==
    ASSUME opts.lane \in {"text", "object"}, NEW ls, NEW r, NEW t, NEW l, NEW p \in Nat,
           Fine(ls, r, t, l, p), NEW data \in Seq(STRING)
    PROVE  Fine(AcceptPart(ls, ReasoningDelta(data)), r \o data, t, l, p)
<1> DEFINE part == ReasoningDelta(data)
           new == AcceptPart(ls, part)
<1>1. Classify(part) = Meta(ReasoningLane, data, Nothing, <<>>) /\ ReasoningLane \in LaneKeys
    <2>1. Classify(part) = Meta(ReasoningLane, data, Nothing, <<>>)
        BY ClassifyReasoning
    <2> QED  BY <2>1, MessageKeys
<1>2. <<>> \in Seq(Elements)
    OBVIOUS
<1> HIDE DEF part
<1>b. Kept(new, ls, ReasoningLane, data, Nothing, <<>>)
    BY <1>1, <1>2, AcceptKeeps
<1>3. /\ new \in [LaneKeys -> LaneType]
      /\ \A k \in LaneKeys : new[k].begun \/ new[k] = NoLane
      /\ \A k \in LaneKeys : \A n \in DOMAIN new[k].elements : new[k].elements[n] = FinalElement(n)
      /\ \A k \in LaneKeys \ {ReasoningLane} : new[k] = ls[k]
      /\ new[ReasoningLane].text = ls[ReasoningLane].text \o data
    BY <1>b DEF Kept
<1> HIDE DEF new
<1>6. Shows(new, r \o data, t, l, p)
    BY <1>3, MessageKeys DEF Fine, Shows
<1>7. Fine(new, r \o data, t, l, p)
    BY <1>3, <1>6 DEF Fine
<1> QED  BY <1>7 DEF new, part

LEMMA ShowCall ==
    ASSUME opts.lane \in {"text", "object"}, NEW ls, NEW r, NEW t, NEW l, NEW p \in Nat,
           Fine(ls, r, t, l, p), NEW type \in {"tool-input-delta", "tool-input-end", "tool-call"},
           NEW call \in CallIds, NEW data \in Seq(STRING), NEW value
    PROVE  Fine(AcceptPart(ls, Part(type, call, data, value)), r, t, l, p)
<1> DEFINE part == Part(type, call, data, value)
           new == AcceptPart(ls, part)
           lane == Lane("tool-input", call)
           text == IF type = "tool-call" THEN <<>> ELSE data
<1>1. Classify(part) = Meta(lane, text, Nothing, <<>>) /\ lane \in LaneKeys
    <2>1. Classify(part) = Meta(lane, text, Nothing, <<>>)
        BY ClassifyCall
    <2> QED  BY <2>1, MessageKeys
<1>2. <<>> \in Seq(Elements) /\ text \in Seq(STRING)
    <2>1. <<>> \in Seq(STRING) /\ <<>> \in Seq(Elements) /\ (text = <<>> \/ text = data)
        OBVIOUS
    <2> HIDE DEF text
    <2> QED  BY <2>1
<1>a. lane \notin {ObjectLane, ReasoningLane, WordLane}
    BY MessageKeys
<1> HIDE DEF part, lane, text
<1>b. Kept(new, ls, lane, text, Nothing, <<>>)
    BY <1>1, <1>2, AcceptKeeps
<1>3. /\ new \in [LaneKeys -> LaneType]
      /\ \A k \in LaneKeys : new[k].begun \/ new[k] = NoLane
      /\ \A k \in LaneKeys : \A n \in DOMAIN new[k].elements : new[k].elements[n] = FinalElement(n)
      /\ \A k \in LaneKeys \ {lane} : new[k] = ls[k]
    BY <1>b DEF Kept
<1> HIDE DEF new
<1>6. Shows(new, r, t, l, p)
    BY <1>3, <1>a, MessageKeys DEF Fine, Shows
<1>7. Fine(new, r, t, l, p)
    BY <1>3, <1>6 DEF Fine
<1> QED  BY <1>7 DEF new, part

LEMMA ShowElement ==
    ASSUME opts.lane \in {"text", "object"}, NEW ls, NEW r, NEW t, NEW l, NEW p \in Nat,
           Fine(ls, r, t, l, p)
    PROVE  Fine(AcceptPart(ls, ElementPart(FinalElement(p + 1))), r, t, l, p + 1)
<1> DEFINE x == FinalElement(p + 1)
           part == ElementPart(x)
           new == AcceptPart(ls, part)
<1>1. Classify(part) = Meta(ObjectLane, <<>>, Nothing, <<x>>) /\ ObjectLane \in LaneKeys
    BY ClassifyElement, MessageKeys
<1>2. <<>> \in Seq(STRING) /\ <<x>> \in Seq(Elements)
    BY DEF FinalElement, Elements
<1> HIDE DEF part
<1>b. Kept(new, ls, ObjectLane, <<>>, Nothing, <<x>>)
    BY <1>1, <1>2, AcceptKeeps
<1>3. /\ new \in [LaneKeys -> LaneType]
      /\ \A k \in LaneKeys : new[k].begun \/ new[k] = NoLane
      /\ \A k \in LaneKeys : \A n \in DOMAIN new[k].elements : new[k].elements[n] = FinalElement(n)
      /\ \A k \in LaneKeys \ {ObjectLane} : new[k] = ls[k]
      /\ new[ObjectLane].object = ls[ObjectLane].object
      /\ new[ObjectLane].elements = ls[ObjectLane].elements \o <<x>>
    BY <1>b DEF Kept
<1>4. ls[ObjectLane].elements \o <<x>> = FirstElements(p + 1)
    BY FirstElementsAppend DEF Fine, Shows, FinalElement
<1> HIDE DEF new, x
<1>6. Shows(new, r, t, l, p + 1)
    BY <1>3, <1>4, MessageKeys DEF Fine, Shows
<1>7. Fine(new, r, t, l, p + 1)
    BY <1>3, <1>6 DEF Fine
<1> QED  BY <1>7 DEF new, part, x
LEMMA ShowText ==
    ASSUME opts.lane \in {"text", "object"}, NEW ls, NEW r, NEW t, NEW l, NEW p \in Nat,
           Fine(ls, r, t, l, p), NEW data \in Seq(STRING),
           NEW value, value = Nothing \/ value \in Seq(Elements)
    PROVE  Fine(AcceptPart(ls, Part("text-delta", Nothing, data, value)),
                r, t \o data, IF value = Nothing THEN l ELSE value, p)
<1> DEFINE part == Part("text-delta", Nothing, data, value)
           new == AcceptPart(ls, part)
           last == IF value = Nothing THEN l ELSE value
<1>a. <<>> \in Seq(STRING) /\ <<>> \in Seq(Elements)
    OBVIOUS
<1>b. ls[TextLane].elements \in Seq(Elements) /\ ls[TextLane].text \in Seq(STRING)
    BY MessageKeys DEF Fine, LaneType
<1>1. CASE opts.lane = "object" /\ value = Nothing
    <2>1. Classify(part).lane = Nothing
        BY <1>1, ClassifyText
    <2> HIDE DEF part
    <2>2. AcceptPart(ls, part) = ls
        BY <2>1 DEF AcceptPart
    <2> HIDE DEF new
    <2>3. Fine(ls, r, t \o data, l, p)
        BY <1>1 DEF Fine, Shows
    <2>4. last = l
        BY <1>1
    <2> HIDE DEF last
    <2> QED  BY <2>2, <2>3, <2>4 DEF part, last
<1>2. CASE opts.lane = "object" /\ value # Nothing
    <2>1. Classify(part) = Meta(TextLane, <<>>, value, <<>>) /\ TextLane \in LaneKeys
        <3>1. Classify(part) = Meta(TextLane, <<>>, value, <<>>)
            BY <1>2, ClassifyText
        <3> QED  BY <3>1, MessageKeys
    <2> HIDE DEF part
    <2>2. Kept(new, ls, TextLane, <<>>, value, <<>>)
        BY <1>a, <2>1, AcceptKeeps
    <2> HIDE DEF new
    <2>3. /\ new[TextLane].elements = ls[TextLane].elements \o <<>>
          /\ new[TextLane].object = value
          /\ \A k \in LaneKeys \ {TextLane} : new[k] = ls[k]
        BY <1>2, <2>2 DEF Kept
    <2>4. new[TextLane].elements = ls[TextLane].elements
        BY <1>b, <2>3, ConcatEmptySeq
    <2>5. TextLane = ObjectLane
        BY <1>2, MessageKeys
    <2>6. Shows(new, r, t \o data, value, p)
        BY <1>2, <2>3, <2>4, <2>5, MessageKeys DEF Fine, Shows
    <2>7. Fine(new, r, t \o data, value, p)
        BY <2>2, <2>6 DEF Fine, Kept
    <2>8. last = value
        BY <1>2
    <2> HIDE DEF last
    <2> QED  BY <2>7, <2>8 DEF new, part, last
<1>3. CASE opts.lane = "text"
    <2>1. Classify(part) = Meta(TextLane, data, value, <<>>) /\ TextLane \in LaneKeys
        <3>1. Classify(part) = Meta(TextLane, data, value, <<>>)
            BY <1>3, ClassifyText
        <3> QED  BY <3>1, MessageKeys
    <2> HIDE DEF part
    <2>2. Kept(new, ls, TextLane, data, value, <<>>)
        BY <1>a, <2>1, AcceptKeeps
    <2> HIDE DEF new, last
    <2>3. /\ new[TextLane].text = ls[TextLane].text \o data
          /\ \A k \in LaneKeys \ {TextLane} : new[k] = ls[k]
        BY <2>2 DEF Kept
    <2>5. TextLane = WordLane
        BY <1>3, MessageKeys
    <2>6. Shows(new, r, t \o data, last, p)
        BY <1>3, <2>3, <2>5, MessageKeys DEF Fine, Shows
    <2>7. Fine(new, r, t \o data, last, p)
        BY <2>2, <2>6 DEF Fine, Kept
    <2> QED  BY <2>7 DEF new, part, last
<1> QED  BY <1>1, <1>2, <1>3

\* The elements at the end of a batch are published one after another.
LEMMA ElementsBatch ==
    ASSUME opts.lane \in {"text", "object"}, NEW ls, NEW parts, NEW g, Chain(g, ls, parts),
           NEW a \in Nat, NEW n \in Nat, Len(parts) = a + n,
           NEW r, NEW t, NEW l, NEW p \in Nat, Fine(g[a], r, t, l, p),
           \A i \in 1..n : parts[a + i] = ElementPart(FinalElement(p + i))
    PROVE  Fine(g[Len(parts)], r, t, l, p + n)
<1> DEFINE T == {m \in 0..n : Fine(g[a + m], r, t, l, p + m)}
<1>1. 0 \in T
    <2>1. a + 0 = a /\ p + 0 = p
        OBVIOUS
    <2> QED  BY <2>1
<1>2. ASSUME NEW m \in 1..n, m - 1 \in T PROVE m \in T
    <2> DEFINE q == p + (m - 1)
               b == a + (m - 1)
               c == a + m
    <2>1. Fine(g[b], r, t, l, q) /\ q \in Nat
        BY <1>2
    <2>2. c \in 1..Len(parts) /\ c - 1 = b /\ q + 1 = p + m
        OBVIOUS
    <2>b. parts[c] = ElementPart(FinalElement(p + m))
        OBVIOUS
    <2> HIDE DEF q, b, c
    <2>3. g[c] = AcceptPart(g[b], parts[c])
        <3>1. g[c] = AcceptPart(g[c - 1], parts[c])
            BY <2>2 DEF Chain
        <3> QED  BY <2>2, <3>1
    <2>4. parts[c] = ElementPart(FinalElement(q + 1))
        BY <2>2, <2>b
    <2>5. Fine(AcceptPart(g[b], ElementPart(FinalElement(q + 1))), r, t, l, q + 1)
        BY <2>1, ShowElement
    <2>6. Fine(g[a + m], r, t, l, p + m)
        BY <2>2, <2>3, <2>4, <2>5 DEF c
    <2> QED  BY <2>6
<1> HIDE DEF T
<1>3. n \in T
    <2>1. \A m \in 1..n : m - 1 \in T => m \in T
        BY <1>2
    <2>2. \A m \in 0..n : m \in T
        BY <1>1, <2>1, IntervalInduction
    <2> QED  BY <2>2
<1> QED  BY <1>3 DEF T
-----------------------------------------------------------------------------
(* Batches, and what becomes of them.                                      *)

LEMMA AskFacts ==
    ASSUME ask \in Asks
    PROVE  /\ opts.api \in Apis /\ opts.json \in BOOLEAN /\ opts.lane \in {"text", "object"}
           /\ answer.reasoning \in Seq(STRING) /\ answer.text \in Seq(STRING)
           /\ answer.calls \in Seq(Calls) /\ answer.file \in BOOLEAN
           /\ Len(answer.calls) \in Nat /\ DOMAIN answer.calls = 1..Len(answer.calls)
           /\ \A i \in DOMAIN answer.calls :
                 /\ answer.calls[i].id \in CallIds /\ answer.calls[i].input \in Seq(STRING)
                 /\ \A j \in DOMAIN answer.calls :
                       answer.calls[i].id = answer.calls[j].id => i = j
           /\ \A i \in DOMAIN answer.text :
                 IsJSON(answer.text) /\ answer.text[i] = "end" => i = Len(answer.text)
<1>1. opts \in Options /\ answer \in Answer
    BY AsksAssumption DEF opts, answer
<1>2. /\ answer.calls \in Seq(Calls) /\ answer.reasoning \in Seq(STRING)
      /\ answer.text \in Seq(STRING) /\ answer.file \in BOOLEAN
    BY <1>1 DEF Answer
<1>3. \A i \in DOMAIN answer.calls : answer.calls[i] \in Calls
    BY <1>2
<1>4. \A i \in DOMAIN answer.calls :
         answer.calls[i].id \in CallIds /\ answer.calls[i].input \in Seq(STRING)
    BY <1>3 DEF Calls
<1>5. \A i, j \in DOMAIN answer.calls : answer.calls[i].id = answer.calls[j].id => i = j
    BY AsksAssumption DEF answer
<1>6. \A i \in DOMAIN answer.text :
         IsJSON(answer.text) /\ answer.text[i] = "end" => i = Len(answer.text)
    BY JSONAssumption DEF answer
<1>7. opts.api \in Apis /\ opts.json \in BOOLEAN /\ opts.lane \in {"text", "object"}
    BY <1>1 DEF Options
<1>8. Len(answer.calls) \in Nat /\ DOMAIN answer.calls = 1..Len(answer.calls)
    BY <1>2
<1> QED  BY <1>2, <1>4, <1>5, <1>6, <1>7, <1>8

LEMMA AcceptNone ==
    ASSUME NEW ls
    PROVE  AcceptAll(ls, <<>>) = ls
<1>1. Len(<<>>) = 0
    OBVIOUS
<1>2. PICK g : Chain(g, ls, <<>>) /\ AcceptAll(ls, <<>>) = g[Len(<<>>)]
    BY <1>1, AcceptAllChain
<1> QED  BY <1>1, <1>2 DEF Chain

LEMMA AcceptOne ==
    ASSUME NEW ls, NEW part
    PROVE  AcceptAll(ls, <<part>>) = AcceptPart(ls, part)
<1>1. Len(<<part>>) = 1 /\ <<part>>[1] = part
    OBVIOUS
<1>2. PICK g : Chain(g, ls, <<part>>) /\ AcceptAll(ls, <<part>>) = g[Len(<<part>>)]
    BY <1>1, AcceptAllChain
<1>3. g[0] = ls /\ g[1] = AcceptPart(g[0], part)
    <2>1. 1 \in 1..Len(<<part>>) /\ 1 - 1 = 0
        BY <1>1
    <2>2. g[0] = ls /\ g[1] = AcceptPart(g[1 - 1], <<part>>[1])
        BY <1>2, <2>1 DEF Chain
    <2> QED  BY <1>1, <2>1, <2>2
<1> QED  BY <1>1, <1>2, <1>3

\* What a relay that is on shows.
LEMMA ShownNow ==
    ASSUME ModelTypes, LanesOK, RelayEnabled, at # "failed"
    PROVE  Fine(lanes, acc.reasoning, acc.text, LastValue, tracker.published)
BY DEF ModelTypes, LanesOK, Fine, ElementsAreFinal, FinalElement

\* However a batch ends, the lanes are in order, and show it if they are still relayed.
LEMMA RelayStep ==
    ASSUME ModelTypes, LanesOK, ask' = ask, NEW parts, NEW next, Relays(parts, next),
           NEW r, NEW t, NEW l, NEW p,
           RelayEnabled => Fine(AcceptAll(lanes, parts), r, t, l, p)
    PROVE  /\ lanes' \in [LaneKeys -> LaneType]
           /\ \A k \in LaneKeys : lanes'[k].begun \/ lanes'[k] = NoLane
           /\ ElementsAreFinal'
           /\ RelayEnabled' /\ at' # "failed" => Shows(lanes', r, t, l, p)
           /\ at' \in {next, "failed"}
<1> DEFINE Good(ls) == /\ ls \in [LaneKeys -> LaneType]
                       /\ \A k \in LaneKeys : ls[k].begun \/ ls[k] = NoLane
                       /\ \A k \in LaneKeys : \A n \in DOMAIN ls[k].elements :
                             ls[k].elements[n] = FinalElement(n)
<1>1. Good(lanes)
    BY DEF ModelTypes, LanesOK, ElementsAreFinal, FinalElement
<1>2. Good(NoLanes)
    <2>1. NoLane \in LaneType /\ DOMAIN NoLane.elements = {}
        BY DEF NoLane, LaneType
    <2> QED  BY <2>1 DEF NoLanes
<1>3. ASSUME Good(lanes')
      PROVE  /\ lanes' \in [LaneKeys -> LaneType]
             /\ \A k \in LaneKeys : lanes'[k].begun \/ lanes'[k] = NoLane
             /\ ElementsAreFinal'
    BY <1>3 DEF ElementsAreFinal, FinalElement
<1>4. CASE /\ lanes' = IF RelayEnabled THEN AcceptAll(lanes, parts) ELSE lanes
           /\ at' = next /\ relay' = relay
    <2>1. RelayEnabled' = RelayEnabled
        BY <1>4 DEF RelayEnabled, opts
    <2>2. CASE RelayEnabled
        <3>1. Fine(lanes', r, t, l, p)
            BY <1>4, <2>2
        <3>2. Good(lanes') /\ Shows(lanes', r, t, l, p)
            BY <3>1 DEF Fine
        <3> HIDE DEF Good
        <3> QED  BY <1>3, <1>4, <3>2
    <2>3. CASE ~RelayEnabled
        <3>1. Good(lanes')
            BY <1>1, <1>4, <2>3
        <3> HIDE DEF Good
        <3> QED  BY <1>3, <1>4, <2>1, <2>3, <3>1
    <2> QED  BY <2>2, <2>3
<1>5. CASE at' = "failed" /\ lanes' = lanes
    <2>1. Good(lanes')
        BY <1>1, <1>5
    <2> HIDE DEF Good
    <2> QED  BY <1>3, <1>5, <2>1
<1>6. CASE at' = next /\ relay' = "off" /\ lanes' = NoLanes
    <2>1. ~RelayEnabled'
        BY <1>6 DEF RelayEnabled
    <2>2. Good(lanes')
        BY <1>2, <1>6
    <2> HIDE DEF Good
    <2> QED  BY <1>3, <1>6, <2>1, <2>2
<1> QED  BY <1>4, <1>5, <1>6 DEF Relays
-----------------------------------------------------------------------------
(* enrich.                                                                 *)

LEMMA EnrichedOther ==
    ASSUME NEW part, part.type # "text-delta"
    PROVE  /\ Enriched(part).part = part /\ Enriched(part).extras = <<>>
           /\ Enriched(part).tracker = tracker
BY DEF Enriched

\* What enriching a text delta gives when the text so far is old, and new with it.
TextEnriched(e, d, old, new) ==
    /\ e.part = Part("text-delta", Nothing, d, e.part.value)
    /\ e.part.value = Nothing \/ e.part.value \in Seq(Elements)
    /\ e.tracker = IF opts.json THEN TrackerOf(new) ELSE NoTracker
    /\ e.tracker.last = IF e.part.value = Nothing THEN tracker.last ELSE e.part.value
    /\ \E n \in Nat :
          /\ e.extras \in Seq({ElementPart(v) : v \in Elements}) /\ Len(e.extras) = n
          /\ e.tracker.published = tracker.published + n
          /\ \A i \in 1..n : e.extras[i] = ElementPart(FinalElement(tracker.published + i))

\* The tracker of a text that is not JSON has published nothing.
LEMMA TrackerFields ==
    ASSUME NEW text \in Seq(STRING)
    PROVE  /\ TrackerOf(text).text = text
           /\ IsJSON(text) => /\ TrackerOf(text).last = Value(text)
                              /\ TrackerOf(text).published = Len(FinalElements(text))
           /\ ~IsJSON(text) => TrackerOf(text).last = Nothing /\ TrackerOf(text).published = 0
           /\ TrackerOf(text).published \in Nat
           /\ TrackerOf(<<>>) = NoTracker
<1>1. IsJSON(text) => Len(FinalElements(text)) \in Nat
    BY FinalShape DEF IsJSON
<1>2. TrackerOf(<<>>) = NoTracker
    BY DEF TrackerOf, NoTracker, IsJSON
<1> QED  BY <1>1, <1>2 DEF TrackerOf

LEMMA EnrichedText ==
    ASSUME ask \in Asks, Streams, Tracked, NEW n \in 0..Len(answer.text),
           acc.text = SubSeq(answer.text, 1, n), NEW d \in Deltas(answer.text, n)
    PROVE  TextEnriched(Enriched(TextDelta(d)), d, acc.text, SubSeq(answer.text, 1, n + Len(d)))
<1> DEFINE whole == answer.text
           m == n + Len(d)
           old == SubSeq(whole, 1, n)
           new == SubSeq(whole, 1, m)
           part == TextDelta(d)
           e == Enriched(part)
           fresh == SubSeq(FinalElements(new), tracker.published + 1, Len(FinalElements(new)))
           value == IF tracker.last = Value(new) THEN Nothing ELSE Value(new)
<1>1. whole \in Seq(STRING) /\ \A i \in DOMAIN whole : IsJSON(whole) /\ whole[i] = "end" => i = Len(whole)
    BY AskFacts
<1>2. m \in 0..Len(whole) /\ n <= m /\ old \o d = new /\ old \in Seq(STRING) /\ new \in Seq(STRING)
      /\ d \in Seq(STRING) /\ Len(whole) \in Nat
    <2>1. d \in Seq(STRING) /\ Len(d) \in Nat /\ m \in 0..Len(whole) /\ old \o d = new
          /\ old \in Seq(STRING) /\ new \in Seq(STRING)
        BY <1>1, PrefixGrows
    <2> QED  BY <1>1, <2>1
<1>3. part = Part("text-delta", Nothing, d, Nothing) /\ part.type = "text-delta" /\ part.data = d
    BY DEF TextDelta, Part
<1>4. tracker = IF opts.json THEN TrackerOf(old) ELSE NoTracker
    BY DEF Tracked
<1>5. /\ IsJSON(old) <=> n # 0 /\ whole[1] = "head"
      /\ IsJSON(new) <=> m # 0 /\ whole[1] = "head"
      /\ old = <<>> <=> n = 0
      /\ new = <<>> <=> m = 0
    BY <1>1, <1>2, PrefixJSON
<1>6. opts.json => tracker.text \o d = new
    BY <1>2, <1>4, TrackerFields
<1>7. \A t \in Seq(STRING) : opts.json /\ tracker.text \o d = t =>
         /\ ~IsJSON(t) => e = [part |-> part, extras |-> <<>>, tracker |-> [tracker EXCEPT !.text = t]]
         /\ IsJSON(t) =>
               e = [part |-> [part EXCEPT !.value = IF tracker.last = Value(t) THEN Nothing ELSE Value(t)],
                    extras |-> [i \in DOMAIN SubSeq(FinalElements(t), tracker.published + 1, Len(FinalElements(t)))
                                  |-> ElementPart(SubSeq(FinalElements(t), tracker.published + 1,
                                                         Len(FinalElements(t)))[i])],
                    tracker |-> [text |-> t, last |-> Value(t),
                                 published |-> tracker.published
                                    + Len(SubSeq(FinalElements(t), tracker.published + 1, Len(FinalElements(t))))]]
    BY <1>3 DEF Enriched
<1>8. CASE ~opts.json
    <2>1. e = [part |-> part, extras |-> <<>>, tracker |-> tracker]
        BY <1>3, <1>8 DEF Enriched
    <2>2. e.part = part /\ e.extras = <<>> /\ e.tracker = tracker /\ part.value = Nothing
        BY <2>1 DEF TextDelta, Part
    <2>3. tracker = NoTracker /\ tracker.published = 0
        BY <1>4, <1>8 DEF NoTracker
    <2> HIDE DEF e, part
    <2>4. e.part = Part("text-delta", Nothing, d, e.part.value) /\ e.part.value = Nothing
        BY <1>3, <2>2
    <2>5. e.extras \in Seq({ElementPart(v) : v \in Elements}) /\ Len(e.extras) = 0
        BY <2>2
    <2>6. /\ e.tracker.published = tracker.published + 0
          /\ \A i \in 1..0 : e.extras[i] = ElementPart(FinalElement(tracker.published + i))
        BY <2>2, <2>3
    <2>7. e.tracker = NoTracker /\ e.tracker.last = tracker.last
        BY <2>2, <2>3
    <2>8. TextEnriched(e, d, acc.text, new)
        BY <1>8, <2>4, <2>5, <2>6, <2>7 DEF TextEnriched
    <2> QED  BY <2>8 DEF e, part
<1>9. CASE opts.json /\ ~IsJSON(new)
    <2>1. e = [part |-> part, extras |-> <<>>, tracker |-> [tracker EXCEPT !.text = new]]
        BY <1>2, <1>6, <1>7, <1>9
    <2>2. e.part = part /\ e.extras = <<>> /\ e.tracker = [tracker EXCEPT !.text = new] /\ part.value = Nothing
        BY <2>1 DEF TextDelta, Part
    <2>3. ~IsJSON(old)
        BY <1>2, <1>5, <1>9
    <2>4. tracker = [text |-> old, last |-> Nothing, published |-> 0]
        BY <1>4, <1>9, <2>3 DEF TrackerOf
    <2>5. TrackerOf(new) = [text |-> new, last |-> Nothing, published |-> 0]
        BY <1>9 DEF TrackerOf
    <2>6. e.tracker = TrackerOf(new) /\ e.tracker.published = 0 /\ tracker.published = 0
          /\ e.tracker.last = tracker.last
        <3> HIDE DEF e, old, new
        <3> QED  BY <2>2, <2>4, <2>5
    <2> HIDE DEF e, part, new
    <2>7. e.part = Part("text-delta", Nothing, d, e.part.value) /\ e.part.value = Nothing
        BY <1>3, <2>2
    <2>8. e.extras \in Seq({ElementPart(v) : v \in Elements}) /\ Len(e.extras) = 0
        BY <2>2
    <2>9. /\ e.tracker.published = tracker.published + 0
          /\ \A i \in 1..0 : e.extras[i] = ElementPart(FinalElement(tracker.published + i))
        BY <2>6
    <2>10. TextEnriched(e, d, acc.text, new)
        BY <1>9, <2>6, <2>7, <2>8, <2>9 DEF TextEnriched
    <2> QED  BY <2>10 DEF e, part, new
<1>10. CASE opts.json /\ IsJSON(new)
    <2> DEFINE q == Len(FinalElements(new))
               p == tracker.published
    <2>1. /\ FinalElements(new) \in Seq(Elements) /\ FinalElements(new) = FirstElements(q)
          /\ q \in Nat
        <3>1. new \in Seq(STRING) /\ new # <<>>
            <4>1. new \in Seq(STRING)
                BY <1>2
            <4> HIDE DEF new
            <4> QED  BY <1>10, <4>1 DEF IsJSON
        <3> HIDE DEF new
        <3>2. FinalElements(new) \in Seq(Elements)
              /\ FinalElements(new) = FirstElements(Len(FinalElements(new)))
            BY <3>1, FinalShape
        <3> QED  BY <3>2
    <2>2. p \in Nat /\ p <= q
        <3>1. CASE n = 0
            <4>1. ~IsJSON(old)
                BY <1>5, <3>1
            <4>2. p = 0
                BY <1>2, <1>4, <1>10, <4>1, TrackerFields
            <4> QED  BY <2>1, <4>2
        <3>2. CASE n # 0
            <4>1. whole[1] = "head" /\ IsJSON(whole) /\ n \in 1..Len(whole) /\ m \in n..Len(whole)
                <5>1. whole[1] = "head" /\ n \in 1..Len(whole) /\ m \in n..Len(whole)
                    BY <1>2, <1>5, <1>10, <3>2
                <5>2. whole # <<>>
                    BY <1>1, <5>1
                <5> QED  BY <5>1, <5>2 DEF IsJSON
            <4>2. p = Len(FinalElements(old)) /\ p \in Nat
                BY <1>2, <1>4, <1>5, <1>10, <3>2, <4>1, TrackerFields
            <4>3. \A i \in DOMAIN whole : whole[i] = "end" => i = Len(whole)
                BY <1>1, <4>1
            <4> HIDE DEF whole, m
            <4>4. Len(FinalElements(SubSeq(whole, 1, n))) <= Len(FinalElements(SubSeq(whole, 1, m)))
                BY <1>1, <4>1, <4>3, FinalGrows
            <4> QED  BY <4>2, <4>4
        <3> QED  BY <3>1, <3>2
    <2> HIDE DEF q, p
    <2>3. fresh = SubSeq(FirstElements(q), p + 1, q)
        BY <2>1 DEF q, p
    <2>4. /\ Len(fresh) = q - p /\ fresh \in Seq(Elements)
          /\ \A i \in 1..q - p : fresh[i] = FinalElement(p + i)
        <3> HIDE DEF fresh
        <3>1. /\ Len(SubSeq(FirstElements(q), p + 1, q)) = q - p
              /\ SubSeq(FirstElements(q), p + 1, q) \in Seq(Elements)
              /\ \A i \in 1..q - p : SubSeq(FirstElements(q), p + 1, q)[i] = FinalElement(p + i)
            BY <2>2, <2>1, FirstElementsGrow
        <3> QED  BY <2>3, <3>1
    <2>5. e = [part |-> [part EXCEPT !.value = value],
               extras |-> [i \in DOMAIN fresh |-> ElementPart(fresh[i])],
               tracker |-> [text |-> new, last |-> Value(new), published |-> p + Len(fresh)]]
        BY <1>2, <1>6, <1>7, <1>10 DEF p
    <2> DEFINE extras == [i \in DOMAIN fresh |-> ElementPart(fresh[i])]
    <2>6. /\ e.part = [part EXCEPT !.value = value] /\ e.extras = extras
          /\ e.tracker = [text |-> new, last |-> Value(new), published |-> p + Len(fresh)]
        <3> HIDE DEF fresh, value, new, part, extras, e
        <3> QED  BY <2>5 DEF extras
    <2>7. e.part = Part("text-delta", Nothing, d, value)
        <3> HIDE DEF e, value
        <3> QED  BY <2>6 DEF TextDelta, Part
    <2>8. value = Nothing \/ value \in Seq(Elements)
        BY <1>2, ValueType
    <2>9. e.tracker = TrackerOf(new)
        <3>1. p + Len(fresh) = Len(FinalElements(new))
            BY <2>1, <2>2, <2>4 DEF q
        <3> HIDE DEF e, fresh, new
        <3> QED  BY <1>10, <2>6, <3>1 DEF TrackerOf
    <2>10. e.tracker.last = IF value = Nothing THEN tracker.last ELSE value
        <3>1. Value(new) # Nothing
            BY <1>2, ValueType
        <3>2. e.tracker.last = Value(new)
            <4> HIDE DEF e, fresh, new
            <4> QED  BY <2>6
        <3> QED  BY <3>1, <3>2
    <2>11. e.part.value = value
        <3> HIDE DEF e, value
        <3> QED  BY <2>7 DEF Part
    <2>12. /\ extras \in Seq({ElementPart(v) : v \in Elements}) /\ Len(extras) = q - p
           /\ \A i \in 1..q - p : extras[i] = ElementPart(FinalElement(p + i))
        <3> DEFINE N == q - p
                   P == {ElementPart(v) : v \in Elements}
        <3>0. N \in Nat
            BY <2>1, <2>2
        <3>1. /\ fresh \in Seq(Elements) /\ Len(fresh) = N
              /\ \A i \in 1..N : fresh[i] = FinalElement(p + i)
            BY <2>4
        <3>2. \A v \in Elements : ElementPart(v) \in P
            OBVIOUS
        <3> HIDE DEF fresh, N, P
        <3>3. DOMAIN fresh = 1..N /\ \A i \in 1..N : fresh[i] \in Elements
            BY <3>0, <3>1
        <3>4. \A i \in 1..N : ElementPart(fresh[i]) \in P
            BY <3>2, <3>3
        <3>5. extras = [i \in 1..N |-> ElementPart(fresh[i])]
            BY <3>3
        <3> HIDE DEF extras
        <3>6. extras \in Seq(P) /\ Len(extras) = N
            BY <3>0, <3>4, <3>5
        <3>7. \A i \in 1..N : extras[i] = ElementPart(FinalElement(p + i))
            BY <3>1, <3>5
        <3> QED  BY <3>6, <3>7 DEF N, P
    <2>13. e.tracker.published = p + (q - p) /\ q - p \in Nat
        <3>1. q - p \in Nat /\ Len(fresh) = q - p
            BY <2>1, <2>2, <2>4
        <3> HIDE DEF e, fresh, new
        <3> QED  BY <2>6, <3>1
    <2> HIDE DEF e, value, new, extras
    <2>14. TextEnriched(e, d, acc.text, new)
        BY <1>10, <2>6, <2>7, <2>8, <2>9, <2>10, <2>11, <2>12, <2>13 DEF TextEnriched, p
    <2> QED  BY <2>14 DEF e, new
<1> QED  BY <1>8, <1>9, <1>10

\* A batch is its head and the elements after it.
LEMMA HeadAndExtras ==
    ASSUME NEW P, NEW Q, NEW head \in Seq(P), NEW extras \in Seq(Q)
    PROVE  /\ Len(head \o extras) = Len(head) + Len(extras)
           /\ \A i \in 1..Len(head) : (head \o extras)[i] = head[i]
           /\ \A i \in 1..Len(extras) : (head \o extras)[Len(head) + i] = extras[i]
<1> DEFINE S == P \cup Q
           a == Len(head)
           n == Len(extras)
<1>1. head \in Seq(S) /\ extras \in Seq(S) /\ a \in Nat /\ n \in Nat
    OBVIOUS
<1> HIDE DEF S
<1>2. /\ Len(head \o extras) = a + n
      /\ \A i \in 1..a + n : (head \o extras)[i] = IF i <= a THEN head[i] ELSE extras[i - a]
    BY <1>1, ConcatProperties
<1> HIDE DEF a, n
<1>3. \A i \in 1..a : (head \o extras)[i] = head[i]
    BY <1>1, <1>2
<1>4. ASSUME NEW i \in 1..n PROVE (head \o extras)[a + i] = extras[i]
    <2> DEFINE c == a + i
    <2>1. c \in 1..a + n /\ ~(c <= a) /\ c - a = i
        BY <1>1
    <2> HIDE DEF c
    <2>2. (head \o extras)[c] = extras[c - a]
        BY <1>2, <2>1
    <2>3. (head \o extras)[c] = extras[i]
        BY <2>1, <2>2
    <2> QED  BY <2>3 DEF c
<1> QED  BY <1>2, <1>3, <1>4 DEF a, n

\* A head that shows a text delta, and the elements that the delta completes.
LEMMA TextBatch ==
    ASSUME opts.lane \in {"text", "object"}, NEW e, NEW d, NEW old, NEW new,
           TextEnriched(e, d, old, new), NEW P, NEW head \in Seq(P), NEW r,
           tracker.published \in Nat,
           \A g : Chain(g, lanes, head \o e.extras) =>
              Fine(g[Len(head)], r, new, e.tracker.last, tracker.published)
    PROVE  Fine(AcceptAll(lanes, head \o e.extras), r, new, e.tracker.last, e.tracker.published)
<1> DEFINE parts == head \o e.extras
           Q == {ElementPart(v) : v \in Elements}
           p == tracker.published
           last == e.tracker.last
           pub == e.tracker.published
           extras == e.extras
<1>1. PICK n \in Nat : /\ extras \in Seq(Q) /\ Len(extras) = n
                       /\ pub = p + n
                       /\ \A i \in 1..n : extras[i] = ElementPart(FinalElement(p + i))
    BY DEF TextEnriched
<1>2. Len(head) \in Nat
    OBVIOUS
<1> HIDE DEF Q, p, last, pub
<1>3. Len(parts) = Len(head) + n /\ \A i \in 1..n : parts[Len(head) + i] = extras[i]
    <2> HIDE DEF extras
    <2>1. /\ Len(head \o extras) = Len(head) + Len(extras)
          /\ \A i \in 1..Len(extras) : (head \o extras)[Len(head) + i] = extras[i]
        BY <1>1, HeadAndExtras
    <2> QED  BY <1>1, <2>1 DEF extras
<1>4. Len(parts) \in Nat
    BY <1>2, <1>3
<1>5. \A i \in 1..n : parts[Len(head) + i] = ElementPart(FinalElement(p + i))
    BY <1>1, <1>3
<1>6. \A g : Chain(g, lanes, parts) => Fine(g[Len(head)], r, new, last, p)
    BY DEF last, p
<1> HIDE DEF parts
<1>7. PICK g : Chain(g, lanes, parts) /\ AcceptAll(lanes, parts) = g[Len(parts)]
    BY <1>4, AcceptAllChain
<1>8. Fine(g[Len(head)], r, new, last, p) /\ p \in Nat
    BY <1>6, <1>7 DEF p
<1>9. Fine(g[Len(parts)], r, new, last, p + n)
    BY <1>2, <1>3, <1>5, <1>7, <1>8, ElementsBatch
<1>10. Fine(AcceptAll(lanes, parts), r, new, last, pub)
    BY <1>1, <1>7, <1>9
<1> QED  BY <1>10 DEF parts, last, pub

\* What ReceivePart relays of a text delta.
LEMMA ReceivedBatch ==
    ASSUME opts.lane \in {"text", "object"}, NEW e, NEW d \in Seq(STRING), NEW old, NEW new,
           old \o d = new, TextEnriched(e, d, old, new), NEW r, tracker.published \in Nat,
           Fine(lanes, r, old, tracker.last, tracker.published)
    PROVE  Fine(AcceptAll(lanes, <<e.part>> \o e.extras), r, new,
                e.tracker.last, e.tracker.published)
<1> DEFINE head == <<e.part>>
           v == e.part.value
           l == e.tracker.last
           p == tracker.published
           Q == {ElementPart(w) : w \in Elements}
<1>1. /\ e.part = Part("text-delta", Nothing, d, v)
      /\ v = Nothing \/ v \in Seq(Elements)
      /\ l = IF v = Nothing THEN tracker.last ELSE v
      /\ e.extras \in Seq(Q)
    BY DEF TextEnriched
<1>2. head \in Seq({e.part}) /\ Len(head) = 1 /\ head[1] = e.part
    OBVIOUS
<1> HIDE DEF head, v, l, Q, p
<1>3. (head \o e.extras)[1] = e.part /\ Len(head \o e.extras) = 1 + Len(e.extras)
    <2> DEFINE P == {e.part}
               extras == e.extras
    <2>1. head \in Seq(P) /\ extras \in Seq(Q)
        BY <1>1, <1>2
    <2> HIDE DEF P, extras
    <2>2. /\ Len(head \o extras) = Len(head) + Len(extras)
          /\ \A i \in 1..Len(head) : (head \o extras)[i] = head[i]
        BY <2>1, HeadAndExtras
    <2>3. (head \o extras)[1] = head[1] /\ Len(head \o extras) = 1 + Len(extras)
        BY <1>2, <2>2
    <2> QED  BY <1>2, <2>3 DEF extras
<1>4. ASSUME NEW g, Chain(g, lanes, head \o e.extras)
      PROVE  Fine(g[Len(head)], r, new, l, p)
    <2>1. 1 \in 1..Len(head \o e.extras) /\ 1 - 1 = 0
        BY <1>1, <1>3
    <2>2. g[0] = lanes /\ g[1] = AcceptPart(g[1 - 1], (head \o e.extras)[1])
        BY <1>4, <2>1 DEF Chain
    <2>3. g[1] = AcceptPart(lanes, Part("text-delta", Nothing, d, v))
        BY <1>1, <1>3, <2>1, <2>2
    <2>4. Fine(AcceptPart(lanes, Part("text-delta", Nothing, d, v)), r, old \o d,
               IF v = Nothing THEN tracker.last ELSE v, p)
        BY <1>1, ShowText DEF p
    <2> QED  BY <1>1, <1>2, <2>3, <2>4
<1>5. Fine(AcceptAll(lanes, head \o e.extras), r, new, e.tracker.last, e.tracker.published)
    BY <1>2, <1>4, TextBatch DEF l, p
<1> QED  BY <1>5 DEF head

\* What ReceiveObjectPart relays of one: the text, and the value as a part of its own.
LEMMA ObjectBatch ==
    ASSUME opts.lane \in {"text", "object"}, NEW e, NEW d \in Seq(STRING), NEW old, NEW new,
           old \o d = new, new \in Seq(STRING), TextEnriched(e, d, old, new), NEW r,
           tracker.published \in Nat, Fine(lanes, r, old, tracker.last, tracker.published)
    PROVE  Fine(AcceptAll(lanes, ObjectParts(e)), r, new, e.tracker.last, e.tracker.published)
<1> DEFINE v == e.part.value
           first == TextDelta(d)
           second == Part("text-delta", Nothing, <<>>, v)
           head == <<first>> \o (IF v = Nothing THEN <<>> ELSE <<second>>)
           l == e.tracker.last
           p == tracker.published
           Q == {ElementPart(w) : w \in Elements}
           parts == head \o e.extras
<1>1. /\ e.part = Part("text-delta", Nothing, d, v)
      /\ v = Nothing \/ v \in Seq(Elements)
      /\ l = IF v = Nothing THEN tracker.last ELSE v
      /\ e.extras \in Seq(Q)
    BY DEF TextEnriched
<1>2. parts = ObjectParts(e)
    <2>1. e.part.data = d
        <3> HIDE DEF v
        <3> QED  BY <1>1 DEF Part
    <2> QED  BY <2>1 DEF ObjectParts
<1>3. /\ head \in Seq({first, second}) /\ head[1] = first
      /\ Len(head) = IF v = Nothing THEN 1 ELSE 2
      /\ v # Nothing => head[2] = second
    <2> HIDE DEF v, first, second
    <2>1. CASE v = Nothing
        BY <2>1
    <2>2. CASE v # Nothing
        BY <2>2
    <2> QED  BY <2>1, <2>2
<1> HIDE DEF first, second, v, l, Q, p, head
<1>4. /\ parts[1] = first /\ (v # Nothing => parts[2] = second)
      /\ Len(parts) = Len(head) + Len(e.extras) /\ Len(e.extras) \in Nat
    <2> DEFINE P == {first, second}
               extras == e.extras
    <2>3. head \in Seq(P) /\ extras \in Seq(Q) /\ parts = head \o extras
        BY <1>1, <1>3
    <2> HIDE DEF P, extras, parts
    <2>4. /\ Len(head \o extras) = Len(head) + Len(extras)
          /\ \A i \in 1..Len(head) : (head \o extras)[i] = head[i]
        BY <2>3, HeadAndExtras
    <2>1. \A i \in 1..Len(head) : parts[i] = head[i]
        BY <2>3, <2>4
    <2>2. Len(parts) = Len(head) + Len(e.extras) /\ Len(e.extras) \in Nat
        BY <2>3, <2>4 DEF extras
    <2>5. 1 \in 1..Len(head) /\ (v # Nothing => 2 \in 1..Len(head))
        <3> DEFINE h == Len(head)
        <3>1. h = IF v = Nothing THEN 1 ELSE 2
            BY <1>3
        <3> HIDE DEF h
        <3>2. 1 \in 1..h /\ (v # Nothing => 2 \in 1..h)
            BY <3>1
        <3> QED  BY <3>2 DEF h
    <2>6. parts[1] = first
        BY <1>3, <2>1, <2>5
    <2>7. v # Nothing => parts[2] = second
        BY <1>3, <2>1, <2>5
    <2> QED  BY <2>2, <2>6, <2>7
<1> HIDE DEF parts
<1>5. ASSUME NEW g, Chain(g, lanes, parts)
      PROVE  Fine(g[Len(head)], r, new, l, p)
    <2>1. g[0] = lanes /\ g[1] = AcceptPart(lanes, first)
        <3>1. 1 \in 1..Len(parts) /\ 1 - 1 = 0
            <4> DEFINE h == Len(head)
                       x == Len(e.extras)
                       k == Len(parts)
            <4>1. (h = 1 \/ h = 2) /\ k = h + x /\ x \in Nat
                BY <1>3, <1>4
            <4> HIDE DEF h, x, k
            <4>2. 1 \in 1..k /\ 1 - 1 = 0
                BY <4>1
            <4> QED  BY <4>2 DEF k
        <3>2. g[0] = lanes /\ g[1] = AcceptPart(g[1 - 1], parts[1])
            BY <1>5, <3>1 DEF Chain
        <3> QED  BY <1>4, <3>1, <3>2
    <2>2. Fine(AcceptPart(lanes, Part("text-delta", Nothing, d, Nothing)), r, old \o d,
               IF Nothing = Nothing THEN tracker.last ELSE Nothing, p)
        BY ShowText DEF p
    <2>3. Fine(g[1], r, new, tracker.last, p)
        BY <2>1, <2>2 DEF first, TextDelta
    <2>4. CASE v = Nothing
        BY <1>1, <1>3, <2>3, <2>4
    <2>5. CASE v # Nothing
        <3>1. 2 \in 1..Len(parts) /\ 2 - 1 = 1
            BY <1>3, <1>4, <2>5
        <3>2. g[2] = AcceptPart(g[2 - 1], parts[2])
            BY <1>5, <3>1 DEF Chain
        <3>3. g[2] = AcceptPart(g[1], Part("text-delta", Nothing, <<>>, v))
            BY <1>4, <2>5, <3>1, <3>2 DEF second
        <3>4. <<>> \in Seq(STRING) /\ new \o <<>> = new
            BY ConcatEmptySeq
        <3>5. Fine(AcceptPart(g[1], Part("text-delta", Nothing, <<>>, v)), r, new \o <<>>,
                   IF v = Nothing THEN tracker.last ELSE v, p)
            BY <1>1, <2>3, <3>4, ShowText DEF p
        <3> QED  BY <1>1, <1>3, <2>5, <3>3, <3>4, <3>5
    <2> QED  BY <2>4, <2>5
<1>6. Fine(AcceptAll(lanes, parts), r, new, e.tracker.last, e.tracker.published)
    <2>1. \A g : Chain(g, lanes, head \o e.extras) =>
             Fine(g[Len(head)], r, new, e.tracker.last, tracker.published)
        BY <1>5 DEF parts, l, p
    <2> QED  BY <1>3, <2>1, TextBatch DEF parts
<1> QED  BY <1>2, <1>6
-----------------------------------------------------------------------------
(* What a part adds to the fold.                                           *)

Folded(a, reasoning, text, inputs, content, file) ==
    /\ a \in AccType
    /\ a.reasoning = reasoning /\ a.text = text /\ a.inputs = inputs
    /\ a.content = content /\ a.file = file

LEMMA SeenKept ==
    ASSUME NEW a, NEW reasoning, NEW text, NEW inputs, NEW content, NEW file,
           Folded(a, reasoning, text, inputs, content, file), NEW b
    PROVE  Folded([a EXCEPT !.seen = @ \/ b], reasoning, text, inputs, content, file)
<1> DEFINE s == a.seen \/ b
           new == [a EXCEPT !.seen = s]
<1>1. s \in BOOLEAN
    OBVIOUS
<1> HIDE DEF s
<1>2. new \in AccType
    BY <1>1 DEF Folded, AccType
<1>3. /\ new.reasoning = a.reasoning /\ new.text = a.text /\ new.inputs = a.inputs
      /\ new.content = a.content /\ new.file = a.file
    BY DEF Folded, AccType
<1> HIDE DEF new
<1>4. Folded(new, reasoning, text, inputs, content, file)
    BY <1>2, <1>3 DEF Folded
<1> QED  BY <1>4 DEF new, s

LEMMA FoldDelta ==
    ASSUME NEW a \in AccType, NEW d \in Seq(STRING), NEW v
    PROVE  /\ Folded(Fold(a, ReasoningDelta(d)), a.reasoning \o d, a.text, a.inputs, a.content, a.file)
           /\ Folded(Fold(a, Part("text-delta", Nothing, d, v)),
                     a.reasoning, a.text \o d, a.inputs, a.content, a.file)
<1>1. a.reasoning \in Seq(STRING) /\ a.text \in Seq(STRING)
    BY DEF AccType
<1>2. a.reasoning \o d \in Seq(STRING) /\ a.text \o d \in Seq(STRING)
    BY <1>1, ConcatProperties
<1> DEFINE r == a.reasoning \o d
           t == a.text \o d
<1>3. r \in Seq(STRING) /\ t \in Seq(STRING)
    BY <1>2
<1>4. Fold(a, ReasoningDelta(d)) = [a EXCEPT !.reasoning = r]
    BY DEF Fold, ReasoningDelta, Part
<1>5. Fold(a, Part("text-delta", Nothing, d, v)) = [a EXCEPT !.text = t]
    BY DEF Fold, Part
<1> HIDE DEF r, t
<1>6. Folded([a EXCEPT !.reasoning = r], r, a.text, a.inputs, a.content, a.file)
    BY <1>3 DEF Folded, AccType
<1>7. Folded([a EXCEPT !.text = t], a.reasoning, t, a.inputs, a.content, a.file)
    BY <1>3 DEF Folded, AccType
<1> QED  BY <1>4, <1>5, <1>6, <1>7 DEF r, t

LEMMA FoldInput ==
    ASSUME NEW a \in AccType, NEW c \in CallIds, NEW d \in Seq(STRING),
           NEW type \in {"tool-input-delta", "tool-input-end"}, NEW v
    PROVE  Folded(Fold(a, Part(type, c, d, v)), a.reasoning, a.text,
                  [a.inputs EXCEPT ![c] = IF type = "tool-input-delta" THEN a.inputs[c] \o d
                                          ELSE EndedInput(a.inputs[c], d)],
                  a.content, a.file)
<1> DEFINE x == IF type = "tool-input-delta" THEN a.inputs[c] \o d ELSE EndedInput(a.inputs[c], d)
           new == [a.inputs EXCEPT ![c] = x]
<1>1. a.inputs \in [CallIds -> Seq(STRING)] /\ a.inputs[c] \in Seq(STRING)
    BY DEF AccType
<1>2. a.inputs[c] \o d \in Seq(STRING) /\ EndedInput(a.inputs[c], d) \in Seq(STRING)
    BY <1>1, ConcatProperties DEF EndedInput
<1>3. x \in Seq(STRING)
    BY <1>2
<1>4. Fold(a, Part(type, c, d, v)) = [a EXCEPT !.inputs = new]
    <2>1. CASE type = "tool-input-delta"
        BY <2>1 DEF Fold, Part
    <2>2. CASE type = "tool-input-end"
        BY <2>2 DEF Fold, Part
    <2> QED  BY <2>1, <2>2
<1> HIDE DEF x
<1>5. new \in [CallIds -> Seq(STRING)]
    BY <1>1, <1>3
<1> HIDE DEF new
<1>6. Folded([a EXCEPT !.inputs = new], a.reasoning, a.text, new, a.content, a.file)
    BY <1>5 DEF Folded, AccType
<1> QED  BY <1>4, <1>6 DEF new, x

LEMMA FoldCall ==
    ASSUME NEW a \in AccType, NEW c \in CallIds, NEW d \in Seq(STRING), NEW v
    PROVE  Folded(Fold(a, Part("tool-call", c, d, v)), a.reasoning, a.text, a.inputs,
                  Append(a.content, [id |-> c, hosted |-> FALSE, input |-> CallInput(a.inputs[c], d)]),
                  a.file)
<1> DEFINE x == [id |-> c, hosted |-> FALSE, input |-> CallInput(a.inputs[c], d)]
           new == Append(a.content, x)
<1>1. CallInput(a.inputs[c], d) \in Seq(STRING)
    BY DEF AccType, CallInput
<1>2. x \in Calls
    BY <1>1 DEF Calls
<1>3. Fold(a, Part("tool-call", c, d, v)) = [a EXCEPT !.content = new]
    BY DEF Fold, Part
<1> HIDE DEF x
<1>4. new \in Seq(Calls)
    BY <1>2, AppendProperties DEF AccType
<1> HIDE DEF new
<1>5. Folded([a EXCEPT !.content = new], a.reasoning, a.text, a.inputs, new, a.file)
    BY <1>4 DEF Folded, AccType
<1> QED  BY <1>3, <1>5 DEF new, x

LEMMA FoldPlain ==
    ASSUME NEW a \in AccType, NEW type \in {"stream-start", "finish", "file"}
    PROVE  Folded(Fold(a, Plain(type)), a.reasoning, a.text, a.inputs, a.content,
                  IF type = "file" THEN TRUE ELSE a.file)
<1>1. CASE type = "file"
    <2>1. Fold(a, Plain(type)) = [a EXCEPT !.file = TRUE]
        BY <1>1 DEF Fold, Plain, Part
    <2>2. [a EXCEPT !.file = TRUE] \in AccType
        BY DEF AccType
    <2> QED  BY <1>1, <2>1, <2>2 DEF Folded, AccType
<1>2. CASE type # "file"
    <2>1. Fold(a, Plain(type)) = a
        BY <1>2 DEF Fold, Plain, Part
    <2> QED  BY <1>2, <2>1 DEF Folded
<1> QED  BY <1>1, <1>2
-----------------------------------------------------------------------------
(* What a part of a stream leaves told.                                    *)

\* The state after a part: what is said, and the fold that tells it.
StreamGoesOn == said' \in SaidType /\ SaidOK' /\ StreamTold'

\* What is said of an answer, field by field.
SaidNow(reasoning, text, inputs, ends, calls, file, finish) ==
    /\ said' \in SaidType
    /\ said'.reasoning = reasoning /\ said'.text = text /\ said'.inputs = inputs
    /\ said'.ends = ends /\ said'.calls = calls /\ said'.file = file /\ said'.finish = finish

LEMMA SaidFits ==
    ASSUME ask' = ask, SaidOK, said'.finish = 0, said'.file = said.file,
           said'.reasoning <= Len(answer.reasoning), said'.text <= Len(answer.text),
           said'.calls <= Len(answer.calls),
           \A i \in DOMAIN answer.calls :
               said'.inputs[answer.calls[i].id] <= Len(answer.calls[i].input)
    PROVE  SaidOK'
<1>1. answer' = answer
    BY DEF answer
<1>2. (said.file => answer.file)'
    BY <1>1 DEF SaidOK
<1>3. ~(said'.finish > 0)
    OBVIOUS
<1> QED  BY <1>1, <1>2, <1>3 DEF SaidOK

LEMMA SaidReasoning ==
    ASSUME ask \in Asks, ask' = ask, said \in SaidType, acc \in AccType, SaidOK, StreamTold,
           said.finish = 0, NEW d \in Deltas(answer.reasoning, said.reasoning),
           said' = [said EXCEPT !.reasoning = @ + Len(d)],
           Folded(acc', acc.reasoning \o d, acc.text, acc.inputs, acc.content, acc.file)
    PROVE  StreamGoesOn
<1> DEFINE n == said.reasoning
           m == n + Len(d)
<1>1. answer.reasoning \in Seq(STRING)
    BY AskFacts
<1>2. n \in 0..Len(answer.reasoning)
    BY DEF SaidType, SaidOK
<1>3. /\ m \in 0..Len(answer.reasoning)
      /\ SubSeq(answer.reasoning, 1, n) \o d = SubSeq(answer.reasoning, 1, m)
    BY <1>1, <1>2, PrefixGrows
<1>4. said' = [said EXCEPT !.reasoning = m] /\ m \in Nat
    BY <1>3
<1> HIDE DEF m
<1>m. m <= Len(answer.reasoning)
    <2>1. Len(answer.reasoning) \in Nat
        BY <1>1, LenProperties
    <2>2. m \in 0..Len(answer.reasoning)
        BY <1>3
    <2> QED  BY <2>1, <2>2
<1>5. SaidNow(m, said.text, said.inputs, said.ends, said.calls, said.file, said.finish)
    BY <1>4 DEF SaidNow, SaidType
<1>6. SaidOK'
    <2>1. /\ said'.finish = 0 /\ said'.file = said.file
          /\ said'.reasoning <= Len(answer.reasoning) /\ said'.text <= Len(answer.text)
          /\ said'.calls <= Len(answer.calls)
        BY <1>5, <1>m DEF SaidNow, SaidOK
    <2>2. \A j \in DOMAIN answer.calls :
             said'.inputs[answer.calls[j].id] <= Len(answer.calls[j].input)
        BY <1>5, <1>m DEF SaidNow, SaidOK
    <2> QED  BY <2>1, <2>2, SaidFits
<1>7. acc'.reasoning = SubSeq(answer.reasoning, 1, m)
    BY <1>3 DEF Folded, StreamTold
<1>a. answer' = answer
    BY DEF answer
<1>b. /\ said'.reasoning = m /\ said'.text = said.text /\ said'.inputs = said.inputs
      /\ said'.ends = said.ends /\ said'.calls = said.calls /\ said'.file = said.file
    BY <1>5 DEF SaidNow
<1>c. /\ acc'.text = acc.text /\ acc'.inputs = acc.inputs
      /\ acc'.content = acc.content /\ acc'.file = acc.file
    BY DEF Folded
<1>8. StreamTold'
    <2>1. /\ (acc.text = SubSeq(answer.text, 1, said.text))'
          /\ (acc.reasoning = SubSeq(answer.reasoning, 1, said.reasoning))'
          /\ (acc.file = said.file)'
        BY <1>7, <1>a, <1>b, <1>c DEF StreamTold
    <2>2. (\A j \in DOMAIN answer.calls : InputTold(answer.calls[j]))'
        BY <1>a, <1>b, <1>c DEF StreamTold, InputTold
    <2>3. (Len(acc.content) = said.calls)'
        BY <1>b, <1>c DEF StreamTold
    <2>4. (\A j \in 1..said.calls : acc.content[j] = AsTold(answer.calls[j]))'
        BY <1>a, <1>b, <1>c DEF StreamTold, AsTold
    <2> QED  BY <2>1, <2>2, <2>3, <2>4 DEF StreamTold
<1> QED  BY <1>5, <1>6, <1>8 DEF StreamGoesOn, SaidNow

LEMMA SaidText ==
    ASSUME ask \in Asks, ask' = ask, said \in SaidType, acc \in AccType, SaidOK, StreamTold,
           said.finish = 0, NEW d \in Deltas(answer.text, said.text),
           said' = [said EXCEPT !.text = @ + Len(d)],
           Folded(acc', acc.reasoning, acc.text \o d, acc.inputs, acc.content, acc.file)
    PROVE  StreamGoesOn
<1> DEFINE n == said.text
           m == n + Len(d)
<1>1. answer.text \in Seq(STRING)
    BY AskFacts
<1>2. n \in 0..Len(answer.text)
    BY DEF SaidType, SaidOK
<1>3. /\ m \in 0..Len(answer.text)
      /\ SubSeq(answer.text, 1, n) \o d = SubSeq(answer.text, 1, m)
    BY <1>1, <1>2, PrefixGrows
<1>4. said' = [said EXCEPT !.text = m] /\ m \in Nat
    BY <1>3
<1> HIDE DEF m
<1>m. m <= Len(answer.text)
    <2>1. Len(answer.text) \in Nat
        BY <1>1, LenProperties
    <2>2. m \in 0..Len(answer.text)
        BY <1>3
    <2> QED  BY <2>1, <2>2
<1>5. SaidNow(said.reasoning, m, said.inputs, said.ends, said.calls, said.file, said.finish)
    BY <1>4 DEF SaidNow, SaidType
<1>6. SaidOK'
    <2>1. /\ said'.finish = 0 /\ said'.file = said.file
          /\ said'.reasoning <= Len(answer.reasoning) /\ said'.text <= Len(answer.text)
          /\ said'.calls <= Len(answer.calls)
        BY <1>5, <1>m DEF SaidNow, SaidOK
    <2>2. \A j \in DOMAIN answer.calls :
             said'.inputs[answer.calls[j].id] <= Len(answer.calls[j].input)
        BY <1>5, <1>m DEF SaidNow, SaidOK
    <2> QED  BY <2>1, <2>2, SaidFits
<1>7. acc'.text = SubSeq(answer.text, 1, m)
    BY <1>3 DEF Folded, StreamTold
<1>a. answer' = answer
    BY DEF answer
<1>b. /\ said'.text = m /\ said'.reasoning = said.reasoning /\ said'.inputs = said.inputs
      /\ said'.ends = said.ends /\ said'.calls = said.calls /\ said'.file = said.file
    BY <1>5 DEF SaidNow
<1>c. /\ acc'.reasoning = acc.reasoning /\ acc'.inputs = acc.inputs
      /\ acc'.content = acc.content /\ acc'.file = acc.file
    BY DEF Folded
<1>8. StreamTold'
    <2>1. /\ (acc.text = SubSeq(answer.text, 1, said.text))'
          /\ (acc.reasoning = SubSeq(answer.reasoning, 1, said.reasoning))'
          /\ (acc.file = said.file)'
        BY <1>7, <1>a, <1>b, <1>c DEF StreamTold
    <2>2. (\A j \in DOMAIN answer.calls : InputTold(answer.calls[j]))'
        BY <1>a, <1>b, <1>c DEF StreamTold, InputTold
    <2>3. (Len(acc.content) = said.calls)'
        BY <1>b, <1>c DEF StreamTold
    <2>4. (\A j \in 1..said.calls : acc.content[j] = AsTold(answer.calls[j]))'
        BY <1>a, <1>b, <1>c DEF StreamTold, AsTold
    <2> QED  BY <2>1, <2>2, <2>3, <2>4 DEF StreamTold
<1> QED  BY <1>5, <1>6, <1>8 DEF StreamGoesOn, SaidNow

\* The rest of an input: a delta, or an end that may carry the whole input.
LEMMA SaidInput ==
    ASSUME ask \in Asks, ask' = ask, said \in SaidType, acc \in AccType, SaidOK, StreamTold,
           said.finish = 0, NEW i \in DOMAIN answer.calls,
           said.ends[answer.calls[i].id] = "open",
           NEW n \in 0..Len(answer.calls[i].input), NEW end \in {"open", "blank", "full"},
           said' = [said EXCEPT !.inputs = [@ EXCEPT ![answer.calls[i].id] = n],
                                !.ends = [@ EXCEPT ![answer.calls[i].id] = end]],
           NEW input0,
           input0 = IF end = "full" THEN answer.calls[i].input
                    ELSE SubSeq(answer.calls[i].input, 1, n),
           Folded(acc', acc.reasoning, acc.text,
                  [acc.inputs EXCEPT ![answer.calls[i].id] = input0], acc.content, acc.file)
    PROVE  StreamGoesOn
<1> DEFINE c == answer.calls[i].id
           inputs == [said.inputs EXCEPT ![c] = n]
           ends == [said.ends EXCEPT ![c] = end]
           told == [acc.inputs EXCEPT ![c] = input0]
<1>1. /\ c \in CallIds /\ n \in Nat
      /\ \A j \in DOMAIN answer.calls : answer.calls[j].id \in CallIds
      /\ \A j \in DOMAIN answer.calls : answer.calls[j].id = c => j = i
    <2>1. Len(answer.calls[i].input) \in Nat
        BY AskFacts, LenProperties
    <2> QED  BY <2>1, AskFacts
<1>2. inputs \in [CallIds -> Nat] /\ ends \in [CallIds -> {"open", "blank", "full"}]
    BY <1>1 DEF SaidType
<1>3. /\ \A x \in CallIds : inputs[x] = IF x = c THEN n ELSE said.inputs[x]
      /\ \A x \in CallIds : ends[x] = IF x = c THEN end ELSE said.ends[x]
      /\ \A x \in CallIds : told[x] = IF x = c THEN input0 ELSE acc.inputs[x]
    BY DEF SaidType, AccType
<1>4. said' = [said EXCEPT !.inputs = inputs, !.ends = ends]
    OBVIOUS
<1>a. Folded(acc', acc.reasoning, acc.text, told, acc.content, acc.file)
    OBVIOUS
<1> HIDE DEF inputs, ends, told
<1>5. SaidNow(said.reasoning, said.text, inputs, ends, said.calls, said.file, said.finish)
    BY <1>2, <1>4 DEF SaidNow, SaidType
<1>6. ASSUME NEW j \in DOMAIN answer.calls
      PROVE  /\ inputs[answer.calls[j].id] <= Len(answer.calls[j].input)
             /\ told[answer.calls[j].id] =
                   IF ends[answer.calls[j].id] = "full" THEN answer.calls[j].input
                   ELSE SubSeq(answer.calls[j].input, 1, inputs[answer.calls[j].id])
    <2>1. CASE j = i
        BY <1>1, <1>3, <2>1
    <2>2. CASE j # i
        <3>1. answer.calls[j].id # c /\ answer.calls[j].id \in CallIds
            BY <1>1, <2>2
        <3> HIDE DEF c
        <3> QED  BY <1>3, <3>1 DEF SaidOK, StreamTold, InputTold
    <2> QED  BY <2>1, <2>2
<1>7. SaidOK'
    <2>1. /\ said'.finish = 0 /\ said'.file = said.file
          /\ said'.reasoning <= Len(answer.reasoning) /\ said'.text <= Len(answer.text)
          /\ said'.calls <= Len(answer.calls)
        BY <1>5, <1>6 DEF SaidNow, SaidOK
    <2>2. \A j \in DOMAIN answer.calls :
             said'.inputs[answer.calls[j].id] <= Len(answer.calls[j].input)
        BY <1>5, <1>6 DEF SaidNow, SaidOK
    <2> QED  BY <2>1, <2>2, SaidFits
<1> HIDE DEF c
<1>9. \A j \in DOMAIN answer.calls :
         acc'.inputs[answer.calls[j].id] =
            IF said'.ends[answer.calls[j].id] = "full" THEN answer.calls[j].input
            ELSE SubSeq(answer.calls[j].input, 1, said'.inputs[answer.calls[j].id])
    <2>1. acc'.inputs = told /\ said'.ends = ends /\ said'.inputs = inputs
        BY <1>5, <1>a DEF SaidNow, Folded
    <2> QED  BY <1>6, <2>1
<1>10. answer' = answer
    BY DEF answer
<1>11. (\A j \in DOMAIN answer.calls : InputTold(answer.calls[j]))'
    BY <1>9, <1>10 DEF InputTold
<1>12. /\ said'.reasoning = said.reasoning /\ said'.text = said.text /\ said'.calls = said.calls
       /\ said'.file = said.file /\ acc'.reasoning = acc.reasoning /\ acc'.text = acc.text
       /\ acc'.content = acc.content /\ acc'.file = acc.file
    BY <1>5, <1>a DEF SaidNow, Folded
<1>8. StreamTold'
    BY <1>10, <1>11, <1>12 DEF StreamTold, AsTold
<1> QED  BY <1>5, <1>7, <1>8 DEF StreamGoesOn, SaidNow

\* However its input was told, a call is kept with the whole of it.
LEMMA SaidCall ==
    ASSUME ask \in Asks, ask' = ask, said \in SaidType, acc \in AccType, SaidOK, StreamTold,
           said.finish = 0, NEW i, i = said.calls + 1, said.calls # Len(answer.calls),
           NEW own, own = answer.calls[i].input \/ (own = <<>> /\ Told(answer.calls[i])),
           said' = [said EXCEPT !.calls = @ + 1],
           Folded(acc', acc.reasoning, acc.text, acc.inputs,
                  Append(acc.content, [id |-> answer.calls[i].id, hosted |-> FALSE,
                                       input |-> CallInput(acc.inputs[answer.calls[i].id], own)]),
                  acc.file)
    PROVE  StreamGoesOn
<1> DEFINE call == answer.calls[i]
           new == [id |-> call.id, hosted |-> FALSE, input |-> CallInput(acc.inputs[call.id], own)]
<1>1. said.calls \in Nat /\ i \in Nat /\ i \in 1..Len(answer.calls) /\ i \in DOMAIN answer.calls
      /\ said.calls <= Len(answer.calls) /\ Len(answer.calls) \in Nat
      /\ DOMAIN answer.calls = 1..Len(answer.calls)
    <2>1. Len(answer.calls) \in Nat /\ DOMAIN answer.calls = 1..Len(answer.calls)
        BY AskFacts
    <2> QED  BY <2>1 DEF SaidType, SaidOK
<1>2. call.id \in CallIds /\ call.input \in Seq(STRING)
    BY <1>1, AskFacts
<1>3. said.inputs[call.id] \in 0..Len(call.input) /\ InputTold(call)
    <2>1. said.inputs[call.id] \in Nat /\ said.inputs[call.id] <= Len(call.input)
          /\ Len(call.input) \in Nat
        BY <1>1, <1>2 DEF SaidType, SaidOK
    <2>2. InputTold(call)
        BY <1>1 DEF StreamTold
    <2> QED  BY <2>1, <2>2
<1> HIDE DEF call
<1>4. CallInput(acc.inputs[call.id], own) = call.input
    <2>1. CASE own # <<>>
        BY <2>1 DEF CallInput, call
    <2>2. CASE own = <<>> /\ said.ends[call.id] = "full"
        BY <1>3, <2>2 DEF CallInput, InputTold
    <2>3. CASE own = <<>> /\ said.ends[call.id] # "full"
        <3>1. said.inputs[call.id] = Len(call.input)
            <4>1. CASE own = call.input
                <5>1. Len(call.input) = 0
                    BY <2>3, <4>1
                <5> QED  BY <1>3, <5>1
            <4>2. CASE Told(call)
                BY <2>3, <4>2 DEF Told
            <4> QED  BY <4>1, <4>2 DEF call
        <3>2. acc.inputs[call.id] = SubSeq(call.input, 1, Len(call.input))
            BY <1>3, <2>3, <3>1 DEF InputTold
        <3>3. acc.inputs[call.id] = call.input
            BY <1>2, <3>2, SubSeqFull
        <3> QED  BY <2>3, <3>3 DEF CallInput
    <2> QED  BY <2>1, <2>2, <2>3
<1>5. new = AsTold(call) /\ new \in Calls
    BY <1>2, <1>4 DEF AsTold, Calls
<1>a. Folded(acc', acc.reasoning, acc.text, acc.inputs, Append(acc.content, new), acc.file)
    BY DEF call
<1> HIDE DEF new
<1>6. said' = [said EXCEPT !.calls = i]
    OBVIOUS
<1>7. SaidNow(said.reasoning, said.text, said.inputs, said.ends, i, said.file, said.finish)
    BY <1>1, <1>6 DEF SaidNow, SaidType
<1>8. SaidOK'
    <2>1. /\ said'.finish = 0 /\ said'.file = said.file
          /\ said'.reasoning <= Len(answer.reasoning) /\ said'.text <= Len(answer.text)
          /\ said'.calls <= Len(answer.calls)
        BY <1>7, <1>1 DEF SaidNow, SaidOK
    <2>2. \A j \in DOMAIN answer.calls :
             said'.inputs[answer.calls[j].id] <= Len(answer.calls[j].input)
        BY <1>7, <1>1 DEF SaidNow, SaidOK
    <2> QED  BY <2>1, <2>2, SaidFits
<1> DEFINE content == Append(acc.content, new)
<1>9. /\ Len(content) = i
      /\ \A j \in 1..i : content[j] = IF j = i THEN new ELSE acc.content[j]
    <2>1. acc.content \in Seq(Calls) /\ Len(acc.content) = said.calls
        BY DEF AccType, StreamTold
    <2>2. /\ Len(content) = Len(acc.content) + 1
          /\ \A j \in 1..Len(acc.content) : content[j] = acc.content[j]
          /\ content[Len(acc.content) + 1] = new
        BY <1>5, <2>1, AppendProperties
    <2> HIDE DEF content
    <2>3. /\ Len(content) = i /\ content[i] = new
          /\ \A j \in 1..said.calls : content[j] = acc.content[j]
        BY <2>1, <2>2
    <2>4. \A j \in 1..i : j = i \/ j \in 1..said.calls
        BY <1>1
    <2>5. i \notin 1..said.calls
        BY <1>1
    <2> QED  BY <2>3, <2>4, <2>5
<1> HIDE DEF content
<1>10. \A j \in 1..i : content[j] = AsTold(answer.calls[j])
    <2>1. \A j \in 1..i : j = i \/ j \in 1..said.calls
        BY <1>1
    <2>2. \A j \in 1..said.calls : acc.content[j] = AsTold(answer.calls[j])
        BY DEF StreamTold
    <2> QED  BY <1>5, <1>9, <2>1, <2>2 DEF call
<1>11. answer' = answer
    BY DEF answer
<1>12. /\ said'.reasoning = said.reasoning /\ said'.text = said.text /\ said'.calls = i
       /\ said'.file = said.file /\ acc'.reasoning = acc.reasoning /\ acc'.text = acc.text
       /\ acc'.content = content /\ acc'.file = acc.file
       /\ acc'.inputs = acc.inputs /\ said'.inputs = said.inputs /\ said'.ends = said.ends
    BY <1>7, <1>a DEF SaidNow, Folded, content
<1>13. StreamTold'
    <2>1. /\ (acc.text = SubSeq(answer.text, 1, said.text))'
          /\ (acc.reasoning = SubSeq(answer.reasoning, 1, said.reasoning))'
          /\ (acc.file = said.file)'
        BY <1>11, <1>12 DEF StreamTold
    <2>2. (\A j \in DOMAIN answer.calls : InputTold(answer.calls[j]))'
        BY <1>11, <1>12 DEF StreamTold, InputTold
    <2>3. (Len(acc.content) = said.calls)'
        BY <1>9, <1>12
    <2>4. (\A j \in 1..said.calls : acc.content[j] = AsTold(answer.calls[j]))'
        BY <1>10, <1>11, <1>12 DEF AsTold
    <2> QED  BY <2>1, <2>2, <2>3, <2>4 DEF StreamTold
<1> QED  BY <1>7, <1>8, <1>13 DEF StreamGoesOn, SaidNow

\* What is told stays told.
LEMMA ToldStill ==
    ASSUME ask' = ask, StreamTold,
           said'.reasoning = said.reasoning, said'.text = said.text, said'.inputs = said.inputs,
           said'.ends = said.ends, said'.calls = said.calls, acc'.file = said'.file,
           acc'.reasoning = acc.reasoning, acc'.text = acc.text, acc'.inputs = acc.inputs,
           acc'.content = acc.content
    PROVE  StreamTold'
<1>1. answer' = answer
    BY DEF answer
<1> QED  BY <1>1 DEF StreamTold, InputTold, AsTold

\* A part that carries no text: the start, a file the answer has, or the finish.
LEMMA SaidPlain ==
    ASSUME ask \in Asks, ask' = ask, said \in SaidType, acc \in AccType, SaidOK, StreamTold,
           said.finish = 0, opts.api = "stream", NEW type \in {"stream-start", "finish", "file"},
           type = "stream-start" => said' = said,
           type = "file" => answer.file /\ said' = [said EXCEPT !.file = TRUE],
           type = "finish" => SaidAll /\ said' = [said EXCEPT !.finish = 1],
           Folded(acc', acc.reasoning, acc.text, acc.inputs, acc.content,
                  IF type = "file" THEN TRUE ELSE acc.file)
    PROVE  StreamGoesOn
<1>a. answer' = answer /\ opts' = opts
    BY DEF answer, opts
<1>1. CASE type = "stream-start"
    <2>1. Folded(acc', acc.reasoning, acc.text, acc.inputs, acc.content, acc.file)
        BY <1>1
    <2>2. said' = said
        BY <1>1
    <2>3. SaidOK'
        BY <1>a, <2>2 DEF SaidOK, SaidAll
    <2>5. /\ acc'.file = acc.file /\ acc'.reasoning = acc.reasoning /\ acc'.text = acc.text
          /\ acc'.inputs = acc.inputs /\ acc'.content = acc.content
        BY <2>1 DEF Folded
    <2>6. acc'.file = said'.file
        BY <2>2, <2>5 DEF StreamTold
    <2>4. StreamTold'
        BY <2>2, <2>5, <2>6, ToldStill
    <2> QED  BY <2>2, <2>3, <2>4 DEF StreamGoesOn
<1>2. CASE type = "file"
    <2>1. Folded(acc', acc.reasoning, acc.text, acc.inputs, acc.content, TRUE)
        BY <1>2
    <2>2. SaidNow(said.reasoning, said.text, said.inputs, said.ends, said.calls, TRUE, said.finish)
        BY <1>2 DEF SaidNow, SaidType
    <2>3. SaidOK'
        BY <1>2, <1>a, <2>2 DEF SaidNow, SaidOK, SaidAll
    <2>5. /\ acc'.reasoning = acc.reasoning /\ acc'.text = acc.text
          /\ acc'.inputs = acc.inputs /\ acc'.content = acc.content
        BY <2>1 DEF Folded
    <2>6. acc'.file = said'.file
        BY <2>1, <2>2 DEF StreamTold, Folded, SaidNow
    <2>7. /\ said'.reasoning = said.reasoning /\ said'.text = said.text
          /\ said'.inputs = said.inputs /\ said'.ends = said.ends /\ said'.calls = said.calls
        BY <2>2 DEF SaidNow
    <2>4. StreamTold'
        BY <2>5, <2>6, <2>7, ToldStill
    <2> QED  BY <2>2, <2>3, <2>4 DEF StreamGoesOn, SaidNow
<1>3. CASE type = "finish"
    <2>1. Folded(acc', acc.reasoning, acc.text, acc.inputs, acc.content, acc.file)
        BY <1>3
    <2>2. SaidNow(said.reasoning, said.text, said.inputs, said.ends, said.calls, said.file, 1)
        BY <1>3 DEF SaidNow, SaidType
    <2>3. SaidOK'
        BY <1>3, <1>a, <2>2 DEF SaidNow, SaidOK, SaidAll
    <2>5. /\ acc'.reasoning = acc.reasoning /\ acc'.text = acc.text
          /\ acc'.inputs = acc.inputs /\ acc'.content = acc.content
        BY <2>1 DEF Folded
    <2>6. acc'.file = said'.file
        BY <2>1, <2>2 DEF StreamTold, Folded, SaidNow
    <2>7. /\ said'.reasoning = said.reasoning /\ said'.text = said.text
          /\ said'.inputs = said.inputs /\ said'.ends = said.ends /\ said'.calls = said.calls
        BY <2>2 DEF SaidNow
    <2>4. StreamTold'
        BY <2>5, <2>6, <2>7, ToldStill
    <2> QED  BY <2>2, <2>3, <2>4 DEF StreamGoesOn, SaidNow
<1> QED  BY <1>1, <1>2, <1>3
-----------------------------------------------------------------------------
(* The steps of an activity that reads a stream.                           *)

\* A step that relays what it took from the stream.
LEMMA ReadingStep ==
    ASSUME ModelTypes, LanesOK, ask' = ask, opts.api # "generateObject",
           NEW parts, NEW next \in {"reading", "failed"}, Relays(parts, next),
           said' \in SaidType, acc' \in AccType, SaidOK', AccOK', Tracked',
           RelayEnabled => Fine(AcceptAll(lanes, parts), acc'.reasoning, acc'.text,
                                tracker'.last, tracker'.published)
    PROVE  ModelInv'
<1> DEFINE r == acc'.reasoning
           t == acc'.text
           l == tracker'.last
           p == tracker'.published
<1>1. /\ lanes' \in [LaneKeys -> LaneType]
      /\ \A k \in LaneKeys : lanes'[k].begun \/ lanes'[k] = NoLane
      /\ ElementsAreFinal'
      /\ RelayEnabled' /\ at' # "failed" => Shows(lanes', r, t, l, p)
      /\ at' \in {next, "failed"}
    <2>1. RelayEnabled => Fine(AcceptAll(lanes, parts), r, t, l, p)
        OBVIOUS
    <2> HIDE DEF r, t, l, p
    <2> QED  BY <2>1, RelayStep
<1>2. opts' = opts /\ answer' = answer
    BY DEF opts, answer
<1>3. LastValue' = l
    BY <1>2 DEF LastValue
<1>4. LanesOK'
    <2>1. RelayEnabled' /\ at' # "failed" =>
             Shows(lanes, acc.reasoning, acc.text, LastValue, tracker.published)'
        <3>1. Shows(lanes', r, t, l, p) =>
                 Shows(lanes, acc.reasoning, acc.text, LastValue, tracker.published)'
            BY <1>2, <1>3 DEF Shows
        <3> QED  BY <1>1, <3>1
    <2> QED  BY <1>1, <2>1 DEF LanesOK
<1>5. ModelTypes'
    BY <1>1 DEF ModelTypes
<1>6. Unasked' /\ at' # "returned"
    BY <1>1 DEF Unasked
<1> QED  BY <1>4, <1>5, <1>6 DEF ModelInv

\* A part that is not text.
LEMMA OtherPart ==
    ASSUME ModelInv, at = "reading", opts.api = "stream", ask' = ask, tracker' = tracker,
           NEW part, Relays(<<part>> \o <<>>, "reading"), StreamGoesOn,
           NEW r, NEW inputs, NEW content, NEW file,
           Folded(acc', r, acc.text, inputs, content, file),
           Fine(lanes, acc.reasoning, acc.text, tracker.last, tracker.published)
              => Fine(AcceptPart(lanes, part), r, acc.text, tracker.last, tracker.published)
    PROVE  ModelInv'
<1>1. ModelTypes /\ LanesOK /\ AccOK /\ Tracked
    BY DEF ModelInv
<1>2. /\ acc' \in AccType /\ acc'.reasoning = r /\ acc'.text = acc.text
    BY DEF Folded
<1>3. opts' = opts /\ said' \in SaidType /\ SaidOK' /\ StreamTold'
    BY DEF opts, StreamGoesOn
<1>4. AccOK'
    BY <1>3 DEF AccOK
<1>5. Tracked'
    BY <1>1, <1>2, <1>3 DEF Tracked, Streams, TrackerOf
<1>6. <<part>> \o <<>> = <<part>>
    OBVIOUS
<1>7. LastValue = tracker.last
    BY DEF LastValue
<1>8. RelayEnabled => Fine(AcceptAll(lanes, <<part>>), acc'.reasoning, acc'.text,
                           tracker'.last, tracker'.published)
    <2> SUFFICES ASSUME RelayEnabled
                 PROVE  Fine(AcceptAll(lanes, <<part>>), r, acc.text, tracker.last, tracker.published)
        BY <1>2
    <2>1. Fine(lanes, acc.reasoning, acc.text, tracker.last, tracker.published)
        BY <1>1, <1>7, ShownNow
    <2>2. AcceptAll(lanes, <<part>>) = AcceptPart(lanes, part)
        BY AcceptOne
    <2> QED  BY <2>1, <2>2
<1>9. Relays(<<part>>, "reading")
    BY <1>6
<1> QED  BY <1>1, <1>2, <1>3, <1>4, <1>5, <1>8, <1>9, ReadingStep

\* A text delta, as InvokeModelStream takes it.
LEMMA TextPart ==
    ASSUME ModelInv, at = "reading", opts.api = "stream", ask' = ask, said.finish = 0,
           NEW d \in Deltas(answer.text, said.text),
           said' = [said EXCEPT !.text = @ + Len(d)],
           NEW e, e = Enriched(TextDelta(d)), tracker' = e.tracker,
           acc' = [Fold(acc, e.part) EXCEPT !.seen = @ \/ IsOutput(e.part)],
           Relays(<<e.part>> \o e.extras, "reading")
    PROVE  ModelInv'
<1> DEFINE n == said.text
           m == n + Len(d)
           new == SubSeq(answer.text, 1, m)
<1>1. /\ ModelTypes /\ LanesOK /\ StreamTold /\ Tracked /\ SaidOK
      /\ ask \in Asks /\ said \in SaidType /\ acc \in AccType
    BY DEF ModelInv, ModelTypes, AccOK
<1>2. opts.lane \in {"text", "object"} /\ answer.text \in Seq(STRING)
    BY <1>1, AskFacts
<1>3. n \in 0..Len(answer.text) /\ acc.text = SubSeq(answer.text, 1, n)
    BY <1>1, <1>2 DEF SaidType, SaidOK, StreamTold
<1>4. d \in Seq(STRING) /\ acc.text \o d = new /\ new \in Seq(STRING)
    BY <1>2, <1>3, PrefixGrows
<1>5. Streams
    BY DEF Streams
<1>6. TextEnriched(e, d, acc.text, new)
    BY <1>1, <1>3, <1>5, EnrichedText
<1> DEFINE v == e.part.value
<1>7. e.part = Part("text-delta", Nothing, d, v)
    BY <1>6 DEF TextEnriched
<1>8. Folded(acc', acc.reasoning, acc.text \o d, acc.inputs, acc.content, acc.file)
    <2> DEFINE a == Fold(acc, e.part)
    <2>1. Folded(Fold(acc, Part("text-delta", Nothing, d, v)),
                 acc.reasoning, acc.text \o d, acc.inputs, acc.content, acc.file)
        <3> HIDE DEF v
        <3> QED  BY <1>1, <1>4, FoldDelta
    <2>2. Folded(a, acc.reasoning, acc.text \o d, acc.inputs, acc.content, acc.file)
        <3> HIDE DEF v
        <3> QED  BY <1>7, <2>1
    <2>3. acc' = [a EXCEPT !.seen = @ \/ IsOutput(e.part)]
        OBVIOUS
    <2> HIDE DEF a
    <2> QED  BY <2>2, <2>3, SeenKept
<1>9. StreamGoesOn
    BY <1>1, <1>8, SaidText
<1>10. opts' = opts /\ said' \in SaidType /\ SaidOK' /\ StreamTold'
    BY <1>9 DEF opts, StreamGoesOn
<1>11. AccOK'
    BY <1>10 DEF AccOK
<1>12. acc' \in AccType /\ acc'.reasoning = acc.reasoning /\ acc'.text = new
    BY <1>4, <1>8 DEF Folded
<1> HIDE DEF new
<1>13. Tracked'
    <2>1. tracker' = IF opts.json THEN TrackerOf(new) ELSE NoTracker
        BY <1>6 DEF TextEnriched
    <2>2. tracker' = IF Streams' /\ opts'.json THEN TrackerOf(acc'.text) ELSE NoTracker
        BY <1>10, <1>12, <2>1 DEF Streams
    <2> QED  BY <2>2 DEF Tracked, TrackerOf
<1>14. tracker.published \in Nat
    <2>1. NoTracker.published = 0
        BY DEF NoTracker
    <2>2. acc.text \in Seq(STRING)
        BY <1>1 DEF AccType
    <2>3. TrackerOf(acc.text).published \in Nat
        BY <2>2, TrackerFields
    <2> QED  BY <1>1, <2>1, <2>3 DEF Tracked
<1>15. ASSUME RelayEnabled
       PROVE  Fine(AcceptAll(lanes, <<e.part>> \o e.extras), acc'.reasoning, acc'.text,
                   tracker'.last, tracker'.published)
    <2>1. Fine(lanes, acc.reasoning, acc.text, tracker.last, tracker.published)
        <3>1. LastValue = tracker.last
            BY DEF LastValue
        <3> QED  BY <1>1, <1>15, <3>1, ShownNow
    <2>2. Fine(AcceptAll(lanes, <<e.part>> \o e.extras), acc.reasoning, new,
               e.tracker.last, e.tracker.published)
        BY <1>2, <1>4, <1>6, <1>14, <2>1, ReceivedBatch
    <2> QED  BY <1>12, <2>2
<1> DEFINE parts == <<e.part>> \o e.extras
<1>16. Relays(parts, "reading")
    OBVIOUS
<1>17. RelayEnabled => Fine(AcceptAll(lanes, parts), acc'.reasoning, acc'.text,
                            tracker'.last, tracker'.published)
    BY <1>15
<1> HIDE DEF parts
<1> QED  BY <1>1, <1>10, <1>11, <1>12, <1>13, <1>16, <1>17, ReadingStep

\* The parts that a stream may send, one kind after another.
ReasoningSent(s) ==
    \E d \in Deltas(answer.reasoning, said.reasoning) :
        s = Sends(ReasoningDelta(d), [said EXCEPT !.reasoning = @ + Len(d)])
TextSent(s) ==
    \E d \in Deltas(answer.text, said.text) :
        s = Sends(TextDelta(d), [said EXCEPT !.text = @ + Len(d)])
InputSent(s) == \E i \in said.calls + 1..Len(answer.calls) : s \in InputsNext(answer.calls[i])
CallSent(s) == said.calls # Len(answer.calls) /\ s \in CallNext(answer.calls[said.calls + 1])
PlainSent(s) ==
    \/ answer.file /\ s = Sends(Plain("file"), [said EXCEPT !.file = TRUE])
    \/ s = Sends(Plain("stream-start"), said)
    \/ SaidAll /\ s = Sends(Plain("finish"), [said EXCEPT !.finish = 1])

LEMMA PartKinds ==
    ASSUME NEW s \in PartsNext, said.finish \in Nat
    PROVE  /\ said.finish = 0
           /\ ReasoningSent(s) \/ TextSent(s) \/ InputSent(s) \/ CallSent(s) \/ PlainSent(s)
<1> DEFINE A == DeltasNext
           B == UNION {InputsNext(answer.calls[i]) : i \in said.calls + 1..Len(answer.calls)}
           C == IF said.calls = Len(answer.calls) THEN {} ELSE CallNext(answer.calls[said.calls + 1])
           D == IF answer.file /\ ~said.file
                THEN {Sends(Plain("file"), [said EXCEPT !.file = TRUE])} ELSE {}
           E == IF said = Silent THEN {Sends(Plain("stream-start"), said)} ELSE {}
           F == IF SaidAll THEN {Sends(Plain("finish"), [said EXCEPT !.finish = 1])} ELSE {}
<1>0. ~(said.finish > 0)
    BY DEF PartsNext
<1>1. PartsNext = IF said.finish > 0 THEN {} ELSE A \cup B \cup C \cup D \cup E \cup F
    BY DEF PartsNext
<1>2. s \in A => ReasoningSent(s) \/ TextSent(s)
    BY DEF DeltasNext, ReasoningSent, TextSent
<1>3. s \in B => InputSent(s)
    BY DEF InputSent
<1>4. s \in C => CallSent(s)
    BY DEF CallSent
<1>5. s \in D => PlainSent(s)
    BY DEF PlainSent
<1>6. s \in E => PlainSent(s)
    BY DEF PlainSent
<1>7. s \in F => PlainSent(s)
    BY DEF PlainSent
<1> HIDE DEF A, B, C, D, E, F
<1> QED  BY <1>0, <1>1, <1>2, <1>3, <1>4, <1>5, <1>6, <1>7

\* What ReceivePart does with a part that is not text.
LEMMA TakesOther ==
    ASSUME NEW part, NEW after, NEW s, s = Sends(part, after), part.type # "text-delta",
           said' = s.said, tracker' = Enriched(s.part).tracker,
           acc' = [Fold(acc, Enriched(s.part).part) EXCEPT
                     !.seen = @ \/ IsOutput(Enriched(s.part).part)],
           Relays(<<Enriched(s.part).part>> \o Enriched(s.part).extras, "reading")
    PROVE  /\ said' = after /\ tracker' = tracker
           /\ acc' = [Fold(acc, part) EXCEPT !.seen = @ \/ IsOutput(part)]
           /\ Relays(<<part>> \o <<>>, "reading")
<1>1. s.part = part /\ s.said = after
    BY DEF Sends
<1>2. /\ Enriched(part).part = part /\ Enriched(part).extras = <<>>
      /\ Enriched(part).tracker = tracker
    BY EnrichedOther
<1> QED  BY <1>1, <1>2

LEMMA ReceivePartKeeps ==
    ASSUME ModelInv, ReceivePart
    PROVE  ModelInv'
<1>1. /\ at = "reading" /\ opts.api = "stream" /\ ask' = ask
      /\ ModelTypes /\ LanesOK /\ StreamTold /\ Tracked /\ SaidOK
      /\ ask \in Asks /\ said \in SaidType /\ acc \in AccType
    BY DEF ModelInv, ModelTypes, AccOK, ReceivePart
<1>2. opts.lane \in {"text", "object"} /\ said.finish \in Nat
    BY <1>1, AskFacts DEF SaidType
<1>p. tracker.published \in Nat
    <2>1. NoTracker.published = 0
        BY DEF NoTracker
    <2>2. acc.text \in Seq(STRING)
        BY <1>1 DEF AccType
    <2>3. TrackerOf(acc.text).published \in Nat
        BY <2>2, TrackerFields
    <2> QED  BY <1>1, <2>1, <2>3 DEF Tracked
<1>3. PICK s \in PartsNext :
         /\ said' = s.said /\ tracker' = Enriched(s.part).tracker
         /\ acc' = [Fold(acc, Enriched(s.part).part) EXCEPT
                      !.seen = @ \/ IsOutput(Enriched(s.part).part)]
         /\ Relays(<<Enriched(s.part).part>> \o Enriched(s.part).extras, "reading")
    BY DEF ReceivePart
<1>4. said.finish = 0
    BY <1>2, PartKinds
<1>5. CASE ReasoningSent(s)
    <2>1. PICK d \in Deltas(answer.reasoning, said.reasoning) :
             s = Sends(ReasoningDelta(d), [said EXCEPT !.reasoning = @ + Len(d)])
        BY <1>5 DEF ReasoningSent
    <2>2. d \in Seq(STRING)
        <3>1. answer.reasoning \in Seq(STRING) /\ said.reasoning \in 0..Len(answer.reasoning)
            BY <1>1, AskFacts DEF SaidType, SaidOK
        <3> QED  BY <3>1, PrefixGrows
    <2> DEFINE part == ReasoningDelta(d)
               after == [said EXCEPT !.reasoning = @ + Len(d)]
    <2>3. part.type # "text-delta"
        BY DEF ReasoningDelta, Part
    <2>4. Folded(Fold(acc, part), acc.reasoning \o d, acc.text, acc.inputs, acc.content, acc.file)
        BY <1>1, <2>2, FoldDelta
    <2>5. Fine(lanes, acc.reasoning, acc.text, tracker.last, tracker.published)
             => Fine(AcceptPart(lanes, part), acc.reasoning \o d, acc.text, tracker.last, tracker.published)
        BY <1>2, <1>p, <2>2, ShowReasoning
    <2>6. s = Sends(part, after)
        BY <2>1
    <2> HIDE DEF part, after
    <2>7. /\ said' = after /\ tracker' = tracker
          /\ acc' = [Fold(acc, part) EXCEPT !.seen = @ \/ IsOutput(part)]
          /\ Relays(<<part>> \o <<>>, "reading")
        BY <1>3, <2>3, <2>6, TakesOther
    <2>8. Folded(acc', acc.reasoning \o d, acc.text, acc.inputs, acc.content, acc.file)
        BY <2>4, <2>7, SeenKept
    <2>9. StreamGoesOn
        BY <1>1, <1>4, <2>7, <2>8, SaidReasoning DEF after
    <2> QED  BY <1>1, <2>5, <2>7, <2>8, <2>9, OtherPart
<1>6. CASE TextSent(s)
    <2>1. PICK d \in Deltas(answer.text, said.text) :
             s = Sends(TextDelta(d), [said EXCEPT !.text = @ + Len(d)])
        BY <1>6 DEF TextSent
    <2>2. s.part = TextDelta(d) /\ s.said = [said EXCEPT !.text = @ + Len(d)]
        BY <2>1 DEF Sends
    <2> DEFINE e == Enriched(TextDelta(d))
    <2>3. /\ said' = [said EXCEPT !.text = @ + Len(d)] /\ tracker' = e.tracker
          /\ acc' = [Fold(acc, e.part) EXCEPT !.seen = @ \/ IsOutput(e.part)]
          /\ Relays(<<e.part>> \o e.extras, "reading")
        BY <1>3, <2>2
    <2>4. e = Enriched(TextDelta(d))
        OBVIOUS
    <2> HIDE DEF e
    <2> QED  BY <1>1, <1>4, <2>3, <2>4, TextPart
<1>7. CASE InputSent(s)
    <2>1. PICK i \in said.calls + 1..Len(answer.calls) : s \in InputsNext(answer.calls[i])
        BY <1>7 DEF InputSent
    <2> DEFINE call == answer.calls[i]
               c == call.id
               told == said.inputs[c]
    <2>2. i \in DOMAIN answer.calls /\ c \in CallIds /\ call.input \in Seq(STRING)
        <3>1. said.calls \in Nat /\ DOMAIN answer.calls = 1..Len(answer.calls)
            BY <1>1, AskFacts DEF SaidType
        <3>2. i \in DOMAIN answer.calls
            BY <3>1
        <3> QED  BY <1>1, <3>2, AskFacts
    <2>3. told \in 0..Len(call.input) /\ InputTold(call)
        <3>1. told \in Nat /\ told <= Len(call.input)
            BY <1>1, <2>2 DEF SaidType, SaidOK
        <3> QED  BY <1>1, <2>2, <3>1 DEF StreamTold
    <2>4. said.ends[c] = "open"
        BY <2>1 DEF InputsNext
    <2>5. acc.inputs[c] = SubSeq(call.input, 1, told)
        BY <2>3, <2>4 DEF InputTold
    <2> DEFINE Told2(type, d, n, end) ==
                  /\ s = Sends(Part(type, c, d, Nothing),
                               [said EXCEPT !.inputs = [@ EXCEPT ![c] = n],
                                            !.ends = [@ EXCEPT ![c] = end]])
                  /\ type \in {"tool-input-delta", "tool-input-end"} /\ d \in Seq(STRING)
                  /\ n \in 0..Len(call.input) /\ end \in {"open", "blank", "full"}
                  /\ (IF type = "tool-input-delta" THEN acc.inputs[c] \o d
                      ELSE EndedInput(acc.inputs[c], d))
                     = IF end = "full" THEN call.input ELSE SubSeq(call.input, 1, n)
    <2>6. \E type, d, n, end : Told2(type, d, n, end)
        <3>0. /\ said.ends = [said.ends EXCEPT ![c] = "open"]
              /\ said.inputs = [said.inputs EXCEPT ![c] = told]
            BY <1>1, <2>2, <2>4 DEF SaidType
        <3>1. CASE \E d \in Deltas(call.input, told) :
                      s = Sends(Part("tool-input-delta", c, d, Nothing),
                                [said EXCEPT !.inputs[c] = @ + Len(d)])
            <4>1. PICK d \in Deltas(call.input, told) :
                     s = Sends(Part("tool-input-delta", c, d, Nothing),
                               [said EXCEPT !.inputs[c] = @ + Len(d)])
                BY <3>1
            <4> DEFINE m == told + Len(d)
            <4>2. /\ d \in Seq(STRING) /\ m \in 0..Len(call.input)
                  /\ SubSeq(call.input, 1, told) \o d = SubSeq(call.input, 1, m)
                <5> HIDE DEF call, told
                <5> QED  BY <2>2, <2>3, PrefixGrows
            <4>3. [said EXCEPT !.inputs[c] = @ + Len(d)]
                     = [said EXCEPT !.inputs = [@ EXCEPT ![c] = m], !.ends = [@ EXCEPT ![c] = "open"]]
                BY <1>1, <3>0 DEF SaidType
            <4>4. Told2("tool-input-delta", d, m, "open")
                <5> HIDE DEF call, m, c
                <5> QED  BY <2>5, <4>1, <4>2, <4>3
            <4> QED  BY <4>4
        <3>2. CASE s = Sends(Part("tool-input-end", c, <<>>, Nothing), [said EXCEPT !.ends[c] = "blank"])
            <4>1. [said EXCEPT !.ends[c] = "blank"]
                     = [said EXCEPT !.inputs = [@ EXCEPT ![c] = told], !.ends = [@ EXCEPT ![c] = "blank"]]
                BY <1>1, <3>0 DEF SaidType
            <4>2. EndedInput(acc.inputs[c], <<>>) = acc.inputs[c] /\ <<>> \in Seq(STRING)
                BY DEF EndedInput
            <4>3. Told2("tool-input-end", <<>>, told, "blank")
                <5> HIDE DEF call, c, told
                <5> QED  BY <2>3, <2>5, <3>2, <4>1, <4>2
            <4> QED  BY <4>3
        <3>3. CASE s = Sends(Part("tool-input-end", c, call.input, Nothing), [said EXCEPT !.ends[c] = "full"])
            <4>1. [said EXCEPT !.ends[c] = "full"]
                     = [said EXCEPT !.inputs = [@ EXCEPT ![c] = told], !.ends = [@ EXCEPT ![c] = "full"]]
                BY <1>1, <3>0 DEF SaidType
            <4>2. EndedInput(acc.inputs[c], call.input) = call.input
                <5>1. CASE call.input = <<>>
                    <6>1. told = 0
                        BY <2>3, <5>1
                    <6>2. acc.inputs[c] = <<>>
                        BY <2>5, <5>1, <6>1
                    <6> QED  BY <5>1, <6>2 DEF EndedInput
                <5>2. CASE call.input # <<>>
                    BY <5>2 DEF EndedInput
                <5> QED  BY <5>1, <5>2
            <4>3. Told2("tool-input-end", call.input, told, "full")
                <5> HIDE DEF call, c, told
                <5> QED  BY <2>2, <2>3, <3>3, <4>1, <4>2
            <4> QED  BY <4>3
        <3> QED  BY <2>1, <2>4, <3>1, <3>2, <3>3 DEF InputsNext
    <2> HIDE DEF Told2
    <2>7. PICK type, d, n, end : Told2(type, d, n, end)
        BY <2>6
    <2> DEFINE part == Part(type, c, d, Nothing)
               after == [said EXCEPT !.inputs = [@ EXCEPT ![c] = n], !.ends = [@ EXCEPT ![c] = end]]
               whole == IF type = "tool-input-delta" THEN acc.inputs[c] \o d
                        ELSE EndedInput(acc.inputs[c], d)
               inputs == [acc.inputs EXCEPT ![c] = whole]
    <2>8. /\ s = Sends(part, after)
          /\ type \in {"tool-input-delta", "tool-input-end"} /\ d \in Seq(STRING)
          /\ n \in 0..Len(call.input) /\ end \in {"open", "blank", "full"}
          /\ whole = IF end = "full" THEN call.input ELSE SubSeq(call.input, 1, n)
        BY <2>7 DEF Told2
    <2>9. part.type # "text-delta"
        BY <2>8 DEF Part
    <2>10. Folded(Fold(acc, part), acc.reasoning, acc.text, inputs, acc.content, acc.file)
        <3> HIDE DEF call, c
        <3> QED  BY <1>1, <2>2, <2>8, FoldInput
    <2>11. Fine(lanes, acc.reasoning, acc.text, tracker.last, tracker.published)
              => Fine(AcceptPart(lanes, part), acc.reasoning, acc.text, tracker.last, tracker.published)
        <3> HIDE DEF call, c
        <3> QED  BY <1>2, <1>p, <2>2, <2>8, ShowCall
    <2> HIDE DEF part, after, whole, inputs
    <2>12. /\ said' = after /\ tracker' = tracker
           /\ acc' = [Fold(acc, part) EXCEPT !.seen = @ \/ IsOutput(part)]
           /\ Relays(<<part>> \o <<>>, "reading")
        BY <1>3, <2>8, <2>9, TakesOther
    <2>13. Folded(acc', acc.reasoning, acc.text, inputs, acc.content, acc.file)
        BY <2>10, <2>12, SeenKept
    <2>14. StreamGoesOn
        BY <1>1, <1>4, <2>2, <2>4, <2>8, <2>12, <2>13, SaidInput DEF after, inputs
    <2> QED  BY <1>1, <2>11, <2>12, <2>13, <2>14, OtherPart
<1>8. CASE CallSent(s)
    <2> DEFINE i == said.calls + 1
               call == answer.calls[i]
               c == call.id
    <2>1. said.calls # Len(answer.calls) /\ s \in CallNext(call)
        BY <1>8 DEF CallSent
    <2>2. i \in DOMAIN answer.calls /\ c \in CallIds /\ call.input \in Seq(STRING)
        <3>1. /\ said.calls \in Nat /\ DOMAIN answer.calls = 1..Len(answer.calls)
              /\ said.calls <= Len(answer.calls) /\ Len(answer.calls) \in Nat
            BY <1>1, AskFacts DEF SaidType, SaidOK
        <3>2. i \in DOMAIN answer.calls
            BY <2>1, <3>1
        <3> QED  BY <1>1, <3>2, AskFacts
    <2>3. PICK own \in {call.input} \cup (IF Told(call) THEN {<<>>} ELSE {}) :
             s = Sends(Part("tool-call", c, own, Nothing), [said EXCEPT !.calls = @ + 1])
        BY <2>1 DEF CallNext
    <2>4. (own = call.input \/ (own = <<>> /\ Told(call))) /\ own \in Seq(STRING)
        <3> HIDE DEF call
        <3>1. own = call.input \/ (own = <<>> /\ Told(call))
            OBVIOUS
        <3>2. <<>> \in Seq(STRING)
            OBVIOUS
        <3>3. own \in Seq(STRING)
            BY <2>2, <3>1, <3>2
        <3> QED  BY <3>1, <3>3
    <2> DEFINE part == Part("tool-call", c, own, Nothing)
               after == [said EXCEPT !.calls = @ + 1]
               content == Append(acc.content, [id |-> c, hosted |-> FALSE,
                                               input |-> CallInput(acc.inputs[c], own)])
    <2>5. s = Sends(part, after) /\ part.type # "text-delta"
        BY <2>3 DEF Part
    <2>6. Folded(Fold(acc, part), acc.reasoning, acc.text, acc.inputs, content, acc.file)
        <3> HIDE DEF call, c
        <3> QED  BY <1>1, <2>2, <2>4, FoldCall
    <2>7. Fine(lanes, acc.reasoning, acc.text, tracker.last, tracker.published)
             => Fine(AcceptPart(lanes, part), acc.reasoning, acc.text, tracker.last, tracker.published)
        <3> HIDE DEF call, c
        <3> QED  BY <1>2, <1>p, <2>2, <2>4, ShowCall
    <2> HIDE DEF part, after, content
    <2>8. /\ said' = after /\ tracker' = tracker
          /\ acc' = [Fold(acc, part) EXCEPT !.seen = @ \/ IsOutput(part)]
          /\ Relays(<<part>> \o <<>>, "reading")
        BY <1>3, <2>5, TakesOther
    <2>9. Folded(acc', acc.reasoning, acc.text, acc.inputs, content, acc.file)
        BY <2>6, <2>8, SeenKept
    <2>10. StreamGoesOn
        BY <1>1, <1>4, <2>1, <2>4, <2>8, <2>9, SaidCall DEF after, content
    <2> QED  BY <1>1, <2>7, <2>8, <2>9, <2>10, OtherPart
<1>9. CASE PlainSent(s)
    <2>p. PICK type \in {"stream-start", "finish", "file"} : \E after :
             /\ s = Sends(Plain(type), after)
             /\ type = "stream-start" => after = said
             /\ type = "file" => answer.file /\ after = [said EXCEPT !.file = TRUE]
             /\ type = "finish" => SaidAll /\ after = [said EXCEPT !.finish = 1]
        <3>1. CASE answer.file /\ s = Sends(Plain("file"), [said EXCEPT !.file = TRUE])
            BY <3>1
        <3>2. CASE s = Sends(Plain("stream-start"), said)
            BY <3>2
        <3>3. CASE SaidAll /\ s = Sends(Plain("finish"), [said EXCEPT !.finish = 1])
            BY <3>3
        <3> QED  BY <1>9, <3>1, <3>2, <3>3 DEF PlainSent
    <2>1. PICK after :
             /\ s = Sends(Plain(type), after)
             /\ type = "stream-start" => after = said
             /\ type = "file" => answer.file /\ after = [said EXCEPT !.file = TRUE]
             /\ type = "finish" => SaidAll /\ after = [said EXCEPT !.finish = 1]
        BY <2>p
    <2> DEFINE part == Plain(type)
               file == IF type = "file" THEN TRUE ELSE acc.file
    <2>2. part.type # "text-delta"
        BY DEF Plain, Part
    <2>3. Folded(Fold(acc, part), acc.reasoning, acc.text, acc.inputs, acc.content, file)
        BY <1>1, FoldPlain
    <2>4. Fine(lanes, acc.reasoning, acc.text, tracker.last, tracker.published)
             => Fine(AcceptPart(lanes, part), acc.reasoning, acc.text, tracker.last, tracker.published)
        BY <1>2, <1>p, ShowPlain DEF Plain
    <2> HIDE DEF part, file
    <2>5. /\ said' = after /\ tracker' = tracker
          /\ acc' = [Fold(acc, part) EXCEPT !.seen = @ \/ IsOutput(part)]
          /\ Relays(<<part>> \o <<>>, "reading")
        BY <1>3, <2>1, <2>2, TakesOther DEF part
    <2>6. Folded(acc', acc.reasoning, acc.text, acc.inputs, acc.content, file)
        BY <2>3, <2>5, SeenKept
    <2>7. StreamGoesOn
        BY <1>1, <1>4, <2>1, <2>5, <2>6, SaidPlain DEF file
    <2> QED  BY <1>1, <2>4, <2>5, <2>6, <2>7, OtherPart
<1> QED  BY <1>2, <1>5, <1>6, <1>7, <1>8, <1>9, PartKinds

\* The steps that change what the activity waits for, and nothing it has.
LEMMA StillStep ==
    ASSUME ModelInv, UNCHANGED <<ask, said, acc, tracker, lanes>>,
           at # "failed", at' # "calling", RelayEnabled' => RelayEnabled,
           Streams \/ at' # "closing"
    PROVE  ModelTypes' /\ SaidOK' /\ AccOK' /\ Tracked' /\ LanesOK' /\ Unasked'
<1>1. /\ opts' = opts /\ answer' = answer /\ Streams' = Streams
      /\ LastValue' = LastValue /\ SaidAll' = SaidAll
    BY DEF opts, answer, Streams, LastValue, SaidAll
<1>2. ModelTypes' /\ SaidOK' /\ Tracked'
    BY <1>1 DEF ModelInv, ModelTypes, SaidOK, Tracked, TrackerOf
<1>3. AccOK'
    <2>1. CASE opts.api = "stream"
        <3>1. StreamTold
            BY <2>1 DEF ModelInv, AccOK
        <3>2. StreamTold'
            BY <1>1, <3>1 DEF StreamTold, InputTold, AsTold
        <3> QED  BY <1>1, <2>1, <3>2 DEF AccOK
    <2>2. CASE opts.api = "streamObject"
        <3>1. ObjectTold
            BY <2>2 DEF ModelInv, AccOK
        <3>2. ObjectTold'
            BY <1>1, <3>1 DEF ObjectTold
        <3> QED  BY <1>1, <2>2, <3>2 DEF AccOK
    <2>3. CASE opts.api \notin {"stream", "streamObject"}
        <3>1. WholeTold
            BY <2>3 DEF ModelInv, AccOK
        <3>2. WholeTold'
            BY <1>1, <2>3, <3>1 DEF WholeTold, WholeAnswer, Streams
        <3> QED  BY <1>1, <2>3, <3>2 DEF AccOK
    <2> QED  BY <2>1, <2>2, <2>3
<1>4. LanesOK'
    <2>1. RelayEnabled => Shows(lanes, acc.reasoning, acc.text, LastValue, tracker.published)
        BY DEF ModelInv, LanesOK
    <2>2. RelayEnabled' =>
             Shows(lanes, acc.reasoning, acc.text, LastValue, tracker.published)'
        BY <1>1, <2>1 DEF Shows
    <2> QED  BY <2>2 DEF ModelInv, LanesOK, ElementsAreFinal
<1>5. Unasked'
    BY DEF Unasked
<1> QED  BY <1>2, <1>3, <1>4, <1>5

LEMMA WaitStep ==
    ASSUME ModelInv, at \in {"calling", "reading"}, at' # "calling", at' # "returned",
           UNCHANGED <<ask, said, acc, tracker, lanes, relay, result>>,
           Streams \/ at' # "closing"
    PROVE  ModelInv'
<1>1. RelayEnabled' = RelayEnabled
    BY DEF opts, RelayEnabled
<1> QED  BY <1>1, StillStep DEF ModelInv

LEMMA ClosesKeeps ==
    ASSUME ModelInv, StreamCloses
    PROVE  ModelInv'
BY WaitStep DEF StreamCloses, Streams

LEMMA BreaksKeeps ==
    ASSUME ModelInv, ModelBreaks
    PROVE  ModelInv'
BY WaitStep DEF ModelBreaks

\* What is told stays told while other things change.
LEMMA SameAnswer ==
    ASSUME ModelInv, UNCHANGED <<ask, said, acc, tracker>>, Streams
    PROVE  said' \in SaidType /\ acc' \in AccType /\ SaidOK' /\ AccOK' /\ Tracked'
<1>1. opts' = opts /\ answer' = answer /\ Streams' = Streams /\ SaidAll' = SaidAll
    BY DEF opts, answer, Streams, SaidAll
<1>2. said' \in SaidType /\ acc' \in AccType /\ SaidOK' /\ Tracked'
    BY <1>1 DEF ModelInv, ModelTypes, SaidOK, Tracked, TrackerOf
<1>3. CASE opts.api = "stream"
    <2>1. StreamTold
        BY <1>3 DEF ModelInv, AccOK
    <2>2. StreamTold'
        BY <1>1, <2>1 DEF StreamTold, InputTold, AsTold
    <2> QED  BY <1>1, <1>2, <1>3, <2>2 DEF AccOK
<1>4. CASE opts.api = "streamObject"
    <2>1. ObjectTold
        BY <1>4 DEF ModelInv, AccOK
    <2>2. ObjectTold'
        BY <1>1, <2>1 DEF ObjectTold
    <2> QED  BY <1>1, <1>2, <1>4, <2>2 DEF AccOK
<1> QED  BY <1>3, <1>4 DEF Streams

LEMMA TrackerPublished ==
    ASSUME ModelInv
    PROVE  tracker.published \in Nat
<1>1. NoTracker.published = 0
    BY DEF NoTracker
<1>2. acc.text \in Seq(STRING) /\ Tracked
    BY DEF ModelInv, ModelTypes, AccType
<1>3. TrackerOf(acc.text).published \in Nat
    BY <1>2, TrackerFields
<1> QED  BY <1>1, <1>2, <1>3 DEF Tracked

LEMMA OpenKeeps ==
    ASSUME ModelInv, OpenStream
    PROVE  ModelInv'
<1> DEFINE parts == IF opts.api = "streamObject" THEN <<Plain("stream-start")>> ELSE <<>>
<1>1. /\ at = "calling" /\ Streams /\ ask' = ask /\ said' = said /\ acc' = acc
      /\ tracker' = tracker /\ Relays(parts, "reading") /\ opts.api # "generateObject"
    BY DEF OpenStream, Streams
<1>2. ModelTypes /\ LanesOK /\ opts.lane \in {"text", "object"}
    BY AskFacts DEF ModelInv, ModelTypes
<1>3. said' \in SaidType /\ acc' \in AccType /\ SaidOK' /\ AccOK' /\ Tracked'
    BY <1>1, SameAnswer
<1>4. LastValue = tracker.last
    BY <1>1 DEF LastValue
<1>5. ASSUME RelayEnabled
      PROVE  Fine(AcceptAll(lanes, parts), acc.reasoning, acc.text, tracker.last, tracker.published)
    <2>1. Fine(lanes, acc.reasoning, acc.text, tracker.last, tracker.published)
        BY <1>1, <1>2, <1>4, <1>5, ShownNow
    <2>2. CASE opts.api = "streamObject"
        <3>1. AcceptAll(lanes, <<Plain("stream-start")>>) = AcceptPart(lanes, Plain("stream-start"))
            BY AcceptOne
        <3>2. Fine(AcceptPart(lanes, Plain("stream-start")), acc.reasoning, acc.text,
                   tracker.last, tracker.published)
            BY <1>2, <2>1, TrackerPublished, ShowPlain DEF Plain
        <3> QED  BY <2>2, <3>1, <3>2
    <2>3. CASE opts.api # "streamObject"
        BY <2>1, <2>3, AcceptNone
    <2> QED  BY <2>2, <2>3
<1>6. RelayEnabled => Fine(AcceptAll(lanes, parts), acc'.reasoning, acc'.text,
                           tracker'.last, tracker'.published)
    BY <1>1, <1>5
<1> HIDE DEF parts
<1> QED  BY <1>1, <1>2, <1>3, <1>6, ReadingStep

\* The text of an object, and its finish.
LEMMA ObjectPartKeeps ==
    ASSUME ModelInv, ReceiveObjectPart
    PROVE  ModelInv'
<1>1. /\ at = "reading" /\ opts.api = "streamObject" /\ ask' = ask
      /\ ModelTypes /\ LanesOK /\ ObjectTold /\ Tracked /\ SaidOK
      /\ ask \in Asks /\ said \in SaidType /\ acc \in AccType
    BY DEF ModelInv, ModelTypes, AccOK, ReceiveObjectPart
<1>2. opts.lane \in {"text", "object"} /\ answer.text \in Seq(STRING)
    BY <1>1, AskFacts
<1>3. opts' = opts /\ answer' = answer /\ Streams /\ Streams'
    BY <1>1 DEF opts, answer, Streams
<1>4. tracker.published \in Nat
    BY TrackerPublished
<1>5. LastValue = tracker.last
    BY <1>1 DEF LastValue
<1>6. RelayEnabled => Fine(lanes, acc.reasoning, acc.text, tracker.last, tracker.published)
    BY <1>1, <1>5, ShownNow
<1>7. CASE \E d \in Deltas(answer.text, said.text) :
              LET e == Enriched(TextDelta(d)) IN
              /\ said.finish = 0
              /\ said' = [said EXCEPT !.text = @ + Len(d)]
              /\ tracker' = e.tracker
              /\ acc' = Fold(acc, TextDelta(d))
              /\ Relays(ObjectParts(e), "reading")
    <2>1. PICK d \in Deltas(answer.text, said.text) :
              /\ said.finish = 0
              /\ said' = [said EXCEPT !.text = @ + Len(d)]
              /\ tracker' = Enriched(TextDelta(d)).tracker
              /\ acc' = Fold(acc, TextDelta(d))
              /\ Relays(ObjectParts(Enriched(TextDelta(d))), "reading")
        BY <1>7
    <2> DEFINE n == said.text
               m == n + Len(d)
               new == SubSeq(answer.text, 1, m)
               e == Enriched(TextDelta(d))
    <2>2. n \in 0..Len(answer.text) /\ acc.text = SubSeq(answer.text, 1, n)
        BY <1>1, <1>2 DEF SaidType, SaidOK, ObjectTold
    <2>3. d \in Seq(STRING) /\ m \in 0..Len(answer.text) /\ acc.text \o d = new /\ new \in Seq(STRING)
        BY <1>2, <2>2, PrefixGrows
    <2>4. TextEnriched(e, d, acc.text, new)
        BY <1>1, <1>3, <2>2, EnrichedText
    <2>5. Folded(acc', acc.reasoning, acc.text \o d, acc.inputs, acc.content, acc.file)
        BY <1>1, <2>1, <2>3, FoldDelta DEF TextDelta
    <2>6. acc' \in AccType /\ acc'.reasoning = acc.reasoning /\ acc'.text = new
          /\ acc'.content = acc.content
        BY <2>3, <2>5 DEF Folded
    <2>7. said' = [said EXCEPT !.text = m] /\ m \in Nat /\ said.finish = 0
        BY <2>1, <2>3
    <2> DEFINE parts == ObjectParts(e)
    <2>8. Relays(parts, "reading") /\ tracker' = e.tracker
        BY <2>1
    <2>9. RelayEnabled => Fine(AcceptAll(lanes, parts), acc.reasoning, new,
                               e.tracker.last, e.tracker.published)
        BY <1>2, <1>4, <1>6, <2>3, <2>4, ObjectBatch
    <2>t. tracker' = IF opts.json THEN TrackerOf(new) ELSE NoTracker
        BY <2>4, <2>8 DEF TextEnriched
    <2>a. acc'.text = SubSeq(answer'.text, 1, m)
        BY <1>3, <2>6
    <2> HIDE DEF m, new, parts, e
    <2>10. SaidNow(said.reasoning, m, said.inputs, said.ends, said.calls, said.file, 0)
        BY <1>1, <2>7 DEF SaidNow, SaidType
    <2>11. SaidOK'
        BY <1>1, <1>3, <2>3, <2>10 DEF SaidNow, SaidOK, SaidAll
    <2>12. AccOK'
        <3>1. ObjectTold'
            BY <1>1, <2>6, <2>10, <2>a DEF SaidNow, ObjectTold
        <3> QED  BY <1>1, <1>3, <3>1 DEF AccOK
    <2>13. Tracked'
        <3>1. tracker' = IF Streams' /\ opts'.json THEN TrackerOf(acc'.text) ELSE NoTracker
            BY <1>3, <2>6, <2>t
        <3> QED  BY <3>1 DEF Tracked, TrackerOf
    <2>14. RelayEnabled => Fine(AcceptAll(lanes, parts), acc'.reasoning, acc'.text,
                                tracker'.last, tracker'.published)
        BY <2>6, <2>8, <2>9
    <2>15. said' \in SaidType /\ opts.api # "generateObject"
        BY <1>1, <2>10 DEF SaidNow
    <2> QED  BY <1>1, <2>6, <2>8, <2>11, <2>12, <2>13, <2>14, <2>15, ReadingStep
<1>8. CASE /\ said.text = Len(answer.text) /\ said.finish < 2
           /\ said' = [said EXCEPT !.finish = @ + 1]
           /\ Relays(IF said.finish = 0 THEN <<Plain("finish")>> ELSE <<>>, "reading")
           /\ UNCHANGED <<tracker, acc>>
    <2> DEFINE m == said.finish + 1
               parts == IF said.finish = 0 THEN <<Plain("finish")>> ELSE <<>>
    <2>1. /\ said' = [said EXCEPT !.finish = m] /\ m \in Nat /\ said.text = Len(answer.text)
          /\ acc' = acc /\ tracker' = tracker /\ Relays(parts, "reading")
        BY <1>1, <1>8 DEF SaidType
    <2>2. RelayEnabled => Fine(AcceptAll(lanes, parts), acc.reasoning, acc.text,
                               tracker.last, tracker.published)
        <3>1. CASE said.finish = 0
            <4>1. AcceptAll(lanes, <<Plain("finish")>>) = AcceptPart(lanes, Plain("finish"))
                BY AcceptOne
            <4>2. RelayEnabled => Fine(AcceptPart(lanes, Plain("finish")), acc.reasoning, acc.text,
                                       tracker.last, tracker.published)
                BY <1>2, <1>4, <1>6, ShowPlain DEF Plain
            <4> QED  BY <3>1, <4>1, <4>2
        <3>2. CASE said.finish # 0
            BY <1>6, <3>2, AcceptNone
        <3> QED  BY <3>1, <3>2
    <2> HIDE DEF m, parts
    <2>3. SaidNow(said.reasoning, said.text, said.inputs, said.ends, said.calls, said.file, m)
        BY <1>1, <2>1 DEF SaidNow, SaidType
    <2>4. SaidOK'
        BY <1>1, <1>3, <2>1, <2>3 DEF SaidNow, SaidOK, SaidAll
    <2>5. AccOK'
        <3>1. ObjectTold'
            BY <1>1, <1>3, <2>1, <2>3 DEF SaidNow, ObjectTold
        <3> QED  BY <1>1, <1>3, <3>1 DEF AccOK
    <2>6. Tracked'
        BY <1>1, <1>3, <2>1 DEF Tracked, TrackerOf
    <2>7. said' \in SaidType /\ acc' \in AccType /\ opts.api # "generateObject"
        BY <1>1, <2>1, <2>3 DEF SaidNow
    <2>8. RelayEnabled => Fine(AcceptAll(lanes, parts), acc'.reasoning, acc'.text,
                               tracker'.last, tracker'.published)
        BY <2>1, <2>2
    <2> QED  BY <1>1, <2>1, <2>4, <2>5, <2>6, <2>7, <2>8, ReadingStep
<1> QED  BY <1>7, <1>8 DEF ReceiveObjectPart

\* An element is taken from the other channel.
LEMMA ElementKeeps ==
    ASSUME ModelInv, ReceiveElement
    PROVE  ModelInv'
<1> DEFINE x == FinalElements(tracker.text)[Len(acc.elements) + 1]
           elements == Append(acc.elements, x)
<1>1. /\ at = "reading" /\ opts.api = "streamObject" /\ Len(acc.elements) < tracker.published
      /\ acc' = [acc EXCEPT !.elements = elements]
      /\ UNCHANGED <<ask, at, said, tracker, lanes, relay, result>>
    BY DEF ReceiveElement
<1>2. /\ ModelTypes /\ LanesOK /\ ObjectTold /\ Tracked /\ SaidOK /\ acc \in AccType
    BY <1>1 DEF ModelInv, ModelTypes, AccOK
<1>3. acc.text \in Seq(STRING) /\ acc.elements \in Seq(Elements)
    BY <1>2 DEF AccType
<1>4. x \in Elements
    <2>1. tracker # NoTracker /\ tracker.published # 0
        BY <1>1, <1>3, LenProperties DEF NoTracker
    <2>2. tracker = TrackerOf(acc.text) /\ IsJSON(acc.text)
        BY <1>2, <2>1 DEF Tracked, TrackerOf
    <2>3. tracker.text = acc.text /\ tracker.published = Len(FinalElements(acc.text))
        BY <1>3, <2>2, TrackerFields
    <2>4. FinalElements(acc.text) \in Seq(Elements)
        BY <1>3, <2>2, FinalShape DEF IsJSON
    <2>5. Len(acc.elements) + 1 \in 1..Len(FinalElements(acc.text))
        BY <1>1, <1>3, <2>3, <2>4, LenProperties
    <2> QED  BY <2>3, <2>4, <2>5
<1> HIDE DEF x
<1>5. elements \in Seq(Elements)
    BY <1>3, <1>4, AppendProperties
<1> HIDE DEF elements
<1>6. /\ acc' \in AccType /\ acc'.text = acc.text /\ acc'.reasoning = acc.reasoning
      /\ acc'.content = acc.content
    BY <1>1, <1>2, <1>5 DEF AccType
<1>7. /\ opts' = opts /\ answer' = answer /\ Streams' = Streams /\ RelayEnabled' = RelayEnabled
      /\ SaidAll' = SaidAll
    BY <1>1 DEF opts, answer, Streams, RelayEnabled, SaidAll
<1>8. LastValue' = LastValue
    BY <1>1, <1>7 DEF LastValue
<1>9. ModelTypes' /\ SaidOK' /\ Tracked'
    BY <1>1, <1>2, <1>6, <1>7 DEF ModelTypes, SaidOK, Tracked, TrackerOf
<1>10. AccOK'
    <2>1. ObjectTold'
        BY <1>1, <1>2, <1>6, <1>7 DEF ObjectTold
    <2> QED  BY <1>1, <1>7, <2>1 DEF AccOK
<1>11. LanesOK'
    <2>1. RelayEnabled /\ at # "failed" =>
             Shows(lanes, acc.reasoning, acc.text, LastValue, tracker.published)
        BY <1>2 DEF LanesOK
    <2>2. RelayEnabled' /\ at' # "failed" =>
             Shows(lanes, acc.reasoning, acc.text, LastValue, tracker.published)'
        BY <1>1, <1>6, <1>7, <1>8, <2>1 DEF Shows
    <2> QED  BY <1>1, <1>2, <2>2 DEF LanesOK, ElementsAreFinal
<1>12. Unasked' /\ at' # "returned"
    BY <1>1 DEF Unasked
<1> QED  BY <1>9, <1>10, <1>11, <1>12 DEF ModelInv
-----------------------------------------------------------------------------
(* The parts of a whole answer.                                            *)

\* There is one chain of lanes through a batch.
LEMMA ChainIsOne ==
    ASSUME NEW ls, NEW parts, Len(parts) \in Nat, NEW g, NEW h,
           Chain(g, ls, parts), Chain(h, ls, parts)
    PROVE  \A n \in 0..Len(parts) : g[n] = h[n]
<1> DEFINE T == {n \in 0..Len(parts) : g[n] = h[n]}
<1>1. 0 \in T
    BY DEF Chain
<1>2. ASSUME NEW n \in 1..Len(parts), n - 1 \in T PROVE n \in T
    BY <1>2 DEF Chain
<1>3. \A n \in 1..Len(parts) : n - 1 \in T => n \in T
    BY <1>2
<1> HIDE DEF T
<1>4. \A n \in 0..Len(parts) : n \in T
    BY <1>1, <1>3, IntervalInduction
<1> QED  BY <1>4 DEF T

\* A batch is accepted as its parts are.
LEMMA AcceptConcat ==
    ASSUME NEW ls, NEW S, NEW a \in Seq(S), NEW b \in Seq(S)
    PROVE  AcceptAll(ls, a \o b) = AcceptAll(AcceptAll(ls, a), b)
<1> DEFINE c == a \o b
           i == Len(a)
           j == Len(b)
<1>1. i \in Nat /\ j \in Nat /\ Len(c) = i + j
    BY HeadAndExtras
<1>2. \A n \in 1..i : c[n] = a[n]
    BY HeadAndExtras
<1>3. \A n \in 1..j : c[i + n] = b[n]
    BY HeadAndExtras
<1> HIDE DEF c
<1>4. PICK g : Chain(g, ls, c) /\ AcceptAll(ls, c) = g[Len(c)]
    BY <1>1, AcceptAllChain
<1>5. PICK h : Chain(h, ls, a) /\ AcceptAll(ls, a) = h[Len(a)]
    BY <1>1, AcceptAllChain
<1>6. PICK k : Chain(k, AcceptAll(ls, a), b) /\ AcceptAll(AcceptAll(ls, a), b) = k[Len(b)]
    BY <1>1, AcceptAllChain
<1>7. Chain(g, ls, a)
    <2>1. \A n \in 1..i : n \in 1..Len(c)
        <3> DEFINE l == Len(c)
        <3>1. l = i + j
            BY <1>1
        <3> HIDE DEF l, i, j
        <3> QED  BY <1>1, <3>1 DEF l
    <2> QED  BY <1>2, <1>4, <2>1 DEF Chain
<1>8. g[i] = h[i]
    <2>1. \A n \in 0..Len(a) : g[n] = h[n]
        BY <1>1, <1>5, <1>7, ChainIsOne
    <2> QED  BY <1>1, <2>1
<1> DEFINE f == [n \in 0..j |-> g[i + n]]
<1>9. Chain(f, AcceptAll(ls, a), b)
    <2>1. f[0] = AcceptAll(ls, a)
        <3>1. f[0] = g[i + 0] /\ i + 0 = i
            BY <1>1
        <3> QED  BY <1>5, <1>8, <3>1
    <2>2. ASSUME NEW n \in 1..j PROVE f[n] = AcceptPart(f[n - 1], b[n])
        <3> DEFINE m == i + n
                   o == i + (n - 1)
                   l == Len(c)
        <3>1. /\ l = i + j
              /\ n \in 0..j /\ n - 1 \in 0..j /\ f[n] = g[m] /\ f[n - 1] = g[o] /\ m - 1 = o
            BY <1>1
        <3>a. m \in 1..l
            <4> HIDE DEF l, i, j
            <4> QED  BY <1>1, <3>1
        <3>2. c[m] = b[n]
            BY <1>3
        <3> HIDE DEF m, o, l, f
        <3>3. g[m] = AcceptPart(g[m - 1], c[m])
            BY <1>4, <3>a DEF Chain, l
        <3> QED  BY <3>1, <3>2, <3>3
    <2> HIDE DEF f
    <2> QED  BY <2>1, <2>2 DEF Chain
<1>10. k[j] = f[j] /\ f[j] = g[i + j]
    <2>1. f[j] = g[i + j]
        BY <1>1
    <2> HIDE DEF f
    <2>2. \A n \in 0..Len(b) : k[n] = f[n]
        BY <1>1, <1>6, <1>9, ChainIsOne
    <2> QED  BY <1>1, <2>1, <2>2
<1> QED  BY <1>1, <1>4, <1>6, <1>10 DEF c

\* The parts of a whole answer.
WholeTypes == {"stream-start", "reasoning-delta", "text-delta", "tool-call", "file", "finish"}
WireParts == [type : WholeTypes, call : CallIds \cup {Nothing}, data : Seq(STRING),
              value : Seq(Elements) \cup {Nothing}]

LEMMA CallsBatch ==
    ASSUME opts.lane \in {"text", "object"}, NEW ls, NEW r, NEW t, NEW l,
           Fine(ls, r, t, l, 0), NEW parts \in Seq(WireParts),
           \A i \in 1..Len(parts) : \E c \in CallIds, d \in Seq(STRING) :
              parts[i] = Part("tool-call", c, d, Nothing)
    PROVE  Fine(AcceptAll(ls, parts), r, t, l, 0)
<1>1. Len(parts) \in Nat
    OBVIOUS
<1>2. PICK g : Chain(g, ls, parts) /\ AcceptAll(ls, parts) = g[Len(parts)]
    BY <1>1, AcceptAllChain
<1> DEFINE T == {n \in 0..Len(parts) : Fine(g[n], r, t, l, 0)}
<1>3. 0 \in T
    BY <1>1, <1>2 DEF Chain
<1>4. ASSUME NEW n \in 1..Len(parts), n - 1 \in T PROVE n \in T
    <2>1. Fine(g[n - 1], r, t, l, 0) /\ g[n] = AcceptPart(g[n - 1], parts[n])
        BY <1>2, <1>4 DEF Chain
    <2>2. PICK c \in CallIds, d \in Seq(STRING) : parts[n] = Part("tool-call", c, d, Nothing)
        OBVIOUS
    <2> DEFINE old == g[n - 1]
    <2>3. Fine(old, r, t, l, 0) /\ 0 \in Nat
        BY <2>1
    <2> HIDE DEF old
    <2>4. Fine(AcceptPart(old, Part("tool-call", c, d, Nothing)), r, t, l, 0)
        BY <2>3, ShowCall
    <2>5. Fine(g[n], r, t, l, 0)
        BY <2>1, <2>2, <2>4 DEF old
    <2> QED  BY <2>5
<1>5. \A n \in 1..Len(parts) : n - 1 \in T => n \in T
    BY <1>4
<1> HIDE DEF T
<1>6. \A n \in 0..Len(parts) : n \in T
    BY <1>1, <1>3, <1>5, IntervalInduction
<1>7. Len(parts) \in T
    BY <1>1, <1>6
<1> QED  BY <1>2, <1>7 DEF T

\* The pieces of WholeParts, and what they are.
WholeText == Part("text-delta", Nothing, answer.text,
              IF opts.api = "generateObject" THEN Value(answer.text) ELSE Nothing)
StartPiece == <<Plain("stream-start")>>
ReasoningPiece == Unless(answer.reasoning = <<>>, <<ReasoningDelta(answer.reasoning)>>)
TextPiece == Unless(answer.text = <<>>, <<WholeText>>)
CallsPiece == [i \in DOMAIN answer.calls |->
                  Part("tool-call", answer.calls[i].id, answer.calls[i].input, Nothing)]
FilePiece == Unless(~answer.file, <<Plain("file")>>)
FinishPiece == <<Plain("finish")>>

LEMMA WirePart ==
    ASSUME NEW type \in WholeTypes, NEW call, call = Nothing \/ call \in CallIds,
           NEW data \in Seq(STRING), NEW value, value = Nothing \/ value \in Seq(Elements)
    PROVE  Part(type, call, data, value) \in WireParts
<1> DEFINE V == Seq(Elements) \cup {Nothing}
           C == CallIds \cup {Nothing}
           D == Seq(STRING)
<1>1. value \in V /\ call \in C /\ data \in D
    OBVIOUS
<1> HIDE DEF V, C, D
<1>2. Part(type, call, data, value) \in [type : WholeTypes, call : C, data : D, value : V]
    BY <1>1 DEF Part
<1> QED  BY <1>2 DEF WireParts, V, C, D

LEMMA PieceTypes ==
    ASSUME ask \in Asks
    PROVE  /\ StartPiece \in Seq(WireParts) /\ ReasoningPiece \in Seq(WireParts)
           /\ TextPiece \in Seq(WireParts) /\ CallsPiece \in Seq(WireParts)
           /\ FilePiece \in Seq(WireParts) /\ FinishPiece \in Seq(WireParts)
           /\ \A i \in 1..Len(CallsPiece) : \E c \in CallIds, d \in Seq(STRING) :
                 CallsPiece[i] = Part("tool-call", c, d, Nothing)
<1>1. /\ answer.reasoning \in Seq(STRING) /\ answer.text \in Seq(STRING)
      /\ Value(answer.text) \in Seq(Elements) /\ <<>> \in Seq(STRING)
    BY AskFacts, ValueType
<1>2. /\ Plain("stream-start") \in WireParts /\ Plain("finish") \in WireParts
      /\ Plain("file") \in WireParts
    BY <1>1, WirePart DEF Plain, WholeTypes
<1>3. ReasoningDelta(answer.reasoning) \in WireParts
    BY <1>1, WirePart DEF ReasoningDelta, WholeTypes
<1>4. WholeText \in WireParts
    <2> DEFINE v == IF opts.api = "generateObject" THEN Value(answer.text) ELSE Nothing
    <2>1. v = Nothing \/ v \in Seq(Elements)
        BY <1>1
    <2> HIDE DEF v
    <2>2. Part("text-delta", Nothing, answer.text, v) \in WireParts
        BY <1>1, <2>1, WirePart DEF WholeTypes
    <2> QED  BY <2>2 DEF WholeText, v
<1>5. \A i \in DOMAIN answer.calls :
         Part("tool-call", answer.calls[i].id, answer.calls[i].input, Nothing) \in WireParts
    <2> SUFFICES ASSUME NEW i \in DOMAIN answer.calls
                 PROVE  Part("tool-call", answer.calls[i].id, answer.calls[i].input, Nothing) \in WireParts
        OBVIOUS
    <2>1. answer.calls[i].id \in CallIds /\ answer.calls[i].input \in Seq(STRING)
        BY AskFacts
    <2> QED  BY <2>1, WirePart DEF WholeTypes
<1>6. Len(answer.calls) \in Nat /\ DOMAIN answer.calls = 1..Len(answer.calls)
    BY AskFacts
<1>7. CallsPiece \in Seq(WireParts) /\ Len(CallsPiece) = Len(answer.calls)
    <2> DEFINE N == Len(answer.calls)
               F(i) == Part("tool-call", answer.calls[i].id, answer.calls[i].input, Nothing)
    <2>1. N \in Nat /\ \A i \in 1..N : F(i) \in WireParts
        BY <1>5, <1>6
    <2>2. CallsPiece = [i \in 1..N |-> F(i)]
        BY <1>6 DEF CallsPiece
    <2> HIDE DEF F, N
    <2>3. CallsPiece \in Seq(WireParts) /\ Len(CallsPiece) = N
        BY <2>1, <2>2
    <2> QED  BY <2>3 DEF N
<1>8. \A i \in 1..Len(CallsPiece) : \E c \in CallIds, d \in Seq(STRING) :
         CallsPiece[i] = Part("tool-call", c, d, Nothing)
    <2> SUFFICES ASSUME NEW i \in 1..Len(answer.calls)
                 PROVE  \E c \in CallIds, d \in Seq(STRING) :
                           CallsPiece[i] = Part("tool-call", c, d, Nothing)
        BY <1>7
    <2>1. answer.calls[i].id \in CallIds /\ answer.calls[i].input \in Seq(STRING)
        BY <1>6, AskFacts
    <2>2. CallsPiece[i] = Part("tool-call", answer.calls[i].id, answer.calls[i].input, Nothing)
        BY <1>6 DEF CallsPiece
    <2> QED  BY <2>1, <2>2
<1>9. /\ StartPiece \in Seq(WireParts) /\ FinishPiece \in Seq(WireParts)
      /\ FilePiece \in Seq(WireParts)
    <2>1. \A w \in WireParts : <<w>> \in Seq(WireParts)
        OBVIOUS
    <2>2. <<>> \in Seq(WireParts)
        OBVIOUS
    <2> QED  BY <1>2, <2>1, <2>2 DEF StartPiece, FinishPiece, FilePiece, Unless
<1>10. ReasoningPiece \in Seq(WireParts) /\ TextPiece \in Seq(WireParts)
    BY <1>3, <1>4 DEF ReasoningPiece, TextPiece, Unless
<1> QED  BY <1>7, <1>8, <1>9, <1>10

LEMMA WholeBatch ==
    ASSUME ask \in Asks, NEW ls, Fine(ls, <<>>, <<>>, Nothing, 0)
    PROVE  Fine(AcceptAll(ls, WholeParts), answer.reasoning, answer.text,
                IF opts.api = "generateObject" /\ answer.text # <<>> THEN Value(answer.text)
                ELSE Nothing, 0)
<1> DEFINE r == answer.reasoning
           t == answer.text
           v == IF opts.api = "generateObject" /\ answer.text # <<>> THEN Value(answer.text)
                ELSE Nothing
           p1 == StartPiece
           p2 == p1 \o ReasoningPiece
           p3 == p2 \o TextPiece
           p4 == p3 \o CallsPiece
           p5 == p4 \o FilePiece
           p6 == p5 \o FinishPiece
<1>1. WholeParts = p6
    BY DEF WholeParts, StartPiece, ReasoningPiece, TextPiece, CallsPiece, FilePiece, FinishPiece, WholeText
<1>2. opts.lane \in {"text", "object"} /\ r \in Seq(STRING) /\ t \in Seq(STRING)
      /\ Value(t) \in Seq(Elements)
    BY AskFacts, ValueType
<1>3. /\ StartPiece \in Seq(WireParts) /\ ReasoningPiece \in Seq(WireParts)
      /\ TextPiece \in Seq(WireParts) /\ CallsPiece \in Seq(WireParts)
      /\ FilePiece \in Seq(WireParts) /\ FinishPiece \in Seq(WireParts)
    BY PieceTypes
<1> HIDE DEF p1, p2, p3, p4, p5, p6, v
<1>4. p1 \in Seq(WireParts) /\ p2 \in Seq(WireParts) /\ p3 \in Seq(WireParts)
    BY <1>3, ConcatProperties DEF p1, p2, p3
<1>5. p4 \in Seq(WireParts) /\ p5 \in Seq(WireParts)
    BY <1>3, <1>4, ConcatProperties DEF p4, p5
<1>6. Fine(AcceptAll(ls, p1), <<>>, <<>>, Nothing, 0)
    <2>1. Fine(AcceptPart(ls, Plain("stream-start")), <<>>, <<>>, Nothing, 0)
        BY <1>2, ShowPlain DEF Plain
    <2> QED  BY <2>1, AcceptOne DEF p1, StartPiece
<1>7. Fine(AcceptAll(ls, p2), r, <<>>, Nothing, 0)
    <2> DEFINE old == AcceptAll(ls, p1)
    <2>1. AcceptAll(ls, p2) = AcceptAll(old, ReasoningPiece)
        BY <1>3, <1>4, AcceptConcat DEF p2
    <2>2. Fine(old, <<>>, <<>>, Nothing, 0) /\ 0 \in Nat
        BY <1>6
    <2> HIDE DEF old
    <2>3. CASE r = <<>>
        <3>1. ReasoningPiece = <<>>
            BY <2>3 DEF ReasoningPiece, Unless
        <3> QED  BY <2>1, <2>2, <2>3, <3>1, AcceptNone
    <2>4. CASE r # <<>>
        <3>1. ReasoningPiece = <<ReasoningDelta(r)>>
            BY <2>4 DEF ReasoningPiece, Unless
        <3>2. Fine(AcceptPart(old, ReasoningDelta(r)), <<>> \o r, <<>>, Nothing, 0)
            BY <1>2, <2>2, ShowReasoning
        <3>3. <<>> \o r = r
            BY <1>2, ConcatEmptySeq
        <3> QED  BY <2>1, <3>1, <3>2, <3>3, AcceptOne
    <2> QED  BY <2>3, <2>4
<1>8. Fine(AcceptAll(ls, p3), r, t, v, 0)
    <2> DEFINE old == AcceptAll(ls, p2)
    <2>1. AcceptAll(ls, p3) = AcceptAll(old, TextPiece)
        BY <1>3, <1>4, AcceptConcat DEF p3
    <2>2. Fine(old, r, <<>>, Nothing, 0) /\ 0 \in Nat
        BY <1>7
    <2> HIDE DEF old
    <2>3. CASE t = <<>>
        <3>1. TextPiece = <<>> /\ v = Nothing
            BY <2>3 DEF TextPiece, Unless, v
        <3> QED  BY <2>1, <2>2, <2>3, <3>1, AcceptNone
    <2>4. CASE t # <<>>
        <3> DEFINE u == IF opts.api = "generateObject" THEN Value(t) ELSE Nothing
        <3>1. TextPiece = <<Part("text-delta", Nothing, t, u)>> /\ v = u
            BY <2>4 DEF TextPiece, Unless, v, WholeText
        <3>2. u = Nothing \/ u \in Seq(Elements)
            BY <1>2
        <3> HIDE DEF u
        <3>3. Fine(AcceptPart(old, Part("text-delta", Nothing, t, u)), r, <<>> \o t,
                   IF u = Nothing THEN Nothing ELSE u, 0)
            BY <1>2, <2>2, <3>2, ShowText
        <3>4. <<>> \o t = t /\ (IF u = Nothing THEN Nothing ELSE u) = v
            BY <1>2, <3>1, ConcatEmptySeq
        <3> QED  BY <2>1, <3>1, <3>3, <3>4, AcceptOne
    <2> QED  BY <2>3, <2>4
<1>9. Fine(AcceptAll(ls, p4), r, t, v, 0)
    <2> DEFINE old == AcceptAll(ls, p3)
    <2>1. AcceptAll(ls, p4) = AcceptAll(old, CallsPiece)
        BY <1>3, <1>4, AcceptConcat DEF p4
    <2>2. Fine(old, r, t, v, 0)
        BY <1>8
    <2>3. \A i \in 1..Len(CallsPiece) : \E c \in CallIds, d \in Seq(STRING) :
             CallsPiece[i] = Part("tool-call", c, d, Nothing)
        BY PieceTypes
    <2> HIDE DEF old
    <2> QED  BY <1>2, <1>3, <2>1, <2>2, <2>3, CallsBatch
<1>10. Fine(AcceptAll(ls, p5), r, t, v, 0)
    <2> DEFINE old == AcceptAll(ls, p4)
    <2>1. AcceptAll(ls, p5) = AcceptAll(old, FilePiece)
        BY <1>3, <1>5, AcceptConcat DEF p5
    <2>2. Fine(old, r, t, v, 0) /\ 0 \in Nat
        BY <1>9
    <2> HIDE DEF old
    <2>3. Fine(AcceptPart(old, Plain("file")), r, t, v, 0)
        BY <1>2, <2>2, ShowPlain DEF Plain
    <2>4. FilePiece = <<>> \/ FilePiece = <<Plain("file")>>
        BY DEF FilePiece, Unless
    <2> QED  BY <2>1, <2>2, <2>3, <2>4, AcceptNone, AcceptOne
<1>11. Fine(AcceptAll(ls, p6), r, t, v, 0)
    <2> DEFINE old == AcceptAll(ls, p5)
    <2>1. AcceptAll(ls, p6) = AcceptAll(old, FinishPiece)
        BY <1>3, <1>5, AcceptConcat DEF p6
    <2>2. Fine(old, r, t, v, 0) /\ 0 \in Nat
        BY <1>10
    <2> HIDE DEF old
    <2>3. Fine(AcceptPart(old, Plain("finish")), r, t, v, 0)
        BY <1>2, <2>2, ShowPlain DEF Plain
    <2> QED  BY <2>1, <2>3, AcceptOne DEF FinishPiece
<1> QED  BY <1>1, <1>11 DEF v

LEMMA AnswersKeeps ==
    ASSUME ModelInv, AnswersAtOnce
    PROVE  ModelInv'
<1>1. /\ at = "calling" /\ ~Streams /\ ask' = ask /\ said' = said /\ tracker' = tracker
      /\ acc' = WholeAnswer /\ Relays(WholeParts, "closing")
    BY DEF AnswersAtOnce
<1>2. /\ ModelTypes /\ LanesOK /\ SaidOK /\ ask \in Asks /\ said \in SaidType
      /\ acc = NoAcc /\ tracker = NoTracker
    BY <1>1 DEF ModelInv, ModelTypes, Unasked
<1>3. /\ opts' = opts /\ answer' = answer /\ Streams' = Streams /\ SaidAll' = SaidAll
      /\ WholeAnswer' = WholeAnswer
    BY <1>1 DEF opts, answer, Streams, SaidAll, WholeAnswer
<1>4. /\ answer.reasoning \in Seq(STRING) /\ answer.text \in Seq(STRING)
      /\ answer.calls \in Seq(Calls) /\ answer.file \in BOOLEAN /\ opts.api \in Apis
    BY <1>2, AskFacts
<1>5. /\ WholeAnswer \in AccType /\ WholeAnswer.text = answer.text
      /\ WholeAnswer.reasoning = answer.reasoning
    <2> DEFINE none == [c \in CallIds |-> <<>>]
    <2>1. none \in [CallIds -> Seq(STRING)]
        OBVIOUS
    <2>a. NoAcc = [reasoning |-> <<>>, text |-> <<>>, inputs |-> none, content |-> <<>>,
                   file |-> FALSE, elements |-> <<>>, seen |-> FALSE]
        BY DEF NoAcc
    <2> HIDE DEF none
    <2> DEFINE r == answer.reasoning
               t == answer.text
               c == answer.calls
               f == answer.file
    <2>b. WholeAnswer = [NoAcc EXCEPT !.reasoning = r, !.text = t, !.content = c, !.file = f]
        BY DEF WholeAnswer
    <2> HIDE DEF r, t, c, f
    <2>c. WholeAnswer = [reasoning |-> r, text |-> t, inputs |-> none, content |-> c,
                         file |-> f, elements |-> <<>>, seen |-> FALSE]
        BY <2>a, <2>b
    <2>2. WholeAnswer = [reasoning |-> answer.reasoning, text |-> answer.text,
                         inputs |-> none, content |-> answer.calls,
                         file |-> answer.file, elements |-> <<>>, seen |-> FALSE]
        BY <2>c DEF r, t, c, f
    <2>3. <<>> \in Seq(Elements)
        OBVIOUS
    <2>4. WholeAnswer \in AccType
        BY <1>4, <2>1, <2>2, <2>3 DEF AccType
    <2> QED  BY <2>2, <2>4
<1>6. AccOK'
    <2>1. WholeTold'
        BY <1>1, <1>3 DEF WholeTold
    <2>2. opts.api \notin {"stream", "streamObject"}
        BY <1>1 DEF Streams
    <2> QED  BY <1>3, <2>1, <2>2 DEF AccOK
<1>7. SaidOK'
    BY <1>1, <1>2, <1>3 DEF SaidOK
<1>8. Tracked'
    BY <1>1, <1>2, <1>3 DEF Tracked
<1> DEFINE v == IF opts.api = "generateObject" /\ answer.text # <<>> THEN Value(answer.text)
                ELSE Nothing
           r == answer.reasoning
           t == answer.text
<1>9. LastValue' = v
    <2>1. LastValue' = IF opts.api = "generateObject"
                       THEN IF answer.text = <<>> THEN Nothing ELSE Value(answer.text)
                       ELSE NoTracker.last
        BY <1>1, <1>2, <1>3, <1>5 DEF LastValue
    <2> QED  BY <2>1 DEF NoTracker
<1>10. RelayEnabled => Fine(AcceptAll(lanes, WholeParts), r, t, v, 0)
    <2> SUFFICES ASSUME RelayEnabled PROVE Fine(AcceptAll(lanes, WholeParts), r, t, v, 0)
        OBVIOUS
    <2>1. Fine(lanes, acc.reasoning, acc.text, LastValue, tracker.published)
        BY <1>1, <1>2, ShownNow
    <2>2. /\ acc.reasoning = <<>> /\ acc.text = <<>> /\ LastValue = Nothing
          /\ tracker.published = 0
        BY <1>2 DEF NoAcc, NoTracker, LastValue
    <2>3. Fine(lanes, <<>>, <<>>, Nothing, 0)
        BY <2>1, <2>2
    <2> QED  BY <1>2, <2>3, WholeBatch
<1> HIDE DEF v, r, t
<1>11. /\ lanes' \in [LaneKeys -> LaneType]
       /\ \A k \in LaneKeys : lanes'[k].begun \/ lanes'[k] = NoLane
       /\ ElementsAreFinal'
       /\ RelayEnabled' /\ at' # "failed" => Shows(lanes', r, t, v, 0)
       /\ at' \in {"closing", "failed"}
    BY <1>1, <1>2, <1>10, RelayStep
<1>12. LanesOK'
    <2>1. Shows(lanes', r, t, v, 0) =>
             Shows(lanes, acc.reasoning, acc.text, LastValue, tracker.published)'
        <3>1. acc'.reasoning = r /\ acc'.text = t /\ tracker'.published = 0
            BY <1>1, <1>2, <1>5 DEF r, t, NoTracker
        <3> QED  BY <1>3, <1>9, <3>1 DEF Shows
    <2> QED  BY <1>11, <2>1 DEF LanesOK
<1>13. ModelTypes'
    BY <1>1, <1>2, <1>5, <1>11 DEF ModelTypes
<1>14. Unasked' /\ at' # "returned"
    BY <1>11 DEF Unasked
<1> QED  BY <1>6, <1>7, <1>8, <1>12, <1>13, <1>14 DEF ModelInv

-----------------------------------------------------------------------------
(* What is returned.                                                       *)

\* At its end an activity has told the answer, as far as it was said.
ToldAtEnd ==
    /\ acc.content \in Seq(Calls)
    /\ \A i \in DOMAIN acc.content :
          /\ i \in DOMAIN answer.calls
          /\ acc.content[i].id = answer.calls[i].id
          /\ acc.content[i].input = answer.calls[i].input
    /\ Finished =>
          /\ acc.text = answer.text
          /\ opts.api # "streamObject" =>
                /\ acc.reasoning = answer.reasoning
                /\ acc.file = answer.file
                /\ Len(acc.content) = Len(answer.calls)
                /\ \A i \in DOMAIN answer.calls :
                      /\ acc.content[i].id = answer.calls[i].id
                      /\ acc.content[i].input = answer.calls[i].input

LEMMA AnswerTold ==
    ASSUME ModelInv, at = "closing"
    PROVE  ToldAtEnd
<1>1. /\ ModelTypes /\ SaidOK /\ AccOK /\ ask \in Asks /\ acc \in AccType /\ said \in SaidType
    BY DEF ModelInv, ModelTypes
<1>2. /\ answer.reasoning \in Seq(STRING) /\ answer.text \in Seq(STRING)
      /\ answer.calls \in Seq(Calls) /\ Len(answer.calls) \in Nat
      /\ DOMAIN answer.calls = 1..Len(answer.calls)
    BY <1>1, AskFacts
<1>3. acc.content \in Seq(Calls) /\ DOMAIN acc.content = 1..Len(acc.content)
    BY <1>1, LenProperties DEF AccType
<1>4. CASE opts.api = "stream"
    <2>1. StreamTold
        BY <1>1, <1>4 DEF AccOK
    <2>2. ASSUME NEW i \in 1..said.calls
          PROVE  /\ i \in DOMAIN answer.calls
                 /\ acc.content[i].id = answer.calls[i].id
                 /\ acc.content[i].input = answer.calls[i].input
        <3>1. acc.content[i] = AsTold(answer.calls[i])
            BY <2>1 DEF StreamTold
        <3>2. said.calls \in Nat /\ said.calls <= Len(answer.calls)
            BY <1>1 DEF SaidType, SaidOK
        <3> QED  BY <1>2, <3>1, <3>2 DEF AsTold
    <2>3. Len(acc.content) = said.calls
        BY <2>1 DEF StreamTold
    <2>4. ASSUME Finished
          PROVE  SaidAll
        <3>1. said.finish > 0
            BY <1>4, <2>4 DEF Finished, Streams
        <3> QED  BY <1>1, <1>4, <3>1 DEF SaidOK
    <2>5. ASSUME SaidAll
          PROVE  /\ acc.text = answer.text /\ acc.reasoning = answer.reasoning
                 /\ acc.file = answer.file /\ said.calls = Len(answer.calls)
        <3>1. acc.text = SubSeq(answer.text, 1, Len(answer.text))
            BY <2>1, <2>5 DEF StreamTold, SaidAll
        <3>2. acc.reasoning = SubSeq(answer.reasoning, 1, Len(answer.reasoning))
            BY <2>1, <2>5 DEF StreamTold, SaidAll
        <3>3. acc.file = answer.file /\ said.calls = Len(answer.calls)
            BY <2>1, <2>5 DEF StreamTold, SaidAll
        <3> QED  BY <1>2, <3>1, <3>2, <3>3, SubSeqFull
    <2> QED  BY <1>2, <1>3, <2>2, <2>3, <2>4, <2>5 DEF ToldAtEnd
<1>5. CASE opts.api = "streamObject"
    <2>1. ObjectTold
        BY <1>1, <1>5 DEF AccOK
    <2>2. DOMAIN acc.content = {}
        BY <2>1 DEF ObjectTold
    <2>3. Finished => acc.text = answer.text
        <3>1. Finished => said.text = Len(answer.text)
            BY <1>1, <1>5 DEF Finished, Streams, SaidOK
        <3> QED  BY <1>2, <2>1, <3>1, SubSeqFull DEF ObjectTold
    <2> QED  BY <1>3, <1>5, <2>2, <2>3 DEF ToldAtEnd
<1>6. CASE opts.api \notin {"stream", "streamObject"}
    <2>1. acc = WholeAnswer
        BY <1>1, <1>6 DEF AccOK, WholeTold
    <2>2. /\ acc.text = answer.text /\ acc.reasoning = answer.reasoning /\ acc.file = answer.file
          /\ acc.content = answer.calls
        BY <2>1 DEF WholeAnswer, NoAcc
    <2> QED  BY <1>2, <2>2 DEF ToldAtEnd
<1> QED  BY <1>4, <1>5, <1>6

\* The lanes that are ended show what is returned.
LEMMA LanesTell ==
    ASSUME ModelInv, at = "closing", RelayEnabled, NEW k \in Begun
    PROVE  LET shown == lanes[k]
               parsed == opts.api # "generate" /\ opts.json /\ IsJSON(acc.text)
           IN CASE k[1] = "reasoning" -> shown.text = acc.reasoning
                [] k[1] = "text" -> shown.text = acc.text
                [] k[1] = "object" /\ parsed ->
                      /\ TextLane = k => shown.object = Value(acc.text)
                      /\ Streams => shown.elements = FinalElements(acc.text)
                [] OTHER -> TRUE
<1>1. /\ Shows(lanes, acc.reasoning, acc.text, LastValue, tracker.published)
      /\ Tracked /\ ask \in Asks /\ acc \in AccType /\ opts.lane \in {"text", "object"}
      /\ opts.api \in Apis
    BY AskFacts DEF ModelInv, LanesOK, ModelTypes
<1>2. k \in LaneKeys /\ lanes[k].begun
    BY DEF Begun
<1>3. CASE k[1] = "reasoning"
    <2>1. k = ReasoningLane
        BY <1>2, <1>3 DEF LaneKeys, ReasoningLane, Lane
    <2>2. lanes[k].text = acc.reasoning
        BY <1>1, <2>1 DEF Shows
    <2> QED  BY <1>3, <2>2
<1>4. CASE k[1] = "text"
    <2>1. k = WordLane
        BY <1>2, <1>4 DEF LaneKeys, WordLane, Lane
    <2>2. lanes[k].text = acc.text
        BY <1>1, <1>2, <2>1 DEF Shows
    <2> QED  BY <1>4, <2>2
<1>5. CASE k[1] = "object" /\ opts.api # "generate" /\ opts.json /\ IsJSON(acc.text)
    <2>1. k = ObjectLane
        BY <1>2, <1>5 DEF LaneKeys, ObjectLane, Lane
    <2>2. acc.text \in Seq(STRING) /\ acc.text # <<>>
        BY <1>1, <1>5 DEF AccType, IsJSON
    <2>3. Streams => /\ tracker.last = Value(acc.text)
                     /\ tracker.published = Len(FinalElements(acc.text))
        BY <1>1, <1>5, <2>2, TrackerFields DEF Tracked
    <2>4. LastValue = Value(acc.text)
        <3>1. CASE opts.api = "generateObject"
            BY <2>2, <3>1 DEF LastValue
        <3>2. CASE opts.api # "generateObject"
            <4>1. Streams
                BY <1>1, <1>5, <3>2 DEF Apis, Streams
            <4> QED  BY <2>3, <3>2, <4>1 DEF LastValue
        <3> QED  BY <3>1, <3>2
    <2>5. TextLane = k => lanes[k].object = Value(acc.text)
        <3>1. TextLane = k => opts.lane = "object"
            BY <1>5 DEF TextLane, Lane
        <3> QED  BY <1>1, <2>1, <2>4, <3>1 DEF Shows
    <2>6. Streams => lanes[k].elements = FinalElements(acc.text)
        <3>1. FinalElements(acc.text) = FirstElements(Len(FinalElements(acc.text)))
            BY <2>2, FinalShape
        <3>2. lanes[k].elements = FirstElements(tracker.published)
            BY <1>1, <2>1 DEF Shows
        <3> QED  BY <2>3, <3>1, <3>2
    <2> QED  BY <1>5, <2>5, <2>6
<1> QED  BY <1>3, <1>4, <1>5

\* Both lanes of the message are relayed only if elements are relayed beside the text.
LEMMA BothLanes ==
    ASSUME ModelInv, at = "closing", RelayEnabled, lanes[ObjectLane].begun, lanes[WordLane].begun
    PROVE  /\ opts.lane = "text" /\ opts.json
           /\ IsJSON(acc.text) /\ FinalElements(acc.text) # <<>>
<1>1. /\ Shows(lanes, acc.reasoning, acc.text, LastValue, tracker.published)
      /\ Tracked /\ opts.lane \in {"text", "object"}
    BY AskFacts DEF ModelInv, LanesOK, ModelTypes
<1>2. opts.lane = "text" /\ tracker.published # 0
    BY <1>1 DEF Shows
<1>3. Streams /\ opts.json /\ tracker = TrackerOf(acc.text)
    BY <1>1, <1>2 DEF Tracked, NoTracker
<1>4. IsJSON(acc.text) /\ tracker.published = Len(FinalElements(acc.text))
    BY <1>2, <1>3 DEF TrackerOf
<1>5. FinalElements(acc.text) # <<>>
    BY <1>2, <1>4
<1> QED  BY <1>2, <1>3, <1>4, <1>5

LEMMA SucceedReturns ==
    ASSUME ModelInv, Succeed, at' = "returned"
    PROVE  Returned' /\ AllReceipts'
<1> DEFINE told(ended) ==
               [reasoning |-> acc.reasoning, text |-> acc.text, content |-> acc.content,
                file |-> acc.file, elements |-> acc.elements,
                receipts |-> [k \in ended |-> lanes[k]]]
<1>1. at = "closing" /\ UNCHANGED <<ask, said, acc, tracker, lanes>>
    BY DEF Succeed
<1>2. PICK ended \in SUBSET Begun :
         /\ result' = told(ended)
         /\ ended # {} => RelayEnabled
         /\ relay' = "on" /\ RelayEnabled => ended = Begun
         /\ relay' = relay \/ relay' = "off"
    <2>1. CASE Return(IF RelayEnabled THEN Begun ELSE {}) /\ UNCHANGED relay
        <3> DEFINE all == IF RelayEnabled THEN Begun ELSE {}
        <3>1. all \in SUBSET Begun /\ (all # {} => RelayEnabled) /\ (RelayEnabled => all = Begun)
            OBVIOUS
        <3>2. Return(all) /\ relay' = relay
            BY <2>1
        <3> HIDE DEF all
        <3>3. result' = told(all)
            BY <3>2 DEF Return
        <3> HIDE DEF told
        <3> QED  BY <3>1, <3>2, <3>3
    <2>2. CASE RelayEnabled /\ Begun # {} /\ at' = "failed" /\ UNCHANGED <<relay, result>>
        BY <2>2
    <2>3. CASE /\ RelayEnabled
               /\ \E ended \in EndsInOrder : Return(ended)
               /\ relay' = "off"
        <3>1. PICK ended \in EndsInOrder : Return(ended)
            BY <2>3
        <3>2. ended \in SUBSET Begun
            BY DEF EndsInOrder
        <3> QED  BY <2>3, <3>1, <3>2 DEF Return
    <2> QED  BY <2>1, <2>2, <2>3 DEF Succeed
<1>3. /\ opts' = opts /\ answer' = answer /\ Streams' = Streams /\ Finished' = Finished
      /\ TextLane' = TextLane
    BY <1>1 DEF opts, answer, Streams, Finished, TextLane
<1>4. /\ DOMAIN result' = {"reasoning", "text", "content", "file", "elements", "receipts"}
      /\ result'.reasoning = acc.reasoning /\ result'.text = acc.text
      /\ result'.content = acc.content /\ result'.file = acc.file
      /\ DOMAIN result'.receipts = ended
      /\ \A k \in ended : result'.receipts[k] = lanes[k]
    BY <1>2
<1> HIDE DEF told
<1>5. ToldAtEnd
    BY <1>1, AnswerTold
<1>6. ResultIsAnswer'
    BY <1>3, <1>4, <1>5 DEF ResultIsAnswer, ToldAtEnd
<1>7. ReceiptsTellMessage'
    <2>1. ASSUME NEW k \in ended
          PROVE  LET shown == result'.receipts[k]
                     parsed == opts.api # "generate" /\ opts.json /\ IsJSON(result'.text)
                 IN CASE k[1] = "reasoning" -> shown.text = result'.reasoning
                      [] k[1] = "text" -> shown.text = result'.text
                      [] k[1] = "object" /\ parsed ->
                            /\ TextLane = k => shown.object = Value(result'.text)
                            /\ Streams => shown.elements = FinalElements(result'.text)
                      [] OTHER -> TRUE
        <3>1. RelayEnabled /\ k \in Begun
            BY <1>2
        <3>2. result'.receipts[k] = lanes[k]
            BY <1>4
        <3> QED  BY <1>1, <1>4, <3>1, <3>2, LanesTell
    <2> QED  BY <1>3, <1>4, <2>1 DEF ReceiptsTellMessage
<1>8. Returned'
    <2>1. DOMAIN result'.receipts \subseteq LaneKeys
        BY <1>4 DEF Begun
    <2>2. /\ result'.content \in Seq(Calls)
          /\ \A i \in DOMAIN result'.content :
                /\ i \in DOMAIN answer.calls
                /\ result'.content[i].id = answer.calls[i].id
                /\ result'.content[i].input = answer.calls[i].input
        BY <1>4, <1>5 DEF ToldAtEnd
    <2>3. LanesApart'
        <3> SUFFICES ASSUME ObjectLane \in ended, WordLane \in ended
                     PROVE  /\ opts.lane = "text" /\ opts.json
                            /\ IsJSON(acc.text) /\ FinalElements(acc.text) # <<>>
            BY <1>3, <1>4 DEF LanesApart, ElementsBesideText
        <3>1. RelayEnabled /\ lanes[ObjectLane].begun /\ lanes[WordLane].begun
            BY <1>2 DEF Begun
        <3> QED  BY <1>1, <3>1, BothLanes
    <2> QED  BY <1>3, <1>4, <1>6, <1>7, <2>1, <2>2, <2>3 DEF Returned
<1>9. AllReceipts'
    <2> SUFFICES ASSUME opts.visible, relay' = "on", Streams
                 PROVE  /\ acc.reasoning # <<>> => ReasoningLane \in ended
                        /\ opts.lane = "text" /\ acc.text # <<>> => WordLane \in ended
                        /\ opts.lane = "object" /\ opts.json /\ IsJSON(acc.text) => ObjectLane \in ended
        BY <1>3, <1>4 DEF AllReceipts
    <2>1. RelayEnabled
        BY <1>2 DEF RelayEnabled
    <2>2. /\ Shows(lanes, acc.reasoning, acc.text, LastValue, tracker.published)
          /\ Tracked /\ acc \in AccType /\ opts.lane \in {"text", "object"}
          /\ \A k \in LaneKeys : lanes[k].begun \/ lanes[k] = NoLane
        BY <1>1, <2>1, AskFacts DEF ModelInv, LanesOK, ModelTypes
    <2>3. ObjectLane \in LaneKeys /\ ReasoningLane \in LaneKeys /\ WordLane \in LaneKeys
        BY <2>2, MessageKeys
    <2>4. \A k \in LaneKeys : lanes[k] # NoLane => k \in ended
        BY <1>2, <2>1, <2>2 DEF Begun
    <2>5. acc.reasoning # <<>> => lanes[ReasoningLane] # NoLane
        BY <2>2 DEF Shows, NoLane
    <2>6. opts.lane = "text" /\ acc.text # <<>> => lanes[WordLane] # NoLane
        BY <2>2 DEF Shows, NoLane
    <2>7. opts.lane = "object" /\ opts.json /\ IsJSON(acc.text) => lanes[ObjectLane] # NoLane
        <3> SUFFICES ASSUME opts.lane = "object", opts.json, IsJSON(acc.text)
                     PROVE  lanes[ObjectLane] # NoLane
            OBVIOUS
        <3>1. acc.text \in Seq(STRING)
            BY <2>2 DEF AccType
        <3>2. LastValue = tracker.last
            BY DEF LastValue, Streams
        <3>3. tracker.last = Value(acc.text)
            BY <2>2, <3>1, TrackerFields DEF Tracked
        <3>4. Value(acc.text) # Nothing
            BY <3>1, ValueType
        <3>5. lanes[ObjectLane].object # Nothing
            BY <2>2, <3>2, <3>3, <3>4 DEF Shows
        <3> QED  BY <3>5 DEF NoLane
    <2> QED  BY <2>3, <2>4, <2>5, <2>6, <2>7
<1> QED  BY <1>8, <1>9

LEMMA SucceedKeeps ==
    ASSUME ModelInv, Succeed
    PROVE  ModelInv'
<1>1. at = "closing" /\ UNCHANGED <<ask, said, acc, tracker, lanes>>
    BY DEF Succeed
<1>2. at' \in {"returned", "failed"} /\ (relay' = relay \/ relay' = "off")
    BY DEF Succeed, Return
<1>3. RelayEnabled' => RelayEnabled
    BY <1>1, <1>2 DEF RelayEnabled, opts
<1>4. ModelTypes' /\ SaidOK' /\ AccOK' /\ Tracked' /\ LanesOK' /\ Unasked'
    BY <1>1, <1>2, <1>3, StillStep
<1>5. at' = "returned" => Returned'
    BY SucceedReturns
<1> QED  BY <1>4, <1>5 DEF ModelInv

-----------------------------------------------------------------------------
(* The invariant over the activity.                                        *)

\* An activity that has received nothing, or of which nothing is kept.
Blank == said = Silent /\ acc = NoAcc /\ tracker = NoTracker /\ lanes = NoLanes

LEMMA BlankFits ==
    ask \in Asks /\ Blank /\ at # "closing" =>
        ModelTypes /\ SaidOK /\ AccOK /\ Tracked /\ LanesOK /\ Unasked
<1> SUFFICES ASSUME ask \in Asks, Blank, at # "closing"
             PROVE  ModelTypes /\ SaidOK /\ AccOK /\ Tracked /\ LanesOK /\ Unasked
    OBVIOUS
<1>1. said = Silent /\ acc = NoAcc /\ tracker = NoTracker /\ lanes = NoLanes
    BY DEF Blank
<1>2. /\ answer.reasoning \in Seq(STRING) /\ answer.text \in Seq(STRING)
      /\ answer.calls \in Seq(Calls) /\ opts.api \in Apis /\ opts.lane \in {"text", "object"}
      /\ Len(answer.calls) \in Nat
      /\ \A i \in DOMAIN answer.calls :
            answer.calls[i].id \in CallIds /\ answer.calls[i].input \in Seq(STRING)
    BY AskFacts
<1>3. Silent \in SaidType
    <2>1. [c \in CallIds |-> 0] \in [CallIds -> Nat]
          /\ [c \in CallIds |-> "open"] \in [CallIds -> {"open", "blank", "full"}]
        OBVIOUS
    <2> QED  BY <2>1 DEF Silent, SaidType
<1>4. NoAcc \in AccType
    <2>1. [c \in CallIds |-> <<>>] \in [CallIds -> Seq(STRING)]
          /\ <<>> \in Seq(STRING) /\ <<>> \in Seq(Elements) /\ <<>> \in Seq(Calls)
        OBVIOUS
    <2> QED  BY <2>1 DEF NoAcc, AccType
<1>5. NoLane \in LaneType /\ NoLanes \in [LaneKeys -> LaneType]
    <2>1. <<>> \in Seq(STRING) /\ <<>> \in Seq(Elements)
        OBVIOUS
    <2>2. NoLane \in LaneType
        BY <2>1 DEF NoLane, LaneType
    <2> QED  BY <2>2 DEF NoLanes
<1>6. ModelTypes
    BY <1>1, <1>3, <1>4, <1>5 DEF ModelTypes
<1>7. SaidOK
    <2>1. /\ said.reasoning = 0 /\ said.text = 0 /\ said.calls = 0 /\ said.file = FALSE
          /\ said.finish = 0 /\ \A c \in CallIds : said.inputs[c] = 0
        BY <1>1 DEF Silent
    <2>2. /\ 0 <= Len(answer.reasoning) /\ 0 <= Len(answer.text) /\ 0 <= Len(answer.calls)
          /\ \A i \in DOMAIN answer.calls : 0 <= Len(answer.calls[i].input)
        BY <1>2, LenProperties
    <2> QED  BY <1>2, <2>1, <2>2 DEF SaidOK
<1>8. AccOK
    <2>1. StreamTold
        <3>1. /\ acc.text = <<>> /\ acc.reasoning = <<>> /\ acc.file = FALSE /\ acc.content = <<>>
              /\ \A c \in CallIds : acc.inputs[c] = <<>>
            BY <1>1 DEF NoAcc
        <3>2. /\ said.reasoning = 0 /\ said.text = 0 /\ said.calls = 0 /\ said.file = FALSE
              /\ \A c \in CallIds : said.inputs[c] = 0 /\ said.ends[c] = "open"
            BY <1>1 DEF Silent
        <3>3. \A s \in Seq(STRING) : SubSeq(s, 1, 0) = <<>>
            BY SubSeqEmpty
        <3>4. \A i \in DOMAIN answer.calls : InputTold(answer.calls[i])
            BY <1>2, <3>1, <3>2, <3>3 DEF InputTold
        <3>5. Len(acc.content) = 0 /\ \A i \in 1..0 : FALSE
            BY <3>1
        <3>6. acc.text = SubSeq(answer.text, 1, 0) /\ acc.reasoning = SubSeq(answer.reasoning, 1, 0)
            BY <1>2, <3>1, <3>3
        <3> QED  BY <3>1, <3>2, <3>4, <3>5, <3>6 DEF StreamTold
    <2>2. ObjectTold
        BY <1>1, <2>1 DEF StreamTold, ObjectTold, NoAcc
    <2>3. WholeTold
        BY <1>1 DEF WholeTold
    <2> QED  BY <2>1, <2>2, <2>3 DEF AccOK
<1>9. Tracked
    <2>1. acc.text = <<>>
        BY <1>1 DEF NoAcc
    <2>2. TrackerOf(<<>>) = NoTracker
        BY DEF TrackerOf, NoTracker, IsJSON
    <2> QED  BY <1>1, <2>1, <2>2 DEF Tracked
<1>10. LanesOK
    <2>1. \A k \in LaneKeys : lanes[k] = NoLane
        BY <1>1 DEF NoLanes
    <2>2. ObjectLane \in LaneKeys /\ ReasoningLane \in LaneKeys /\ WordLane \in LaneKeys
        BY <1>2, MessageKeys
    <2>3. ElementsAreFinal
        BY <2>1 DEF ElementsAreFinal, NoLane
    <2>4. /\ acc.reasoning = <<>> /\ acc.text = <<>> /\ LastValue = Nothing
          /\ tracker.published = 0
        BY <1>1 DEF NoAcc, NoTracker, LastValue
    <2>5. FirstElements(0) = <<>>
        <3>1. FirstElements(0) \in Seq(Elements) /\ Len(FirstElements(0)) = 0
            BY FirstElementsGrow
        <3> QED  BY <3>1, EmptySeq
    <2>6. Shows(lanes, <<>>, <<>>, Nothing, 0)
        BY <2>1, <2>2, <2>5 DEF Shows, NoLane
    <2> QED  BY <2>1, <2>3, <2>4, <2>6 DEF LanesOK
<1>11. Unasked
    BY <1>1 DEF Unasked
<1> QED  BY <1>6, <1>7, <1>8, <1>9, <1>10, <1>11

LEMMA BlankFitsThen ==
    (ask \in Asks /\ Blank /\ at # "closing")' =>
        (ModelTypes /\ SaidOK /\ AccOK /\ Tracked /\ LanesOK /\ Unasked)'
<1> QED  BY BlankFits, PTL


LEMMA ModelStep ==
    ASSUME ModelInv, ModelNext
    PROVE  ModelInv'
<1>1. CASE OpenStream
    BY <1>1, OpenKeeps
<1>2. CASE ReceivePart
    BY <1>2, ReceivePartKeeps
<1>3. CASE ReceiveObjectPart
    BY <1>3, ObjectPartKeeps
<1>4. CASE ReceiveElement
    BY <1>4, ElementKeeps
<1>5. CASE StreamCloses
    BY <1>5, ClosesKeeps
<1>6. CASE AnswersAtOnce
    BY <1>6, AnswersKeeps
<1>7. CASE ModelBreaks
    BY <1>7, BreaksKeeps
<1>8. CASE Succeed
    BY <1>8, SucceedKeeps
<1> QED  BY <1>1, <1>2, <1>3, <1>4, <1>5, <1>6, <1>7, <1>8 DEF ModelNext

\* Nothing but the state of an activity matters to its invariant.
LEMMA ModelStays ==
    ASSUME ModelInv, UNCHANGED modelVars
    PROVE  ModelInv'
<1>1. /\ opts' = opts /\ answer' = answer /\ Streams' = Streams /\ SaidAll' = SaidAll
      /\ LastValue' = LastValue /\ RelayEnabled' = RelayEnabled
    BY DEF modelVars, opts, answer, Streams, SaidAll, LastValue, RelayEnabled
<1>2. ModelTypes' /\ SaidOK' /\ Tracked' /\ Unasked'
    BY <1>1 DEF modelVars, ModelInv, ModelTypes, SaidOK, Tracked, TrackerOf, Unasked
<1>3. AccOK'
    <2>1. StreamTold => StreamTold'
        BY <1>1 DEF modelVars, StreamTold, InputTold, AsTold
    <2>2. ObjectTold => ObjectTold'
        BY <1>1 DEF modelVars, ObjectTold
    <2>3. WholeTold => WholeTold'
        BY <1>1 DEF modelVars, WholeTold, WholeAnswer
    <2> QED  BY <1>1, <2>1, <2>2, <2>3 DEF ModelInv, AccOK
<1>4. LanesOK'
    <2>1. ElementsAreFinal'
        BY DEF ModelInv, LanesOK, ElementsAreFinal, modelVars
    <2>2. RelayEnabled' /\ at' # "failed" =>
             Shows(lanes, acc.reasoning, acc.text, LastValue, tracker.published)'
        BY <1>1 DEF ModelInv, LanesOK, Shows, modelVars
    <2> QED  BY <2>1, <2>2 DEF ModelInv, LanesOK, modelVars
<1>5. at' = "returned" => Returned'
    <2> SUFFICES ASSUME Returned PROVE Returned'
        BY DEF ModelInv, modelVars
    <2>1. ResultIsAnswer'
        BY <1>1 DEF Returned, ResultIsAnswer, Finished, modelVars
    <2>2. ReceiptsTellMessage'
        BY <1>1 DEF Returned, ReceiptsTellMessage, TextLane, modelVars
    <2>3. LanesApart'
        BY <1>1 DEF Returned, LanesApart, ElementsBesideText, modelVars
    <2> QED  BY <1>1, <2>1, <2>2, <2>3 DEF Returned, modelVars
<1> QED  BY <1>2, <1>3, <1>4, <1>5 DEF ModelInv

\* However the provider cuts its answer and wherever the relay is lost, every state
\* of an activity fits its invariant: the fold, the tracker and the lanes have what
\* was said, and what is returned is the answer and tells its receipts.
THEOREM ModelInductive == ModelSpec => []ModelInv
<1>1. ModelInit => ModelInv
    BY BlankFits DEF ModelInit, ModelIdle, Blank, ModelInv
<1>2. ModelInv /\ [ModelNext]_modelVars => ModelInv'
    BY ModelStep, ModelStays
<1> QED  BY <1>1, <1>2, PTL DEF ModelSpec

\* What an activity returns after the provider has said all is the answer that the
\* provider meant, each call once with its whole input.
THEOREM ResultsAreAnswers == ModelSpec => []ResultIsAnswer
<1>1. ModelInv => ResultIsAnswer
    BY DEF ModelInv, Returned, ResultIsAnswer
<1> QED  BY ModelInductive, <1>1, PTL

\* The elements in a lane are the first ones of the list, each of them whole.
THEOREM OnlyFinalElements == ModelSpec => []ElementsAreFinal
<1>1. ModelInv => ElementsAreFinal
    BY DEF ModelInv, LanesOK
<1> QED  BY ModelInductive, <1>1, PTL

-----------------------------------------------------------------------------
(* The lanes of tool inputs show what was streamed of their calls.         *)

InputLane(c) == Lane("tool-input", c)
AskedIds == {answer.calls[i].id : i \in DOMAIN answer.calls}

\* What the relay appends of a call's input: n tokens in deltas, and the whole of it
\* if its end carried that.
StreamedInput(call, n, end) ==
    SubSeq(call.input, 1, n) \o (IF end = "full" THEN call.input ELSE <<>>)

ShowsInput(ls, s, call) ==
    ls[InputLane(call.id)].text = StreamedInput(call, s.inputs[call.id], s.ends[call.id])

InputsStreamed ==
    RelayEnabled /\ at # "failed" =>
        \A i \in DOMAIN answer.calls : ShowsInput(lanes, said, answer.calls[i])

InputsAsked == \A c \in CallIds : lanes[InputLane(c)].begun => c \in AskedIds

InputReceipts ==
    at = "returned" => \A c \in CallIds : InputLane(c) \in DOMAIN result.receipts =>
        \E i \in DOMAIN answer.calls :
            answer.calls[i].id = c /\ InputShown(answer.calls[i], result.receipts[InputLane(c)].text)

InputsInv == InputsStreamed /\ InputsAsked /\ InputReceipts

\* Lanes whose inputs are texts.
InputTexts(ls) == DOMAIN ls = LaneKeys /\ \A c \in CallIds : ls[InputLane(c)].text \in Seq(STRING)

\* The lanes of tool inputs show the same, and no call has a lane that was not asked.
SameInputs(new, ls) ==
    /\ DOMAIN new = LaneKeys
    /\ \A c \in CallIds : new[InputLane(c)].text = ls[InputLane(c)].text
    /\ \A c \in CallIds : new[InputLane(c)].begun => ls[InputLane(c)].begun \/ c \in AskedIds

\* A part that adds nothing to an input, and a batch of such parts.
Quiet(part) ==
    \/ Classify(part).lane \in {Nothing, ObjectLane, ReasoningLane, WordLane}
    \/ \E c \in AskedIds : Classify(part).lane = InputLane(c) /\ Classify(part).text = <<>>
AllQuiet(parts) == \E P : parts \in Seq(P) /\ \A p \in P : Quiet(p)

LEMMA InputLanes ==
    /\ \A c \in CallIds : InputLane(c) \in LaneKeys
    /\ \A c, d : InputLane(c) = InputLane(d) => c = d
    /\ \A c : InputLane(c) \notin {ObjectLane, ReasoningLane, WordLane}
    /\ \A c \in CallIds : InputLane(c) # Nothing
<1>1. \A c \in CallIds : InputLane(c) \in LaneKeys
    BY DEF InputLane, Lane, LaneKeys
<1>2. \A c, d : InputLane(c) = InputLane(d) => c = d
    BY DEF InputLane, Lane
<1>3. \A c : InputLane(c) \notin {ObjectLane, ReasoningLane, WordLane}
    BY DEF InputLane, Lane, ObjectLane, ReasoningLane, WordLane
<1>4. \A c \in CallIds : InputLane(c) # Nothing
    BY <1>1, LaneAssumption
<1> QED  BY <1>1, <1>2, <1>3, <1>4

LEMMA AskedAreCalls ==
    ASSUME ask \in Asks
    PROVE  AskedIds \subseteq CallIds
BY AskFacts DEF AskedIds

\* Lanes of which one alone has changed, and its text has grown.
Grown(new, ls, lane, text) ==
    /\ DOMAIN new = LaneKeys
    /\ \A k \in LaneKeys : k # lane => new[k] = ls[k]
    /\ \A k \in LaneKeys : k = lane => new[k].text = ls[k].text \o text

\* A part changes the input of its own lane alone.
LEMMA AcceptInput ==
    ASSUME NEW ls, DOMAIN ls = LaneKeys, NEW part
    PROVE  Grown(AcceptPart(ls, part), ls, Classify(part).lane, Classify(part).text)
<1> DEFINE m == Classify(part)
           lane == m.lane
           rec == [begun |-> TRUE, text |-> LaneText(ls[lane].text, m),
                   object |-> IF m.object = Nothing THEN ls[lane].object ELSE m.object,
                   elements |-> ls[lane].elements \o m.elements]
<1>1. AcceptPart(ls, part) = IF lane = Nothing THEN ls ELSE [ls EXCEPT ![lane] = rec]
    BY DEF AcceptPart
<1>2. rec.text = ls[lane].text \o m.text
    BY DEF LaneText
<1> HIDE DEF rec, m
<1>3. \A k \in LaneKeys : k # Nothing
    BY LaneAssumption
<1> HIDE DEF lane
<1>4. DOMAIN AcceptPart(ls, part) = LaneKeys
    BY <1>1
<1>5. \A k \in LaneKeys : k # lane => AcceptPart(ls, part)[k] = ls[k]
    BY <1>1
<1>6. \A k \in LaneKeys : k = lane => AcceptPart(ls, part)[k] = rec
    BY <1>1, <1>3
<1>7. \A k \in LaneKeys : k = lane => AcceptPart(ls, part)[k].text = ls[k].text \o m.text
    BY <1>2, <1>6
<1> QED  BY <1>4, <1>5, <1>7 DEF lane, m, Grown

LEMMA QuietPart ==
    ASSUME NEW ls, InputTexts(ls), ask \in Asks, NEW part, Quiet(part)
    PROVE  SameInputs(AcceptPart(ls, part), ls)
<1> DEFINE new == AcceptPart(ls, part)
           lane == Classify(part).lane
           text == Classify(part).text
<1>1. Grown(new, ls, lane, text)
    BY AcceptInput DEF InputTexts
<1>2. \/ lane \in {Nothing, ObjectLane, ReasoningLane, WordLane}
      \/ \E c \in AskedIds : lane = InputLane(c) /\ text = <<>>
    BY DEF Quiet
<1> HIDE DEF new, lane, text
<1>3. CASE lane \in {Nothing, ObjectLane, ReasoningLane, WordLane}
    <2>1. \A c \in CallIds : InputLane(c) \in LaneKeys /\ InputLane(c) # lane
        BY <1>3, InputLanes
    <2>2. \A c \in CallIds : new[InputLane(c)] = ls[InputLane(c)]
        BY <1>1, <2>1 DEF Grown
    <2>3. SameInputs(new, ls)
        BY <1>1, <2>2 DEF SameInputs, Grown
    <2> QED  BY <2>3 DEF new
<1>4. CASE \E c \in AskedIds : lane = InputLane(c) /\ text = <<>>
    <2>1. PICK c \in AskedIds : lane = InputLane(c) /\ text = <<>>
        BY <1>4
    <2>2. \A b \in CallIds : b # c => new[InputLane(b)] = ls[InputLane(b)]
        BY <1>1, <2>1, InputLanes DEF Grown
    <2>3. c \in CallIds
        BY AskedAreCalls
    <2>4. new[InputLane(c)].text = ls[InputLane(c)].text
        <3> DEFINE old == ls[InputLane(c)].text
        <3>1. old \in Seq(STRING)
            BY <2>3 DEF InputTexts
        <3>2. new[InputLane(c)].text = old \o <<>>
            BY <1>1, <2>1, <2>3, InputLanes DEF Grown
        <3> HIDE DEF old
        <3>3. old \o <<>> = old
            BY <3>1, ConcatEmptySeq
        <3> QED  BY <3>2, <3>3 DEF old
    <2>5. SameInputs(new, ls)
        BY <1>1, <2>2, <2>4 DEF SameInputs, Grown
    <2> QED  BY <2>5 DEF new
<1> QED  BY <1>2, <1>3, <1>4

LEMMA QuietBatch ==
    ASSUME NEW ls, InputTexts(ls), ask \in Asks, NEW parts, AllQuiet(parts)
    PROVE  SameInputs(AcceptAll(ls, parts), ls)
<1>1. PICK P : parts \in Seq(P) /\ \A p \in P : Quiet(p)
    BY DEF AllQuiet
<1>2. Len(parts) \in Nat /\ \A i \in 1..Len(parts) : Quiet(parts[i])
    BY <1>1
<1>3. PICK g : Chain(g, ls, parts) /\ AcceptAll(ls, parts) = g[Len(parts)]
    BY <1>2, AcceptAllChain
<1> DEFINE T == {n \in 0..Len(parts) : SameInputs(g[n], ls)}
<1>4. 0 \in T
    <2>1. SameInputs(ls, ls)
        BY DEF SameInputs, InputTexts
    <2> QED  BY <1>2, <1>3, <2>1 DEF Chain
<1>5. ASSUME NEW n \in 1..Len(parts), n - 1 \in T PROVE n \in T
    <2> DEFINE old == g[n - 1]
    <2>1. SameInputs(old, ls) /\ g[n] = AcceptPart(old, parts[n])
        BY <1>3, <1>5 DEF Chain
    <2> HIDE DEF old
    <2>2. InputTexts(old)
        BY <2>1 DEF InputTexts, SameInputs
    <2>3. SameInputs(g[n], old)
        BY <1>2, <2>1, <2>2, QuietPart
    <2>4. SameInputs(g[n], ls)
        BY <2>1, <2>3 DEF SameInputs
    <2> QED  BY <2>4
<1>6. \A n \in 1..Len(parts) : n - 1 \in T => n \in T
    BY <1>5
<1> HIDE DEF T
<1>7. \A n \in 0..Len(parts) : n \in T
    BY <1>2, <1>4, <1>6, IntervalInduction
<1>8. Len(parts) \in T
    BY <1>2, <1>7
<1> QED  BY <1>3, <1>8 DEF T

LEMMA QuietNone == AllQuiet(<<>>)
<1> DEFINE P == {}
<1>1. <<>> \in Seq(P) /\ \A p \in P : Quiet(p)
    OBVIOUS
<1> HIDE DEF P
<1> QED  BY <1>1 DEF AllQuiet

LEMMA QuietOne ==
    ASSUME NEW part, Quiet(part)
    PROVE  AllQuiet(<<part>>)
<1> DEFINE P == {part}
<1>1. <<part>> \in Seq(P) /\ \A p \in P : Quiet(p)
    OBVIOUS
<1> HIDE DEF P
<1> QED  BY <1>1 DEF AllQuiet

LEMMA QuietConcat ==
    ASSUME NEW a, NEW b, AllQuiet(a), AllQuiet(b)
    PROVE  AllQuiet(a \o b)
<1>1. PICK P : a \in Seq(P) /\ \A p \in P : Quiet(p)
    BY DEF AllQuiet
<1>2. PICK Q : b \in Seq(Q) /\ \A p \in Q : Quiet(p)
    BY DEF AllQuiet
<1> DEFINE S == P \cup Q
<1>3. a \in Seq(S) /\ b \in Seq(S) /\ \A p \in S : Quiet(p)
    BY <1>1, <1>2
<1> HIDE DEF S
<1>4. a \o b \in Seq(S)
    BY <1>3, ConcatProperties
<1> QED  BY <1>3, <1>4 DEF AllQuiet

LEMMA QuietParts ==
    ASSUME opts.lane \in {"text", "object"}
    PROVE  /\ \A type \in {"stream-start", "finish", "file"} : Quiet(Plain(type))
           /\ \A d : Quiet(ReasoningDelta(d))
           /\ \A d, v : Quiet(Part("text-delta", Nothing, d, v))
           /\ \A v : Quiet(ElementPart(v))
           /\ \A c \in AskedIds : \A d : Quiet(Part("tool-call", c, d, Nothing))
<1>0. TextLane \in {ObjectLane, WordLane}
    BY MessageKeys
<1>1. ASSUME NEW type \in {"stream-start", "finish", "file"} PROVE Quiet(Plain(type))
    <2>1. Classify(Plain(type)).lane = TextLane
        BY ClassifyPlain DEF Plain, Meta
    <2> QED  BY <1>0, <2>1 DEF Quiet
<1>2. ASSUME NEW d PROVE Quiet(ReasoningDelta(d))
    <2>1. Classify(ReasoningDelta(d)).lane = ReasoningLane
        BY ClassifyReasoning DEF Meta
    <2> QED  BY <2>1 DEF Quiet
<1>3. ASSUME NEW d, NEW v PROVE Quiet(Part("text-delta", Nothing, d, v))
    <2>1. Classify(Part("text-delta", Nothing, d, v)).lane \in {Nothing, TextLane}
        BY ClassifyText DEF Meta
    <2> QED  BY <1>0, <2>1 DEF Quiet
<1>4. ASSUME NEW v PROVE Quiet(ElementPart(v))
    <2>1. Classify(ElementPart(v)).lane = ObjectLane
        BY ClassifyElement DEF Meta
    <2> QED  BY <2>1 DEF Quiet
<1>5. ASSUME NEW c \in AskedIds, NEW d PROVE Quiet(Part("tool-call", c, d, Nothing))
    <2>1. Classify(Part("tool-call", c, d, Nothing)) = Meta(InputLane(c), <<>>, Nothing, <<>>)
        BY ClassifyCall DEF InputLane
    <2> QED  BY <2>1 DEF Quiet, Meta
<1> QED  BY <1>1, <1>2, <1>3, <1>4, <1>5

\* What the lanes' inputs have to fit, as far as they are lanes of the model.
LEMMA InputTextsNow ==
    ASSUME ModelTypes
    PROVE  InputTexts(lanes) /\ ask \in Asks
<1>1. \A k \in LaneKeys : lanes[k] \in LaneType
    BY DEF ModelTypes
<1>2. \A c \in CallIds : lanes[InputLane(c)].text \in Seq(STRING)
    BY <1>1, InputLanes DEF LaneType
<1> QED  BY <1>2 DEF ModelTypes, InputTexts

LEMMA NoInputs == \A c \in CallIds : /\ NoLanes[InputLane(c)].text = <<>>
                                     /\ ~NoLanes[InputLane(c)].begun
BY InputLanes DEF NoLanes, NoLane

\* A batch that adds nothing to an input, while nothing is said of one.
LEMMA QuietRelays ==
    ASSUME ModelTypes, InputsInv, at # "failed", ask' = ask,
           said'.inputs = said.inputs, said'.ends = said.ends,
           NEW parts, AllQuiet(parts), NEW next, next # "returned", Relays(parts, next)
    PROVE  InputsInv'
<1>1. /\ opts' = opts /\ answer' = answer /\ AskedIds' = AskedIds /\ at' # "returned"
      /\ AskedIds \subseteq CallIds
    BY InputTextsNow, AskedAreCalls DEF opts, answer, AskedIds, Relays
<1>2. InputReceipts'
    BY <1>1 DEF InputReceipts
<1>3. CASE /\ lanes' = IF RelayEnabled THEN AcceptAll(lanes, parts) ELSE lanes
           /\ at' = next /\ relay' = relay
    <2>1. SameInputs(AcceptAll(lanes, parts), lanes) /\ SameInputs(lanes, lanes)
        <3>1. SameInputs(AcceptAll(lanes, parts), lanes)
            BY InputTextsNow, QuietBatch
        <3>2. SameInputs(lanes, lanes)
            BY InputTextsNow DEF SameInputs, InputTexts
        <3> QED  BY <3>1, <3>2
    <2>2. SameInputs(lanes', lanes)
        BY <1>3, <2>1
    <2>3. RelayEnabled' = RelayEnabled
        BY <1>1, <1>3 DEF RelayEnabled
    <2>4. InputsStreamed'
        <3> SUFFICES ASSUME RelayEnabled, NEW i \in DOMAIN answer.calls
                     PROVE  ShowsInput(lanes', said', answer.calls[i])
            BY <1>1, <2>3 DEF InputsStreamed
        <3>1. answer.calls[i].id \in CallIds
            BY <1>1 DEF AskedIds
        <3>2. lanes'[InputLane(answer.calls[i].id)].text = lanes[InputLane(answer.calls[i].id)].text
            BY <2>2, <3>1 DEF SameInputs
        <3>3. ShowsInput(lanes, said, answer.calls[i])
            BY DEF InputsInv, InputsStreamed
        <3> QED  BY <3>2, <3>3 DEF ShowsInput
    <2>5. InputsAsked'
        BY <1>1, <2>2 DEF InputsInv, InputsAsked, SameInputs
    <2> QED  BY <1>2, <2>4, <2>5 DEF InputsInv
<1>4. CASE at' = "failed" /\ lanes' = lanes
    <2>1. InputsAsked'
        BY <1>1, <1>4 DEF InputsInv, InputsAsked
    <2> QED  BY <1>2, <1>4, <2>1 DEF InputsInv, InputsStreamed
<1>5. CASE relay' = "off" /\ lanes' = NoLanes
    <2>1. InputsAsked'
        BY <1>5, NoInputs DEF InputsAsked
    <2>2. ~RelayEnabled'
        BY <1>5 DEF RelayEnabled
    <2> QED  BY <1>2, <2>1, <2>2 DEF InputsInv, InputsStreamed
<1> QED  BY <1>3, <1>4, <1>5 DEF Relays

\* The provider says more of one input: d, after which n tokens and end are said.
SaysInput(call, n, end) ==
    /\ said'.inputs[call.id] = n /\ said'.ends[call.id] = end
    /\ \A c \in CallIds : c # call.id =>
          said'.inputs[c] = said.inputs[c] /\ said'.ends[c] = said.ends[c]
AddsInput(call, d, n, end) ==
    StreamedInput(call, said.inputs[call.id], said.ends[call.id]) \o d = StreamedInput(call, n, end)

\* A part that adds to the input of a call what is said of it.
LEMMA InputRelays ==
    ASSUME ModelTypes, InputsInv, at # "failed", ask' = ask,
           NEW part, NEW i \in DOMAIN answer.calls, NEW call, call = answer.calls[i], NEW d,
           Classify(part).lane = InputLane(call.id), Classify(part).text = d,
           NEW n, NEW end, SaysInput(call, n, end), AddsInput(call, d, n, end),
           Relays(<<part>>, "reading")
    PROVE  InputsInv'
<1> DEFINE c == call.id
<1> HIDE DEF c
<1>1. /\ opts' = opts /\ answer' = answer /\ AskedIds' = AskedIds /\ at' # "returned"
      /\ AskedIds \subseteq CallIds /\ c \in AskedIds
    <2>1. opts' = opts /\ answer' = answer /\ AskedIds' = AskedIds
        BY DEF opts, answer, AskedIds
    <2>4. at' # "returned"
        BY DEF Relays
    <2>2. AskedIds \subseteq CallIds
        BY InputTextsNow, AskedAreCalls
    <2>3. c \in AskedIds
        BY DEF AskedIds, c
    <2> QED  BY <2>1, <2>2, <2>3, <2>4
<1>2. InputReceipts'
    BY <1>1 DEF InputReceipts
<1>s. /\ said'.inputs[c] = n /\ said'.ends[c] = end
      /\ \A b \in CallIds : b # c =>
            said'.inputs[b] = said.inputs[b] /\ said'.ends[b] = said.ends[b]
    BY DEF SaysInput, c
<1>3. CASE /\ lanes' = IF RelayEnabled THEN AcceptAll(lanes, <<part>>) ELSE lanes
           /\ at' = "reading" /\ relay' = relay
    <2> DEFINE new == AcceptPart(lanes, part)
    <2>1. /\ \A k \in LaneKeys : k # InputLane(c) => new[k] = lanes[k]
          /\ new[InputLane(c)].text = lanes[InputLane(c)].text \o d
        <3>1. DOMAIN lanes = LaneKeys
            BY DEF ModelTypes
        <3>2. InputLane(c) \in LaneKeys
            BY <1>1, InputLanes
        <3>3. Grown(new, lanes, InputLane(c), d)
            BY <3>1, AcceptInput DEF c
        <3> HIDE DEF new
        <3> QED  BY <3>2, <3>3 DEF Grown
    <2>2. lanes' = IF RelayEnabled THEN new ELSE lanes
        BY <1>3, AcceptOne
    <2>3. RelayEnabled' = RelayEnabled
        BY <1>1, <1>3 DEF RelayEnabled
    <2> HIDE DEF new
    <2>4. InputsStreamed'
        <3> SUFFICES ASSUME RelayEnabled, NEW j \in DOMAIN answer.calls
                     PROVE  ShowsInput(lanes', said', answer.calls[j])
            BY <1>1, <2>3 DEF InputsStreamed
        <3> DEFINE other == answer.calls[j]
                   b == other.id
        <3>1. b \in CallIds /\ (b = c => j = i)
            <4>1. ask \in Asks
                BY InputTextsNow
            <4> QED  BY <4>1, AskFacts DEF c
        <3>2. ShowsInput(lanes, said, other)
            BY DEF InputsInv, InputsStreamed
        <3> SUFFICES ShowsInput(lanes', said', other)
            OBVIOUS
        <3>5. b = c => other = call
            BY <3>1
        <3> HIDE DEF other
        <3>6. lanes[InputLane(b)].text = StreamedInput(other, said.inputs[b], said.ends[b])
            BY <3>2 DEF ShowsInput
        <3>7. lanes'[InputLane(b)].text = StreamedInput(other, said'.inputs[b], said'.ends[b])
                 => ShowsInput(lanes', said', other)
            BY DEF ShowsInput
        <3> HIDE DEF b
        <3>3. CASE b = c
            <4>1. said'.inputs[b] = n /\ said'.ends[b] = end
                BY <1>s, <3>3
            <4>3. StreamedInput(other, said.inputs[b], said.ends[b]) \o d = StreamedInput(other, n, end)
                <5>1. StreamedInput(call, said.inputs[c], said.ends[c]) \o d = StreamedInput(call, n, end)
                    BY DEF AddsInput, c
                <5> QED  BY <3>3, <3>5, <5>1
            <4>2. lanes'[InputLane(b)].text = lanes[InputLane(b)].text \o d
                BY <2>1, <2>2, <3>3
            <4> QED  BY <3>6, <3>7, <4>1, <4>2, <4>3
        <3>4. CASE b # c
            <4>1. said'.inputs[b] = said.inputs[b] /\ said'.ends[b] = said.ends[b]
                BY <1>s, <3>1, <3>4
            <4>2. InputLane(b) \in LaneKeys /\ InputLane(b) # InputLane(c)
                BY <3>1, <3>4, InputLanes
            <4>3. lanes'[InputLane(b)] = lanes[InputLane(b)]
                BY <2>1, <2>2, <4>2
            <4> QED  BY <3>6, <3>7, <4>1, <4>3
        <3> QED  BY <3>3, <3>4
    <2>5. InputsAsked'
        <3> SUFFICES ASSUME NEW b \in CallIds, lanes'[InputLane(b)].begun PROVE b \in AskedIds
            BY <1>1 DEF InputsAsked
        <3>1. CASE b = c
            BY <1>1, <3>1
        <3>2. CASE b # c
            <4>1. InputLane(b) \in LaneKeys /\ InputLane(b) # InputLane(c)
                BY <3>2, InputLanes
            <4>2. lanes'[InputLane(b)] = lanes[InputLane(b)]
                BY <2>1, <2>2, <4>1
            <4>3. lanes[InputLane(b)].begun
                BY <4>2
            <4> QED  BY <4>3 DEF InputsInv, InputsAsked
        <3> QED  BY <3>1, <3>2
    <2> QED  BY <1>2, <2>4, <2>5 DEF InputsInv
<1>4. CASE at' = "failed" /\ lanes' = lanes
    <2>1. InputsAsked'
        BY <1>1, <1>4 DEF InputsInv, InputsAsked
    <2> QED  BY <1>2, <1>4, <2>1 DEF InputsInv, InputsStreamed
<1>5. CASE relay' = "off" /\ lanes' = NoLanes
    <2>1. InputsAsked'
        BY <1>5, NoInputs DEF InputsAsked
    <2>2. ~RelayEnabled'
        BY <1>5 DEF RelayEnabled
    <2> QED  BY <1>2, <2>1, <2>2 DEF InputsInv, InputsStreamed
<1> QED  BY <1>3, <1>4, <1>5 DEF Relays

\* The steps that take nothing from the provider and relay nothing.
LEMMA InputsWait ==
    ASSUME InputsInv, at # "failed", UNCHANGED <<ask, said, lanes, relay>>, at' # "returned"
    PROVE  InputsInv'
<1>1. opts' = opts /\ answer' = answer /\ AskedIds' = AskedIds /\ RelayEnabled' = RelayEnabled
    BY DEF opts, answer, AskedIds, RelayEnabled
<1>2. InputsStreamed'
    <2>1. ASSUME RelayEnabled, NEW i \in DOMAIN answer.calls
          PROVE  ShowsInput(lanes', said', answer.calls[i])
        <3>1. ShowsInput(lanes, said, answer.calls[i])
            BY <2>1 DEF InputsInv, InputsStreamed
        <3> QED  BY <3>1
    <2> QED  BY <1>1, <2>1 DEF InputsStreamed
<1>3. InputsAsked'
    BY <1>1 DEF InputsInv, InputsAsked
<1> QED  BY <1>2, <1>3 DEF InputsInv, InputReceipts

LEMMA QuietText ==
    ASSUME opts.lane \in {"text", "object"}, NEW e, NEW d, NEW old, NEW new,
           TextEnriched(e, d, old, new)
    PROVE  AllQuiet(<<e.part>> \o e.extras) /\ AllQuiet(ObjectParts(e))
<1> DEFINE Q == {ElementPart(v) : v \in Elements}
           v == e.part.value
<1>1. e.part = Part("text-delta", Nothing, d, v) /\ e.extras \in Seq(Q)
    BY DEF TextEnriched
<1>2. AllQuiet(e.extras)
    <2>1. \A p \in Q : Quiet(p)
        BY QuietParts
    <2> HIDE DEF Q
    <2> QED  BY <1>1, <2>1 DEF AllQuiet
<1> HIDE DEF Q, v
<1>3. AllQuiet(<<e.part>>)
    <2>1. Quiet(e.part)
        BY <1>1, QuietParts
    <2> QED  BY <2>1, QuietOne
<1>4. AllQuiet(<<TextDelta(e.part.data)>>)
    <2>1. Quiet(TextDelta(e.part.data))
        BY QuietParts DEF TextDelta
    <2> QED  BY <2>1, QuietOne
<1>5. AllQuiet(IF v = Nothing THEN <<>> ELSE <<Part("text-delta", Nothing, <<>>, v)>>)
    <2>1. Quiet(Part("text-delta", Nothing, <<>>, v))
        BY QuietParts
    <2>2. AllQuiet(<<Part("text-delta", Nothing, <<>>, v)>>)
        BY <2>1, QuietOne
    <2> QED  BY <2>2, QuietNone
<1>6. AllQuiet(<<e.part>> \o e.extras)
    BY <1>2, <1>3, QuietConcat
<1>7. AllQuiet(ObjectParts(e))
    <2> DEFINE a == <<TextDelta(e.part.data)>>
               b == IF v = Nothing THEN <<>> ELSE <<Part("text-delta", Nothing, <<>>, v)>>
               extras == e.extras
    <2>1. ObjectParts(e) = (a \o b) \o extras
        BY DEF ObjectParts, v
    <2>2. AllQuiet(a) /\ AllQuiet(b) /\ AllQuiet(extras)
        BY <1>2, <1>4, <1>5
    <2> HIDE DEF a, b, extras
    <2>3. AllQuiet(a \o b)
        BY <2>2, QuietConcat
    <2>4. AllQuiet((a \o b) \o extras)
        BY <2>2, <2>3, QuietConcat
    <2> QED  BY <2>1, <2>4
<1> QED  BY <1>6, <1>7

LEMMA StreamedIs ==
    ASSUME NEW call, call.input \in Seq(STRING), NEW n \in 0..Len(call.input), NEW end
    PROVE  /\ end # "full" => StreamedInput(call, n, end) = SubSeq(call.input, 1, n)
           /\ end = "full" => StreamedInput(call, n, end) = SubSeq(call.input, 1, n) \o call.input
           /\ SubSeq(call.input, 1, n) \in Seq(STRING)
<1> DEFINE whole == call.input
           beginning == SubSeq(whole, 1, n)
<1>1. beginning \in Seq(STRING)
    <2>1. whole \in Seq(STRING) /\ n \in 0..Len(whole)
        OBVIOUS
    <2> HIDE DEF whole
    <2> QED  BY <2>1, PrefixGrows
<1>2. StreamedInput(call, n, end) = beginning \o (IF end = "full" THEN whole ELSE <<>>)
    BY DEF StreamedInput
<1> HIDE DEF beginning, whole
<1>3. beginning \o <<>> = beginning
    BY <1>1, ConcatEmptySeq
<1> QED  BY <1>1, <1>2, <1>3 DEF beginning, whole

LEMMA ReceivePartInputs ==
    ASSUME ModelInv, InputsInv, ReceivePart
    PROVE  InputsInv'
<1>1. /\ at = "reading" /\ opts.api = "stream" /\ ask' = ask
      /\ ModelTypes /\ StreamTold /\ Tracked /\ SaidOK
      /\ ask \in Asks /\ said \in SaidType /\ Streams
    BY DEF ModelInv, ModelTypes, AccOK, ReceivePart, Streams
<1>2. opts.lane \in {"text", "object"} /\ said.finish \in Nat /\ at # "failed"
    BY <1>1, AskFacts DEF SaidType
<1>3. PICK s \in PartsNext :
         /\ said' = s.said /\ tracker' = Enriched(s.part).tracker
         /\ acc' = [Fold(acc, Enriched(s.part).part) EXCEPT
                      !.seen = @ \/ IsOutput(Enriched(s.part).part)]
         /\ Relays(<<Enriched(s.part).part>> \o Enriched(s.part).extras, "reading")
    BY DEF ReceivePart
<1>4. ASSUME NEW part, NEW after, s = Sends(part, after), part.type # "text-delta", Quiet(part),
             after.inputs = said.inputs, after.ends = said.ends
      PROVE  InputsInv'
    <2>1. /\ said' = after /\ tracker' = tracker
          /\ acc' = [Fold(acc, part) EXCEPT !.seen = @ \/ IsOutput(part)]
          /\ Relays(<<part>> \o <<>>, "reading")
        <3>1. part.type # "text-delta" /\ s = Sends(part, after)
            BY <1>4
        <3> QED  BY <1>3, <3>1, TakesOther
    <2>2. AllQuiet(<<part>> \o <<>>)
        BY <1>4, QuietOne, QuietNone, QuietConcat
    <2> DEFINE parts == <<part>> \o <<>>
    <2>3. Relays(parts, "reading") /\ AllQuiet(parts)
        BY <2>1, <2>2
    <2> HIDE DEF parts
    <2>4. said'.inputs = said.inputs /\ said'.ends = said.ends /\ "reading" # "returned"
        BY <1>4, <2>1
    <2> QED  BY <1>1, <1>2, <2>3, <2>4, QuietRelays
<1>5. CASE ReasoningSent(s)
    <2>1. PICK d \in Deltas(answer.reasoning, said.reasoning) :
             s = Sends(ReasoningDelta(d), [said EXCEPT !.reasoning = @ + Len(d)])
        BY <1>5 DEF ReasoningSent
    <2> DEFINE after == [said EXCEPT !.reasoning = @ + Len(d)]
    <2>2. ReasoningDelta(d).type # "text-delta"
        BY DEF ReasoningDelta, Part
    <2>3. Quiet(ReasoningDelta(d))
        BY <1>2, QuietParts
    <2>4. after.inputs = said.inputs /\ after.ends = said.ends
        BY <1>1 DEF SaidType
    <2>5. s = Sends(ReasoningDelta(d), after)
        BY <2>1
    <2> HIDE DEF after
    <2> QED  BY <1>4, <2>2, <2>3, <2>4, <2>5
<1>6. CASE TextSent(s)
    <2>1. PICK d \in Deltas(answer.text, said.text) :
             s = Sends(TextDelta(d), [said EXCEPT !.text = @ + Len(d)])
        BY <1>6 DEF TextSent
    <2>2. s.part = TextDelta(d) /\ s.said = [said EXCEPT !.text = @ + Len(d)]
        BY <2>1 DEF Sends
    <2> DEFINE e == Enriched(TextDelta(d))
               n == said.text
               parts == <<e.part>> \o e.extras
    <2>3. n \in 0..Len(answer.text) /\ acc.text = SubSeq(answer.text, 1, n)
        BY <1>1, AskFacts DEF SaidType, SaidOK, StreamTold
    <2>4. TextEnriched(e, d, acc.text, SubSeq(answer.text, 1, n + Len(d)))
        BY <1>1, <2>3, EnrichedText
    <2>5. Relays(parts, "reading")
        BY <1>3, <2>2
    <2>6. AllQuiet(parts)
        <3> HIDE DEF e
        <3> QED  BY <1>2, <2>4, QuietText
    <2>7. said'.inputs = said.inputs /\ said'.ends = said.ends /\ "reading" # "returned"
        BY <1>1, <1>3, <2>2 DEF SaidType
    <2> HIDE DEF parts
    <2> QED  BY <1>1, <1>2, <2>5, <2>6, <2>7, QuietRelays
<1>7. CASE InputSent(s)
    <2>1. PICK i \in said.calls + 1..Len(answer.calls) : s \in InputsNext(answer.calls[i])
        BY <1>7 DEF InputSent
    <2> DEFINE call == answer.calls[i]
               c == call.id
               told == said.inputs[c]
               whole == call.input
    <2>2. i \in DOMAIN answer.calls /\ c \in CallIds /\ whole \in Seq(STRING)
        <3>1. said.calls \in Nat /\ DOMAIN answer.calls = 1..Len(answer.calls)
            BY <1>1, AskFacts DEF SaidType
        <3>2. i \in DOMAIN answer.calls
            BY <3>1
        <3> QED  BY <1>1, <3>2, AskFacts
    <2>3. told \in 0..Len(whole)
        <3>1. told \in Nat /\ told <= Len(whole)
            BY <1>1, <2>2 DEF SaidType, SaidOK
        <3> QED  BY <2>2, <3>1
    <2>4. said.ends[c] = "open"
        BY <2>1 DEF InputsNext
    <2>5. s \in {Sends(Part("tool-input-delta", c, d, Nothing), [said EXCEPT !.inputs[c] = @ + Len(d)]) :
                    d \in Deltas(whole, told) \ {<<>>}}
              \cup {Sends(Part("tool-input-end", c, <<>>, Nothing), [said EXCEPT !.ends[c] = "blank"]),
                    Sends(Part("tool-input-end", c, whole, Nothing), [said EXCEPT !.ends[c] = "full"])}
        BY <2>1, <2>4 DEF InputsNext
    <2>c. call = answer.calls[i] /\ call.id = c /\ call.input = whole
          /\ said.inputs[call.id] = told /\ said.ends[call.id] = "open"
        BY <2>4
    <2> HIDE DEF call, c, told, whole
    <2>6. ASSUME NEW type \in {"tool-input-delta", "tool-input-end"}, NEW d, NEW after,
                 s = Sends(Part(type, c, d, Nothing), after),
                 after.inputs[c] \in 0..Len(whole),
                 \A b \in CallIds : b # c => after.inputs[b] = said.inputs[b] /\ after.ends[b] = said.ends[b],
                 AddsInput(call, d, after.inputs[c], after.ends[c])
          PROVE  InputsInv'
        <3> DEFINE part == Part(type, c, d, Nothing)
        <3>1. part.type # "text-delta" /\ s = Sends(part, after)
            BY <2>6 DEF Part
        <3>2. Classify(part) = Meta(InputLane(c), d, Nothing, <<>>)
            BY ClassifyCall DEF InputLane
        <3> HIDE DEF part
        <3>3. /\ said' = after /\ tracker' = tracker
              /\ acc' = [Fold(acc, part) EXCEPT !.seen = @ \/ IsOutput(part)]
              /\ Relays(<<part>> \o <<>>, "reading")
            BY <1>3, <3>1, TakesOther
        <3>4. Relays(<<part>>, "reading")
            <4>1. <<part>> \o <<>> = <<part>>
                OBVIOUS
            <4> QED  BY <3>3, <4>1
        <3>5. Classify(part).lane = InputLane(call.id) /\ Classify(part).text = d
            BY <2>c, <3>2 DEF Meta
        <3> DEFINE n == after.inputs[c]
                   end == after.ends[c]
        <3>6. SaysInput(call, n, end)
            BY <2>6, <2>c, <3>3 DEF SaysInput
        <3>7. AddsInput(call, d, n, end)
            BY <2>6
        <3> HIDE DEF n, end
        <3> QED  BY <1>1, <1>2, <2>2, <2>c, <3>4, <3>5, <3>6, <3>7, InputRelays
    <2>7. CASE \E d \in Deltas(whole, told) :
                  s = Sends(Part("tool-input-delta", c, d, Nothing), [said EXCEPT !.inputs[c] = @ + Len(d)])
        <3>1. PICK d \in Deltas(whole, told) :
                 s = Sends(Part("tool-input-delta", c, d, Nothing), [said EXCEPT !.inputs[c] = @ + Len(d)])
            BY <2>7
        <3> DEFINE after == [said EXCEPT !.inputs[c] = @ + Len(d)]
                   m == told + Len(d)
        <3>2. /\ m \in 0..Len(whole) /\ SubSeq(whole, 1, told) \o d = SubSeq(whole, 1, m)
            BY <2>2, <2>3, PrefixGrows
        <3>3. after.inputs[c] = m /\ after.ends[c] = "open"
            BY <1>1, <2>2, <2>c DEF SaidType, told
        <3>4. \A b \in CallIds : b # c => after.inputs[b] = said.inputs[b] /\ after.ends[b] = said.ends[b]
            BY <1>1 DEF SaidType
        <3>5. s = Sends(Part("tool-input-delta", c, d, Nothing), after)
            BY <3>1
        <3> HIDE DEF after, m
        <3>6. AddsInput(call, d, m, "open")
            <4>1. StreamedInput(call, told, "open") = SubSeq(whole, 1, told)
                BY <2>2, <2>3, <2>c, StreamedIs
            <4>2. StreamedInput(call, m, "open") = SubSeq(whole, 1, m)
                BY <2>2, <2>c, <3>2, StreamedIs
            <4> QED  BY <2>c, <3>2, <4>1, <4>2 DEF AddsInput
        <3> QED  BY <2>6, <3>2, <3>3, <3>4, <3>5, <3>6
    <2>8. ASSUME NEW d, NEW end, s = Sends(Part("tool-input-end", c, d, Nothing), [said EXCEPT !.ends[c] = end]),
                 AddsInput(call, d, told, end)
          PROVE  InputsInv'
        <3> DEFINE after == [said EXCEPT !.ends[c] = end]
        <3>1. after.inputs[c] = told /\ after.ends[c] = end
            BY <1>1, <2>2, <2>c DEF SaidType, told
        <3>2. \A b \in CallIds : b # c => after.inputs[b] = said.inputs[b] /\ after.ends[b] = said.ends[b]
            BY <1>1 DEF SaidType
        <3>3. s = Sends(Part("tool-input-end", c, d, Nothing), after)
            BY <2>8
        <3> HIDE DEF after
        <3> QED  BY <2>3, <2>6, <2>8, <3>1, <3>2, <3>3
    <2>9. CASE s = Sends(Part("tool-input-end", c, <<>>, Nothing), [said EXCEPT !.ends[c] = "blank"])
        <3>1. /\ StreamedInput(call, told, "open") = SubSeq(whole, 1, told)
              /\ StreamedInput(call, told, "blank") = SubSeq(whole, 1, told)
              /\ SubSeq(whole, 1, told) \in Seq(STRING)
            BY <2>2, <2>3, <2>c, StreamedIs
        <3>2. SubSeq(whole, 1, told) \o <<>> = SubSeq(whole, 1, told)
            BY <3>1, ConcatEmptySeq
        <3>3. AddsInput(call, <<>>, told, "blank")
            BY <2>c, <3>1, <3>2 DEF AddsInput
        <3> QED  BY <2>8, <2>9, <3>3
    <2>10. CASE s = Sends(Part("tool-input-end", c, whole, Nothing), [said EXCEPT !.ends[c] = "full"])
        <3>1. /\ StreamedInput(call, told, "open") = SubSeq(whole, 1, told)
              /\ StreamedInput(call, told, "full") = SubSeq(whole, 1, told) \o whole
            BY <2>2, <2>3, <2>c, StreamedIs
        <3>2. AddsInput(call, whole, told, "full")
            BY <2>c, <3>1 DEF AddsInput
        <3> QED  BY <2>8, <2>10, <3>2
    <2> QED  BY <2>5, <2>7, <2>9, <2>10
<1>8. CASE CallSent(s)
    <2> DEFINE i == said.calls + 1
               call == answer.calls[i]
               c == call.id
               after == [said EXCEPT !.calls = @ + 1]
    <2>1. said.calls # Len(answer.calls) /\ s \in CallNext(call)
        BY <1>8 DEF CallSent
    <2>2. c \in AskedIds
        <3>1. /\ said.calls \in Nat /\ DOMAIN answer.calls = 1..Len(answer.calls)
              /\ said.calls <= Len(answer.calls) /\ Len(answer.calls) \in Nat
            BY <1>1, AskFacts DEF SaidType, SaidOK
        <3>2. i \in DOMAIN answer.calls
            BY <2>1, <3>1
        <3> QED  BY <3>2 DEF AskedIds
    <2>3. PICK own \in {call.input} \cup (IF Told(call) THEN {<<>>} ELSE {}) :
             s = Sends(Part("tool-call", c, own, Nothing), after)
        BY <2>1 DEF CallNext
    <2>4. after.inputs = said.inputs /\ after.ends = said.ends
        BY <1>1 DEF SaidType
    <2> HIDE DEF c, after
    <2>5. Quiet(Part("tool-call", c, own, Nothing))
        BY <1>2, <2>2, QuietParts
    <2>6. Part("tool-call", c, own, Nothing).type # "text-delta"
        BY DEF Part
    <2> QED  BY <1>4, <2>3, <2>4, <2>5, <2>6
<1>9. CASE PlainSent(s)
    <2>1. ASSUME NEW type \in {"stream-start", "finish", "file"}, NEW after,
                 s = Sends(Plain(type), after), after.inputs = said.inputs, after.ends = said.ends
          PROVE  InputsInv'
        <3>1. Quiet(Plain(type))
            BY <1>2, QuietParts
        <3>2. Plain(type).type # "text-delta"
            BY DEF Plain, Part
        <3> QED  BY <1>4, <2>1, <3>1, <3>2
    <2>2. CASE s = Sends(Plain("file"), [said EXCEPT !.file = TRUE])
        <3> DEFINE after == [said EXCEPT !.file = TRUE]
        <3>1. after.inputs = said.inputs /\ after.ends = said.ends /\ s = Sends(Plain("file"), after)
            BY <1>1, <2>2 DEF SaidType
        <3> HIDE DEF after
        <3> QED  BY <2>1, <3>1
    <2>3. CASE s = Sends(Plain("stream-start"), said)
        BY <2>1, <2>3
    <2>4. CASE s = Sends(Plain("finish"), [said EXCEPT !.finish = 1])
        <3> DEFINE after == [said EXCEPT !.finish = 1]
        <3>1. after.inputs = said.inputs /\ after.ends = said.ends /\ s = Sends(Plain("finish"), after)
            BY <1>1, <2>4 DEF SaidType
        <3> HIDE DEF after
        <3> QED  BY <2>1, <3>1
    <2> QED  BY <1>9, <2>2, <2>3, <2>4 DEF PlainSent
<1> QED  BY <1>2, <1>5, <1>6, <1>7, <1>8, <1>9, PartKinds

LEMMA OpenInputs ==
    ASSUME ModelInv, InputsInv, OpenStream
    PROVE  InputsInv'
<1> DEFINE parts == IF opts.api = "streamObject" THEN <<Plain("stream-start")>> ELSE <<>>
<1>1. /\ ModelTypes /\ opts.lane \in {"text", "object"} /\ ask' = ask /\ at # "failed"
      /\ said' = said /\ Relays(parts, "reading") /\ "reading" # "returned"
    BY AskFacts DEF ModelInv, ModelTypes, OpenStream
<1>2. AllQuiet(parts)
    <2>1. Quiet(Plain("stream-start"))
        BY <1>1, QuietParts
    <2>2. AllQuiet(<<Plain("stream-start")>>)
        BY <2>1, QuietOne
    <2> QED  BY <2>2, QuietNone
<1> HIDE DEF parts
<1> QED  BY <1>1, <1>2, QuietRelays

LEMMA ObjectPartInputs ==
    ASSUME ModelInv, InputsInv, ReceiveObjectPart
    PROVE  InputsInv'
<1>1. /\ at = "reading" /\ opts.api = "streamObject" /\ ask' = ask
      /\ ModelTypes /\ ObjectTold /\ Tracked /\ SaidOK
      /\ ask \in Asks /\ said \in SaidType /\ Streams
    BY DEF ModelInv, ModelTypes, AccOK, ReceiveObjectPart, Streams
<1>2. opts.lane \in {"text", "object"} /\ at # "failed" /\ "reading" # "returned"
    BY <1>1, AskFacts
<1>3. CASE \E d \in Deltas(answer.text, said.text) :
              /\ said' = [said EXCEPT !.text = @ + Len(d)]
              /\ Relays(ObjectParts(Enriched(TextDelta(d))), "reading")
    <2>1. PICK d \in Deltas(answer.text, said.text) :
              /\ said' = [said EXCEPT !.text = @ + Len(d)]
              /\ Relays(ObjectParts(Enriched(TextDelta(d))), "reading")
        BY <1>3
    <2> DEFINE e == Enriched(TextDelta(d))
               n == said.text
               parts == ObjectParts(e)
    <2>2. n \in 0..Len(answer.text) /\ acc.text = SubSeq(answer.text, 1, n)
        BY <1>1, AskFacts DEF SaidType, SaidOK, ObjectTold
    <2>3. TextEnriched(e, d, acc.text, SubSeq(answer.text, 1, n + Len(d)))
        BY <1>1, <2>2, EnrichedText
    <2>4. AllQuiet(parts)
        <3> HIDE DEF e
        <3> QED  BY <1>2, <2>3, QuietText
    <2>5. Relays(parts, "reading")
        BY <2>1
    <2>6. said'.inputs = said.inputs /\ said'.ends = said.ends
        BY <1>1, <2>1 DEF SaidType
    <2> HIDE DEF parts
    <2> QED  BY <1>1, <1>2, <2>4, <2>5, <2>6, QuietRelays
<1>4. CASE /\ said' = [said EXCEPT !.finish = @ + 1]
           /\ Relays(IF said.finish = 0 THEN <<Plain("finish")>> ELSE <<>>, "reading")
    <2> DEFINE parts == IF said.finish = 0 THEN <<Plain("finish")>> ELSE <<>>
    <2>1. AllQuiet(parts)
        <3>1. Quiet(Plain("finish"))
            BY <1>2, QuietParts
        <3>2. AllQuiet(<<Plain("finish")>>)
            BY <3>1, QuietOne
        <3> QED  BY <3>2, QuietNone
    <2>2. Relays(parts, "reading")
        BY <1>4
    <2>3. said'.inputs = said.inputs /\ said'.ends = said.ends
        BY <1>1, <1>4 DEF SaidType
    <2> HIDE DEF parts
    <2> QED  BY <1>1, <1>2, <2>1, <2>2, <2>3, QuietRelays
<1>5. \/ \E d \in Deltas(answer.text, said.text) :
            /\ said' = [said EXCEPT !.text = @ + Len(d)]
            /\ Relays(ObjectParts(Enriched(TextDelta(d))), "reading")
      \/ /\ said' = [said EXCEPT !.finish = @ + 1]
         /\ Relays(IF said.finish = 0 THEN <<Plain("finish")>> ELSE <<>>, "reading")
    BY DEF ReceiveObjectPart
<1> QED  BY <1>3, <1>4, <1>5

LEMMA QuietWhole ==
    ASSUME ask \in Asks
    PROVE  AllQuiet(WholeParts)
<1>1. opts.lane \in {"text", "object"}
    BY AskFacts
<1>2. AllQuiet(StartPiece) /\ AllQuiet(FinishPiece)
    <2>1. Quiet(Plain("stream-start")) /\ Quiet(Plain("finish"))
        BY <1>1, QuietParts
    <2> QED  BY <2>1, QuietOne DEF StartPiece, FinishPiece
<1>3. AllQuiet(FilePiece)
    <2>1. Quiet(Plain("file"))
        BY <1>1, QuietParts
    <2>2. AllQuiet(<<Plain("file")>>)
        BY <2>1, QuietOne
    <2> QED  BY <2>2, QuietNone DEF FilePiece, Unless
<1>4. AllQuiet(ReasoningPiece)
    <2>1. Quiet(ReasoningDelta(answer.reasoning))
        BY <1>1, QuietParts
    <2>2. AllQuiet(<<ReasoningDelta(answer.reasoning)>>)
        BY <2>1, QuietOne
    <2> QED  BY <2>2, QuietNone DEF ReasoningPiece, Unless
<1>5. AllQuiet(TextPiece)
    <2>1. Quiet(WholeText)
        BY <1>1, QuietParts DEF WholeText
    <2>2. AllQuiet(<<WholeText>>)
        BY <2>1, QuietOne
    <2> QED  BY <2>2, QuietNone DEF TextPiece, Unless
<1>6. AllQuiet(CallsPiece)
    <2> DEFINE N == Len(answer.calls)
               F(i) == Part("tool-call", answer.calls[i].id, answer.calls[i].input, Nothing)
               P == {F(i) : i \in 1..N}
    <2>1. N \in Nat /\ DOMAIN answer.calls = 1..N
        BY AskFacts
    <2>2. \A p \in P : Quiet(p)
        <3> SUFFICES ASSUME NEW i \in 1..N PROVE Quiet(F(i))
            OBVIOUS
        <3>1. answer.calls[i].id \in AskedIds
            BY <2>1 DEF AskedIds
        <3> QED  BY <1>1, <3>1, QuietParts
    <2>3. CallsPiece = [i \in 1..N |-> F(i)]
        BY <2>1 DEF CallsPiece
    <2>4. \A i \in 1..N : F(i) \in P
        OBVIOUS
    <2> HIDE DEF F, P, N
    <2>5. CallsPiece \in Seq(P)
        BY <2>1, <2>3, <2>4
    <2> QED  BY <2>2, <2>5 DEF AllQuiet
<1> DEFINE p1 == StartPiece
           p2 == p1 \o ReasoningPiece
           p3 == p2 \o TextPiece
           p4 == p3 \o CallsPiece
           p5 == p4 \o FilePiece
           p6 == p5 \o FinishPiece
<1>7. WholeParts = p6
    BY DEF WholeParts, StartPiece, ReasoningPiece, TextPiece, CallsPiece, FilePiece, FinishPiece, WholeText
<1> HIDE DEF p1, p2, p3, p4, p5, p6
<1>8. AllQuiet(p2)
    BY <1>2, <1>4, QuietConcat DEF p1, p2
<1>9. AllQuiet(p3)
    BY <1>5, <1>8, QuietConcat DEF p3
<1>10. AllQuiet(p4)
    BY <1>6, <1>9, QuietConcat DEF p4
<1>11. AllQuiet(p5)
    BY <1>3, <1>10, QuietConcat DEF p5
<1>12. AllQuiet(p6)
    BY <1>2, <1>11, QuietConcat DEF p6
<1> QED  BY <1>7, <1>12

LEMMA AnswersInputs ==
    ASSUME ModelInv, InputsInv, AnswersAtOnce
    PROVE  InputsInv'
<1>1. /\ ModelTypes /\ ask \in Asks /\ ask' = ask /\ at # "failed" /\ said' = said
      /\ Relays(WholeParts, "closing") /\ "closing" # "returned"
    BY DEF ModelInv, ModelTypes, AnswersAtOnce
<1>2. AllQuiet(WholeParts)
    BY <1>1, QuietWhole
<1> QED  BY <1>1, <1>2, QuietRelays

\* The receipts that come with a result are those of lanes that are relayed.
LEMMA SucceedInputs ==
    ASSUME ModelInv, InputsInv, Succeed
    PROVE  InputsInv'
<1>1. /\ at = "closing" /\ UNCHANGED <<ask, said, acc, tracker, lanes>>
      /\ (relay' = relay \/ relay' = "off")
    BY DEF Succeed
<1>2. opts' = opts /\ answer' = answer /\ AskedIds' = AskedIds /\ (RelayEnabled' => RelayEnabled)
    BY <1>1 DEF opts, answer, AskedIds, RelayEnabled
<1>3. InputsStreamed'
    <2>1. ASSUME RelayEnabled, NEW i \in DOMAIN answer.calls
          PROVE  ShowsInput(lanes', said', answer.calls[i])
        <3>1. ShowsInput(lanes, said, answer.calls[i])
            BY <1>1, <2>1 DEF InputsInv, InputsStreamed
        <3> QED  BY <1>1, <3>1
    <2> QED  BY <1>2, <2>1 DEF InputsStreamed
<1>4. InputsAsked'
    BY <1>1, <1>2 DEF InputsInv, InputsAsked
<1>5. ASSUME NEW ended, ended \subseteq Begun, ended # {} => RelayEnabled, Return(ended)
      PROVE  InputReceipts'
    <2>1. DOMAIN result'.receipts = ended /\ \A k \in ended : result'.receipts[k] = lanes[k]
        BY <1>5 DEF Return
    <2> SUFFICES ASSUME NEW c \in CallIds, InputLane(c) \in ended
                 PROVE  \E i \in DOMAIN answer.calls :
                           /\ answer.calls[i].id = c
                           /\ InputShown(answer.calls[i], lanes[InputLane(c)].text)
        BY <1>2, <2>1 DEF InputReceipts
    <2>2. lanes[InputLane(c)].begun /\ RelayEnabled
        BY <1>5 DEF Begun
    <2>3. PICK i \in DOMAIN answer.calls : answer.calls[i].id = c
        BY <2>2 DEF InputsInv, InputsAsked, AskedIds
    <2> DEFINE call == answer.calls[i]
               whole == call.input
               n == said.inputs[c]
               end == said.ends[c]
               text == lanes[InputLane(c)].text
    <2>4. text = StreamedInput(call, n, end)
        <3>1. ShowsInput(lanes, said, call)
            BY <1>1, <2>2 DEF InputsInv, InputsStreamed
        <3> QED  BY <2>3, <3>1 DEF ShowsInput
    <2>5. call.input \in Seq(STRING)
        <3>1. ask \in Asks
            BY DEF ModelInv, ModelTypes
        <3> QED  BY <3>1, AskFacts
    <2>6. n \in 0..Len(call.input)
        <3>1. n \in Nat
            BY DEF ModelInv, ModelTypes, SaidType
        <3>2. n <= Len(call.input)
            BY <2>3 DEF ModelInv, SaidOK
        <3>3. Len(call.input) \in Nat
            <4> DEFINE w == call.input
            <4>1. w \in Seq(STRING)
                BY <2>5
            <4> HIDE DEF w
            <4>2. Len(w) \in Nat
                BY <4>1
            <4> QED  BY <4>2 DEF w
        <3> QED  BY <3>1, <3>2, <3>3
    <2> HIDE DEF call, n, end, text
    <2>7. text \in {SubSeq(call.input, 1, n), SubSeq(call.input, 1, n) \o call.input}
        BY <2>4, <2>5, <2>6, StreamedIs
    <2>8. InputShown(call, text)
        BY <2>6, <2>7 DEF InputShown
    <2> QED  BY <2>3, <2>8 DEF call, text
<1>6. CASE Return(IF RelayEnabled THEN Begun ELSE {})
    <2> DEFINE ended == IF RelayEnabled THEN Begun ELSE {}
    <2>1. ended \subseteq Begun /\ (ended # {} => RelayEnabled) /\ Return(ended)
        BY <1>6
    <2> HIDE DEF ended
    <2> QED  BY <1>3, <1>4, <1>5, <2>1 DEF InputsInv
<1>7. CASE at' = "failed"
    BY <1>3, <1>4, <1>7 DEF InputsInv, InputReceipts
<1>8. CASE RelayEnabled /\ \E ended \in EndsInOrder : Return(ended)
    <2>1. PICK ended \in EndsInOrder : Return(ended)
        BY <1>8
    <2>2. ended \subseteq Begun
        BY DEF EndsInOrder
    <2> QED  BY <1>3, <1>4, <1>5, <1>8, <2>1, <2>2 DEF InputsInv
<1> QED  BY <1>6, <1>7, <1>8 DEF Succeed

LEMMA InputsStep ==
    ASSUME ModelInv, InputsInv, ModelNext
    PROVE  InputsInv'
<1>1. CASE OpenStream
    BY <1>1, OpenInputs
<1>2. CASE ReceivePart
    BY <1>2, ReceivePartInputs
<1>3. CASE ReceiveObjectPart
    BY <1>3, ObjectPartInputs
<1>4. CASE ReceiveElement
    BY <1>4, InputsWait DEF ReceiveElement
<1>5. CASE StreamCloses
    BY <1>5, InputsWait DEF StreamCloses
<1>6. CASE AnswersAtOnce
    BY <1>6, AnswersInputs
<1>7. CASE ModelBreaks
    BY <1>7, InputsWait DEF ModelBreaks
<1>8. CASE Succeed
    BY <1>8, SucceedInputs
<1> QED  BY <1>1, <1>2, <1>3, <1>4, <1>5, <1>6, <1>7, <1>8 DEF ModelNext

\* A result may lose its receipts and keep its state otherwise.
LEMMA InputsStay ==
    ASSUME InputsInv, UNCHANGED <<ask, at, said, lanes, relay>>,
           at = "returned" => result' = result \/ result'.receipts \in {result.receipts, <<>>}
    PROVE  InputsInv'
<1>1. opts' = opts /\ answer' = answer /\ AskedIds' = AskedIds /\ RelayEnabled' = RelayEnabled
    BY DEF opts, answer, AskedIds, RelayEnabled
<1>2. InputsStreamed'
    <2>1. ASSUME RelayEnabled, at # "failed", NEW i \in DOMAIN answer.calls
          PROVE  ShowsInput(lanes', said', answer.calls[i])
        <3>1. ShowsInput(lanes, said, answer.calls[i])
            BY <2>1 DEF InputsInv, InputsStreamed
        <3> QED  BY <3>1
    <2> QED  BY <1>1, <2>1 DEF InputsStreamed
<1>3. InputsAsked'
    BY <1>1 DEF InputsInv, InputsAsked
<1>4. InputReceipts'
    <2> SUFFICES ASSUME at = "returned", NEW c \in CallIds, InputLane(c) \in DOMAIN result'.receipts
                 PROVE  \E i \in DOMAIN answer.calls :
                           /\ answer.calls[i].id = c
                           /\ InputShown(answer.calls[i], result'.receipts[InputLane(c)].text)
        BY <1>1 DEF InputReceipts
    <2>1. DOMAIN <<>> = {}
        OBVIOUS
    <2>2. result'.receipts = result.receipts
        BY <2>1
    <2> QED  BY <2>2 DEF InputsInv, InputReceipts
<1> QED  BY <1>2, <1>3, <1>4 DEF InputsInv

LEMMA InputsInitially ==
    ask \in Asks /\ said = Silent /\ lanes = NoLanes /\ (at = "returned" => InputReceipts) => InputsInv
<1> SUFFICES ASSUME ask \in Asks, said = Silent, lanes = NoLanes, at = "returned" => InputReceipts
             PROVE  InputsInv
    OBVIOUS
<1>1. InputsStreamed
    <2> SUFFICES ASSUME NEW i \in DOMAIN answer.calls
                 PROVE  ShowsInput(lanes, said, answer.calls[i])
        BY DEF InputsStreamed
    <2> DEFINE call == answer.calls[i]
    <2>1. call.id \in CallIds /\ call.input \in Seq(STRING)
        BY AskFacts
    <2>2. said.inputs[call.id] = 0 /\ said.ends[call.id] = "open"
        BY <2>1 DEF Silent
    <2>3. lanes[InputLane(call.id)].text = <<>>
        BY <2>1, NoInputs
    <2> HIDE DEF call
    <2>4. 0 \in 0..Len(call.input) /\ SubSeq(call.input, 1, 0) = <<>>
        BY <2>1, SubSeqEmpty
    <2>5. StreamedInput(call, 0, "open") = <<>>
        BY <2>1, <2>4, StreamedIs
    <2>6. ShowsInput(lanes, said, call)
        BY <2>2, <2>3, <2>5 DEF ShowsInput
    <2> QED  BY <2>6 DEF call
<1>2. InputsAsked
    BY NoInputs DEF InputsAsked
<1>3. InputReceipts
    BY DEF InputReceipts
<1> QED  BY <1>1, <1>2, <1>3 DEF InputsInv

LEMMA InputsAgain ==
    (ask \in Asks /\ said = Silent /\ lanes = NoLanes /\ (at = "returned" => InputReceipts))' => InputsInv'
<1> QED  BY InputsInitially, PTL

\* The preview of a tool's input shows what was streamed of it, in every state of an
\* activity, and belongs to a call of the answer.
THEOREM InputsInductive == ModelSpec => []InputsInv
<1>1. ModelInit => InputsInv
    BY InputsInitially DEF ModelInit, ModelIdle
<1>2. ModelInv /\ InputsInv /\ [ModelNext]_modelVars => InputsInv'
    BY InputsStep, InputsStay DEF modelVars
<1> QED  BY <1>1, <1>2, ModelInductive, PTL DEF ModelSpec

LEMMA ToldBoth == ModelInv /\ InputsInv => ReceiptsTellResult
<1> SUFFICES ASSUME ModelInv, InputsInv, at = "returned", NEW k \in DOMAIN result.receipts
             PROVE  LET shown == result.receipts[k]
                        parsed == opts.api # "generate" /\ opts.json /\ IsJSON(result.text)
                    IN CASE k[1] = "reasoning" -> shown.text = result.reasoning
                         [] k[1] = "text" -> shown.text = result.text
                         [] k[1] = "object" /\ parsed ->
                               /\ TextLane = k => shown.object = Value(result.text)
                               /\ Streams => shown.elements = FinalElements(result.text)
                         [] k[1] = "tool-input" ->
                               \E i \in DOMAIN answer.calls :
                                   answer.calls[i].id = k[2] /\ InputShown(answer.calls[i], shown.text)
                         [] OTHER -> TRUE
    BY DEF ReceiptsTellResult
<1>1. ReceiptsTellMessage /\ k \in LaneKeys
    BY DEF ModelInv, Returned
<1>2. CASE k[1] = "tool-input"
    <2>1. PICK c \in CallIds : k = InputLane(c) /\ k[2] = c
        BY <1>1, <1>2 DEF LaneKeys, InputLane, Lane
    <2>2. \E i \in DOMAIN answer.calls :
             answer.calls[i].id = c /\ InputShown(answer.calls[i], result.receipts[InputLane(c)].text)
        BY <2>1 DEF InputsInv, InputReceipts
    <2> QED  BY <1>2, <2>1, <2>2
<1>3. CASE k[1] # "tool-input"
    BY <1>1, <1>3 DEF ReceiptsTellMessage
<1> QED  BY <1>2, <1>3

\* The receipt of a lane says what the result says; that of a tool's input is of a
\* call of the answer and shows a beginning of its input, or that and the whole.
THEOREM ReceiptsTell == ModelSpec => []ReceiptsTellResult
BY ModelInductive, InputsInductive, ToldBoth, PTL

-----------------------------------------------------------------------------
(* The rows of a step.                                                     *)

\* The row of a lane that has a receipt.
RowOf(lane, told) ==
    Row(RecordOf(lane), lane, FieldOfLane(lane, told.receipts[Lane(lane, Nothing)]))

TextRow(told) == Row("message", "text", told.text)

LEMMA EntriesOfConcat ==
    ASSUME NEW S, NEW s \in Seq(S), NEW t \in Seq(S)
    PROVE  s \o t \in Seq(S) /\ Entries(s \o t) = Entries(s) \cup Entries(t)
<1>1. /\ s \o t \in Seq(S) /\ Len(s \o t) = Len(s) + Len(t)
      /\ \A i \in 1..Len(s) + Len(t) : (s \o t)[i] = IF i <= Len(s) THEN s[i] ELSE t[i - Len(s)]
    BY ConcatProperties
<1>2. Len(s) \in Nat /\ DOMAIN s = 1..Len(s) /\ Len(t) \in Nat /\ DOMAIN t = 1..Len(t)
      /\ DOMAIN (s \o t) = 1..Len(s) + Len(t)
    BY <1>1, LenProperties
<1> DEFINE u == s \o t
<1>3. u \in Seq(S) /\ DOMAIN u = 1..Len(s) + Len(t)
      /\ \A i \in 1..Len(s) + Len(t) : u[i] = IF i <= Len(s) THEN s[i] ELSE t[i - Len(s)]
    BY <1>1, <1>2
<1> HIDE DEF u
<1>4. ASSUME NEW i \in DOMAIN s PROVE s[i] \in Entries(u)
    <2>1. i \in DOMAIN u /\ u[i] = s[i]
        BY <1>2, <1>3, <1>4
    <2> QED  BY <2>1 DEF Entries
<1>5. ASSUME NEW i \in DOMAIN t PROVE t[i] \in Entries(u)
    <2>1. Len(s) + i \in DOMAIN u /\ u[Len(s) + i] = t[i]
        BY <1>2, <1>3, <1>5
    <2> QED  BY <2>1 DEF Entries
<1>6. ASSUME NEW i \in DOMAIN u PROVE u[i] \in Entries(s) \cup Entries(t)
    <2>1. CASE i <= Len(s)
        <3>1. i \in DOMAIN s /\ u[i] = s[i]
            BY <1>2, <1>3, <2>1
        <3> QED  BY <3>1 DEF Entries
    <2>2. CASE ~(i <= Len(s))
        <3>1. i - Len(s) \in DOMAIN t /\ u[i] = t[i - Len(s)]
            BY <1>2, <1>3, <2>2
        <3> QED  BY <3>1 DEF Entries
    <2> QED  BY <2>1, <2>2
<1>7. Entries(s) \subseteq Entries(u) /\ Entries(t) \subseteq Entries(u)
    BY <1>4, <1>5 DEF Entries
<1>8. Entries(u) \subseteq Entries(s) \cup Entries(t)
    BY <1>6 DEF Entries
<1> QED  BY <1>1, <1>7, <1>8 DEF u

\* A sequence is one of its entries.
LEMMA SeqOfEntries ==
    ASSUME NEW S, NEW s \in Seq(S)
    PROVE  s \in Seq(Entries(s))
<1>1. Len(s) \in Nat /\ DOMAIN s = 1..Len(s) /\ s = [i \in 1..Len(s) |-> s[i]]
    BY LenProperties
<1>2. \A i \in 1..Len(s) : s[i] \in Entries(s)
    BY <1>1 DEF Entries
<1> QED  BY <1>1, <1>2, SeqDef

\* What is left of a sequence and its first entry are all of it.
LEMMA HeadOrTail ==
    ASSUME NEW S, NEW s \in Seq(S), s # <<>>
    PROVE  Tail(s) \in Seq(S) /\ Head(s) \in S /\ Entries(s) \subseteq {Head(s)} \cup Entries(Tail(s))
<1>1. Len(s) \in Nat /\ DOMAIN s = 1..Len(s) /\ Len(s) # 0 /\ Head(s) = s[1]
    BY LenProperties, EmptySeq
<1>2. Tail(s) \in Seq(S) /\ Len(Tail(s)) = Len(s) - 1 /\ \A i \in 1..Len(s) - 1 : Tail(s)[i] = s[i + 1]
    BY HeadTailProperties
<1> DEFINE u == Tail(s)
<1>3. DOMAIN u = 1..Len(s) - 1 /\ \A i \in 1..Len(s) - 1 : u[i] = s[i + 1]
    BY <1>2, LenProperties
<1> HIDE DEF u
<1>4. ASSUME NEW i \in DOMAIN s, i # 1 PROVE s[i] \in Entries(u)
    <2>1. i - 1 \in DOMAIN u /\ u[i - 1] = s[i]
        BY <1>1, <1>3, <1>4
    <2> QED  BY <2>1 DEF Entries
<1>5. Entries(s) \subseteq {Head(s)} \cup Entries(u)
    BY <1>1, <1>4 DEF Entries
<1> QED  BY <1>2, <1>5 DEF u

LEMMA LaneRowIs ==
    ASSUME NEW lane, NEW told, NEW S, RowOf(lane, told) \in S
    PROVE  /\ LaneRow(lane, told) \in Seq(S)
           /\ Lane(lane, Nothing) \in DOMAIN told.receipts =>
                 LaneRow(lane, told) = <<RowOf(lane, told)>> /\ Entries(LaneRow(lane, told)) = {RowOf(lane, told)}
           /\ Lane(lane, Nothing) \notin DOMAIN told.receipts => LaneRow(lane, told) = <<>>
           /\ \A x \in Entries(LaneRow(lane, told)) :
                 Lane(lane, Nothing) \in DOMAIN told.receipts /\ x = RowOf(lane, told)
<1>1. <<RowOf(lane, told)>> \in Seq(S) /\ <<>> \in Seq(S)
    OBVIOUS
<1>2. Entries(<<RowOf(lane, told)>>) = {RowOf(lane, told)}
    <2> DEFINE r == RowOf(lane, told)
    <2> HIDE DEF r
    <2>1. DOMAIN <<r>> = {1} /\ <<r>>[1] = r
        OBVIOUS
    <2> QED  BY <2>1 DEF Entries, r
<1>3. CASE Lane(lane, Nothing) \in DOMAIN told.receipts
    <2>1. LaneRow(lane, told) = <<RowOf(lane, told)>>
        BY <1>3 DEF LaneRow, RowOf
    <2> QED  BY <1>1, <1>2, <1>3, <2>1
<1>4. CASE Lane(lane, Nothing) \notin DOMAIN told.receipts
    <2>1. LaneRow(lane, told) = <<>>
        BY <1>4 DEF LaneRow
    <2>2. Entries(LaneRow(lane, told)) = {}
        BY <2>1 DEF Entries
    <2> QED  BY <1>1, <1>4, <2>1, <2>2
<1> QED  BY <1>3, <1>4

\* The rows of a result are those of the receipts it has, or else that of its text.
LEMMA RowsOfResult ==
    ASSUME NEW told
    PROVE  /\ MessageRows(told) \in Seq(Entries(MessageRows(told)))
           /\ \A lane \in {"object", "reasoning", "text"} :
                 Lane(lane, Nothing) \in DOMAIN told.receipts => RowOf(lane, told) \in Entries(MessageRows(told))
           /\ DOMAIN told.receipts = {} => TextRow(told) \in Entries(MessageRows(told))
           /\ \A x \in Entries(MessageRows(told)) :
                 \/ Entries(MessageRows(told)) = {TextRow(told)}
                 \/ \E lane \in {"object", "reasoning", "text"} :
                       Lane(lane, Nothing) \in DOMAIN told.receipts /\ x = RowOf(lane, told)
<1> DEFINE S == {RowOf("object", told), RowOf("reasoning", told), RowOf("text", told), TextRow(told)}
           a == LaneRow("object", told)
           b == LaneRow("reasoning", told)
           c == LaneRow("text", told)
<1>1. /\ RowOf("object", told) \in S /\ RowOf("reasoning", told) \in S /\ RowOf("text", told) \in S
      /\ <<TextRow(told)>> \in Seq(S)
    OBVIOUS
<1> HIDE DEF S
<1>2. a \in Seq(S) /\ b \in Seq(S) /\ c \in Seq(S)
    BY <1>1, LaneRowIs
<1> HIDE DEF a, b, c
<1>3. /\ a \o b \in Seq(S) /\ (a \o b) \o c \in Seq(S)
      /\ Entries((a \o b) \o c) = Entries(a) \cup Entries(b) \cup Entries(c)
    <2> DEFINE d == a \o b
    <2>1. d \in Seq(S) /\ Entries(d) = Entries(a) \cup Entries(b)
        BY <1>2, EntriesOfConcat
    <2> HIDE DEF d
    <2>2. d \o c \in Seq(S) /\ Entries(d \o c) = Entries(d) \cup Entries(c)
        BY <1>2, <2>1, EntriesOfConcat
    <2> QED  BY <2>1, <2>2 DEF d
<1>4. ReceiptRows(told) = (a \o b) \o c
    BY DEF ReceiptRows, a, b, c
<1>5. ReceiptRows(told) \in Seq(S)
    BY <1>3, <1>4
<1>6. MessageRows(told) \in Seq(S)
    BY <1>1, <1>5 DEF MessageRows, TextRow
<1>7. ASSUME NEW lane \in {"object", "reasoning", "text"}, Lane(lane, Nothing) \in DOMAIN told.receipts
      PROVE  RowOf(lane, told) \in Entries(MessageRows(told))
    <2>1. RowOf(lane, told) \in Entries(LaneRow(lane, told))
        BY <1>1, <1>7, LaneRowIs
    <2>2. RowOf(lane, told) \in Entries(ReceiptRows(told))
        BY <1>3, <1>4, <2>1 DEF a, b, c
    <2>3. ReceiptRows(told) # <<>>
        BY <2>2 DEF Entries
    <2> QED  BY <2>2, <2>3 DEF MessageRows
<1>8. ASSUME ReceiptRows(told) = <<>> PROVE Entries(MessageRows(told)) = {TextRow(told)}
    <2>1. MessageRows(told) = <<TextRow(told)>>
        BY <1>8 DEF MessageRows, TextRow
    <2> DEFINE r == TextRow(told)
    <2> HIDE DEF r
    <2>2. Entries(<<r>>) = {r}
        <3>1. DOMAIN <<r>> = {1} /\ <<r>>[1] = r
            OBVIOUS
        <3> QED  BY <3>1 DEF Entries
    <2> QED  BY <2>1, <2>2 DEF r
<1>9. ASSUME DOMAIN told.receipts = {} PROVE TextRow(told) \in Entries(MessageRows(told))
    <2>1. a = <<>> /\ b = <<>> /\ c = <<>>
        BY <1>1, <1>9, LaneRowIs DEF a, b, c
    <2>2. ReceiptRows(told) = <<>>
        BY <1>4, <2>1
    <2> QED  BY <1>8, <2>2
<1>10. ASSUME NEW x \in Entries(MessageRows(told)), ReceiptRows(told) # <<>>
       PROVE  \E lane \in {"object", "reasoning", "text"} :
                 Lane(lane, Nothing) \in DOMAIN told.receipts /\ x = RowOf(lane, told)
    <2>1. x \in Entries(a) \cup Entries(b) \cup Entries(c)
        BY <1>3, <1>4, <1>10 DEF MessageRows
    <2> QED  BY <1>1, <2>1, LaneRowIs DEF a, b, c
<1> QED  BY <1>6, <1>7, <1>8, <1>9, <1>10, SeqOfEntries

-----------------------------------------------------------------------------
(* The invariant over a turn.                                              *)

\* An activity returns when it succeeds, and nothing follows in it.
LEMMA OnlySucceedReturns ==
    ASSUME ModelNext, at' = "returned"
    PROVE  Succeed /\ ask' = ask
<1>1. ~OpenStream
    BY DEF OpenStream, Relays
<1>2. ~ReceivePart
    BY DEF ReceivePart, Relays
<1>3. ~ReceiveObjectPart
    BY DEF ReceiveObjectPart, Relays
<1>4. ~ReceiveElement
    BY DEF ReceiveElement
<1>5. ~StreamCloses
    BY DEF StreamCloses
<1>6. ~AnswersAtOnce
    BY DEF AnswersAtOnce, Relays
<1>7. ~ModelBreaks
    BY DEF ModelBreaks
<1>8. Succeed
    BY <1>1, <1>2, <1>3, <1>4, <1>5, <1>6, <1>7 DEF ModelNext
<1> QED  BY <1>8 DEF Succeed

LEMMA AskStays ==
    ASSUME ModelNext
    PROVE  ask' = ask
BY DEF ModelNext, OpenStream, ReceivePart, ReceiveObjectPart, ReceiveElement, StreamCloses,
       AnswersAtOnce, ModelBreaks, Succeed

\* The call of a turn is kept as long as neither it nor the question changes.
LEMMA CallStays ==
    ASSUME CallKept, ask' = ask, UNCHANGED <<attempt, input, followed>>
    PROVE  CallKept'
BY DEF CallKept, answer

LEMMA AnswersTurn ==
    ASSUME TurnInv, Answers
    PROVE  TurnInv'
<1>1. ModelInv /\ CallKept /\ ModelNext /\ phase' = "model" /\ rows' = {}
      /\ UNCHANGED <<attempt, input, followed>>
    BY DEF TurnInv, Answers, toolVars, turnOwn
<1>2. ModelInv'
    BY <1>1, ModelStep
<1>3. at' = "returned" => AllReceipts'
    BY <1>1, OnlySucceedReturns, SucceedReturns
<1>4. CallKept'
    BY <1>1, AskStays, CallStays
<1> QED  BY <1>1, <1>2, <1>3, <1>4 DEF TurnInv

LEMMA AskAgainTurn ==
    ASSUME TurnInv, AskAgain
    PROVE  TurnInv'
<1>1. /\ CallKept /\ phase' = "model" /\ at' = "calling" /\ ask' = ask /\ ask \in Asks /\ rows' = {}
      /\ UNCHANGED <<attempt, input, followed>>
    BY DEF TurnInv, ModelInv, ModelTypes, AskAgain, toolVars, turnOwn
<1>2. (ask \in Asks /\ Blank /\ at # "closing")'
    BY <1>1 DEF AskAgain, Forgets, Blank
<1>3. ModelInv'
    BY <1>1, <1>2, BlankFitsThen DEF ModelInv
<1>4. CallKept'
    BY <1>1, CallStays
<1> QED  BY <1>1, <1>3, <1>4 DEF TurnInv

\* What of a result the workflow does not get is no part of what was returned.
LEMMA ReceivedIsReturned ==
    ASSUME Returned, at = "returned", at' = "returned", UNCHANGED ask, Finished' => Finished,
           NEW kept, kept = result.receipts \/ kept = <<>>,
           result' = [result EXCEPT !.receipts = kept]
    PROVE  /\ Returned'
           /\ result'.receipts = kept /\ result'.text = result.text
           /\ result'.reasoning = result.reasoning /\ result'.content = result.content
<1>1. /\ DOMAIN result' = {"reasoning", "text", "content", "file", "elements", "receipts"}
      /\ result'.receipts = kept /\ result'.text = result.text
      /\ result'.reasoning = result.reasoning /\ result'.content = result.content
      /\ result'.file = result.file
    BY DEF Returned
<1>2. opts' = opts /\ answer' = answer /\ Streams' = Streams /\ TextLane' = TextLane
    BY DEF opts, answer, Streams, TextLane
<1>3. DOMAIN <<>> = {}
    OBVIOUS
<1>4. ResultIsAnswer'
    BY <1>1, <1>2 DEF Returned, ResultIsAnswer
<1>5. ReceiptsTellMessage'
    <2>1. CASE kept = <<>>
        BY <1>1, <1>3, <2>1 DEF ReceiptsTellMessage
    <2>2. CASE kept = result.receipts
        BY <1>1, <1>2, <2>2 DEF Returned, ReceiptsTellMessage
    <2> QED  BY <2>1, <2>2
<1>6. DOMAIN result'.receipts \subseteq LaneKeys
    BY <1>1, <1>3 DEF Returned
<1>7. LanesApart'
    BY <1>1, <1>2, <1>3 DEF Returned, LanesApart, ElementsBesideText
<1>8. Returned'
    BY <1>1, <1>2, <1>4, <1>5, <1>6, <1>7 DEF Returned
<1> QED  BY <1>1, <1>8

LEMMA TakeResultTurn ==
    ASSUME TurnInv, TakeResult
    PROVE  TurnInv'
<1> DEFINE kept == IF Streams THEN result.receipts ELSE <<>>
<1>1. /\ CallKept /\ Returned /\ AllReceipts /\ ask \in Asks
      /\ at = "returned" /\ at' = "returned" /\ ask' = ask /\ relay' = relay
      /\ result' = Received /\ rows' = {} /\ phase' # "model"
      /\ UNCHANGED <<attempt, input, followed>>
    BY DEF TurnInv, ModelInv, ModelTypes, TakeResult, toolVars
<1>2. /\ phase' = IF ByAgent THEN "records" ELSE "done"
      /\ writes' = IF ByAgent THEN MessageRows(Received) ELSE <<>>
      /\ Blank'
    BY DEF TakeResult, Forgets, Blank
<1>3. (ask \in Asks /\ Blank /\ at # "closing")'
    BY <1>1, <1>2
<1>4. /\ opts' = opts /\ Streams' = Streams /\ ByAgent' = ByAgent
    BY <1>1 DEF opts, Streams, ByAgent
<1>5. Finished' => Finished
    <2>1. said' = Silent
        BY <1>2 DEF Blank
    <2>2. said'.finish = 0
        BY <2>1 DEF Silent
    <2> QED  BY <1>4, <2>2 DEF Finished
<1>6. result' = [result EXCEPT !.receipts = kept]
    BY <1>1 DEF Received, Returned
<1>7. kept = result.receipts \/ kept = <<>>
    OBVIOUS
<1>8. Streams => kept = result.receipts
    OBVIOUS
<1>9. ~Streams => DOMAIN kept = {}
    OBVIOUS
<1> HIDE DEF kept
<1>10. /\ Returned' /\ result'.receipts = kept /\ result'.text = result.text
       /\ result'.reasoning = result.reasoning
    BY <1>1, <1>5, <1>6, <1>7, ReceivedIsReturned
<1>11. ModelInv'
    BY <1>1, <1>3, <1>10, BlankFitsThen DEF ModelInv
<1>12. AllReceipts'
    BY <1>1, <1>4, <1>8, <1>10 DEF AllReceipts
<1>13. phase' = "records" => RowsKept'
    <2> SUFFICES ASSUME ByAgent PROVE RowsKept'
        BY <1>2
    <2>1. writes' = MessageRows(result')
        BY <1>1, <1>2
    <2>2. MessageRows(result') \in Seq(Entries(MessageRows(result')))
        BY RowsOfResult
    <2>3. MessageRows(result)' = MessageRows(result') /\ Entries(writes)' = Entries(writes')
          /\ Entries(MessageRows(result))' = Entries(MessageRows(result'))
        BY DEF MessageRows, ReceiptRows, LaneRow, Entries
    <2> QED  BY <1>1, <1>4, <1>9, <1>10, <2>1, <2>2, <2>3 DEF RowsKept
<1>14. CallKept'
    BY <1>1, CallStays
<1> QED  BY <1>1, <1>11, <1>12, <1>13, <1>14 DEF TurnInv

LEMMA WriteMessageTurn ==
    ASSUME TurnInv, WriteMessage
    PROVE  TurnInv'
<1>1. /\ ModelInv /\ AllReceipts /\ RowsKept /\ CallKept /\ at = "returned" /\ phase' = "records"
      /\ UNCHANGED modelVars /\ UNCHANGED <<attempt, input, followed>>
      /\ writes # <<>> /\ rows' = rows \cup {Head(writes)} /\ writes' = Tail(writes)
    BY DEF TurnInv, WriteMessage, toolVars, RowsKept
<1>2. ask' = ask /\ at' = at /\ result' = result /\ relay' = relay
      /\ opts' = opts /\ Streams' = Streams /\ ByAgent' = ByAgent
    BY <1>1 DEF modelVars, opts, Streams, ByAgent
<1>3. ModelInv'
    BY <1>1, ModelStays
<1>4. AllReceipts'
    BY <1>1, <1>2 DEF AllReceipts
<1>5. RowsKept'
    <2> DEFINE S == Entries(MessageRows(result))
    <2>1. writes \in Seq(S) /\ S \subseteq rows \cup Entries(writes) /\ rows \subseteq S /\ ByAgent
          /\ (~Streams => DOMAIN result.receipts = {})
        BY <1>1 DEF RowsKept
    <2>2. S' = S
        BY <1>2
    <2> HIDE DEF S
    <2>3. /\ Tail(writes) \in Seq(S) /\ Head(writes) \in S
          /\ Entries(writes) \subseteq {Head(writes)} \cup Entries(Tail(writes))
        BY <1>1, <2>1, HeadOrTail
    <2>4. writes' \in Seq(S') /\ S' \subseteq rows' \cup Entries(writes') /\ rows' \subseteq S'
        BY <1>1, <2>1, <2>2, <2>3
    <2>5. Entries(writes)' = Entries(writes')
        BY DEF Entries
    <2> QED  BY <1>1, <1>2, <2>1, <2>4, <2>5 DEF RowsKept, S
<1>6. CallKept'
    BY <1>1, <1>2, CallStays
<1> QED  BY <1>1, <1>3, <1>4, <1>5, <1>6 DEF TurnInv

\* The call that is run is one of the answer.
LEMMA CallToolTurn ==
    ASSUME TurnInv, CallTool
    PROVE  TurnInv' /\ \E t \in Tools, in \in Inputs : Call(t, in)
<1>1. /\ ModelInv /\ Returned /\ at = "returned" /\ phase' = "tools" /\ ask \in Asks
      /\ UNCHANGED <<ask, at, said, acc, tracker, lanes, relay>>
      /\ result' = [result EXCEPT !.receipts = <<>>]
    BY DEF TurnInv, CallTool, RowsKept, ModelInv, ModelTypes
<1>2. PICK i \in LocalCalls, t \in Tools :
         followed' = result.content[i].id /\ Call(t, result.content[i].input)
    BY DEF CallTool
<1>3. i \in DOMAIN result.content
    BY <1>2 DEF LocalCalls
<1>4. /\ i \in DOMAIN answer.calls
      /\ result.content[i].id = answer.calls[i].id
      /\ result.content[i].input = answer.calls[i].input
    BY <1>1, <1>3 DEF Returned
<1>5. result.content[i].input \in Inputs
    BY <1>1, <1>4, TurnAssumption DEF answer
<1>6. input' = result.content[i].input
    BY <1>2 DEF Call
<1>7. opts' = opts /\ answer' = answer /\ Streams' = Streams /\ Finished' = Finished
    BY <1>1 DEF opts, answer, Streams, Finished
<1>8. CallKept'
    BY <1>2, <1>4, <1>6, <1>7 DEF CallKept
<1>9. Returned'
    BY <1>1, <1>7, ReceivedIsReturned
<1>10. ModelTypes' /\ SaidOK' /\ AccOK' /\ Tracked' /\ LanesOK' /\ Unasked'
    <2>1. RelayEnabled' => RelayEnabled
        BY <1>1, <1>7 DEF RelayEnabled
    <2> QED  BY <1>1, <2>1, StillStep
<1>11. ModelInv'
    BY <1>9, <1>10 DEF ModelInv
<1>12. TurnInv'
    BY <1>1, <1>8, <1>11 DEF TurnInv
<1> QED  BY <1>2, <1>5, <1>12

\* Nothing but its first call gives a tool another input.
LEMMA InputStays ==
    ASSUME ToolNext, attempt # 0
    PROVE  input' = input
<1>1. ASSUME NEW t, NEW in, Call(t, in) PROVE FALSE
    BY <1>1 DEF Call
<1>2. ASSUME NEW e, Step(e) PROVE input' = input
    BY <1>2 DEF Step, Gate, Execute, Returns, KeepInline, Compact, CompactFails
<1> QED  BY <1>1, <1>2 DEF ToolNext, Retry, TimeOut

LEMMA RunToolTurn ==
    ASSUME TurnInv, RunTool
    PROVE  TurnInv'
<1>1. /\ ModelInv /\ CallKept /\ attempt # 0 /\ phase \in {"tools", "done"} /\ phase' = phase
      /\ UNCHANGED modelVars /\ followed' = followed
    BY DEF TurnInv, RunTool, turnOwn
<1>2. input' = input
    BY InputStays DEF RunTool
<1>3. ModelInv'
    BY <1>1, ModelStays
<1>4. CallKept'
    BY <1>1, <1>2 DEF CallKept, answer, modelVars
<1> QED  BY <1>1, <1>3, <1>4 DEF TurnInv

LEMMA QuietTurn ==
    ASSUME TurnInv, UNCHANGED modelVars, UNCHANGED toolVars, followed' = followed, phase' = "done"
    PROVE  TurnInv'
<1>1. ModelInv'
    BY ModelStays DEF TurnInv
<1>2. CallKept'
    BY CallStays DEF TurnInv, modelVars, toolVars
<1> QED  BY <1>1, <1>2 DEF TurnInv

LEMMA StillTurn ==
    ASSUME TurnInv, UNCHANGED turnVars
    PROVE  TurnInv'
<1>1. /\ UNCHANGED modelVars /\ UNCHANGED toolVars
      /\ phase' = phase /\ rows' = rows /\ writes' = writes /\ followed' = followed
    BY DEF turnVars, turnOwn
<1>2. /\ ask' = ask /\ at' = at /\ result' = result /\ relay' = relay
      /\ opts' = opts /\ Streams' = Streams /\ ByAgent' = ByAgent
    BY <1>1 DEF modelVars, opts, Streams, ByAgent
<1>3. ModelInv'
    BY <1>1, ModelStays DEF TurnInv
<1>4. CallKept'
    BY <1>1, <1>2, CallStays DEF TurnInv, toolVars
<1>5. AllReceipts => AllReceipts'
    BY <1>2 DEF AllReceipts
<1>6. RowsKept => RowsKept'
    <2> DEFINE S == Entries(MessageRows(result))
               W == Entries(writes)
    <2>1. S' = S /\ W' = W
        BY <1>1, <1>2
    <2> HIDE DEF S, W
    <2> QED  BY <1>1, <1>2, <2>1 DEF RowsKept, S, W
<1> QED  BY <1>1, <1>2, <1>3, <1>4, <1>5, <1>6 DEF TurnInv

LEMMA TurnStep == TurnInv /\ [TurnNext]_turnVars => TurnInv'
<1> SUFFICES ASSUME TurnInv, [TurnNext]_turnVars PROVE TurnInv'
    OBVIOUS
<1>1. CASE Answers
    BY <1>1, AnswersTurn
<1>2. CASE AskAgain
    BY <1>2, AskAgainTurn
<1>3. CASE TakeResult
    BY <1>3, TakeResultTurn
<1>4. CASE TakeCancel
    BY <1>4, QuietTurn DEF TakeCancel, toolVars
<1>5. CASE WriteMessage
    BY <1>5, WriteMessageTurn
<1>6. CASE CallTool
    BY <1>6, CallToolTurn
<1>7. CASE RunTool
    BY <1>7, RunToolTurn
<1>8. CASE EndTurn
    BY <1>8, QuietTurn DEF EndTurn, toolVars
<1>9. CASE Rest
    BY <1>9, StillTurn DEF Rest
<1>10. CASE UNCHANGED turnVars
    BY <1>10, StillTurn
<1> QED
    BY <1>1, <1>2, <1>3, <1>4, <1>5, <1>6, <1>7, <1>8, <1>9, <1>10 DEF TurnNext

\* The invariant of a turn: the activity's, the rows that are written or still to be
\* written, and the call that is run.
THEOREM TurnInductive == TurnSpec => []TurnInv
<1>1. TurnInit => TurnInv
    <2> SUFFICES ASSUME TurnInit PROVE TurnInv
        OBVIOUS
    <2>1. ask \in Asks /\ Blank /\ at = "calling" /\ phase = "model" /\ attempt = 0 /\ rows = {}
        BY DEF TurnInit, ModelInit, ModelIdle, ToolInit, Blank
    <2>2. ModelInv
        BY <2>1, BlankFits DEF ModelInv
    <2> QED  BY <2>1, <2>2 DEF TurnInv, CallKept
<1> QED  BY <1>1, TurnStep, PTL DEF TurnSpec

\* A turn runs its tool's activity as that activity runs by itself: it starts it
\* once, with an input of the answer, and then only its executions take steps.
THEOREM TurnRunsTool == TurnSpec => ToolSpec
<1>1. TurnInit => ToolInit
    BY DEF TurnInit
<1>2. TurnInv /\ [TurnNext]_turnVars => [ToolNext]_toolVars
    <2> SUFFICES ASSUME TurnInv, [TurnNext]_turnVars PROVE [ToolNext]_toolVars
        OBVIOUS
    <2>1. CASE CallTool
        BY <2>1, CallToolTurn DEF ToolNext
    <2>2. CASE RunTool
        BY <2>2 DEF RunTool
    <2>3. CASE UNCHANGED turnVars
        BY <2>3 DEF turnVars
    <2>4. CASE Answers \/ AskAgain \/ TakeResult \/ TakeCancel \/ WriteMessage \/ EndTurn \/ Rest
        <3>1. UNCHANGED toolVars
            BY <2>4 DEF Answers, AskAgain, TakeResult, TakeCancel, WriteMessage, EndTurn, Rest,
                        turnVars, toolVars
        <3> QED  BY <3>1
    <2> QED  BY <2>1, <2>2, <2>3, <2>4 DEF TurnNext
<1> QED  BY <1>1, <1>2, TurnInductive, PTL DEF TurnSpec, ToolSpec

\* In a turn, what the activity returns is the answer that the provider meant.
THEOREM TurnResultsAreAnswers == TurnSpec => []ResultIsAnswer
<1>1. TurnInv => ResultIsAnswer
    BY DEF TurnInv, ModelInv, Returned, ResultIsAnswer
<1> QED  BY TurnInductive, <1>1, PTL

\* In a turn, the elements in a lane are the first ones of the list, each whole.
THEOREM TurnOnlyFinalElements == TurnSpec => []ElementsAreFinal
<1>1. TurnInv => ElementsAreFinal
    BY DEF TurnInv, ModelInv, LanesOK
<1> QED  BY TurnInductive, <1>1, PTL

LEMMA TurnInputs == TurnInv /\ InputsInv /\ [TurnNext]_turnVars => InputsInv'
<1> SUFFICES ASSUME TurnInv, InputsInv, [TurnNext]_turnVars PROVE InputsInv'
    OBVIOUS
<1>0. ModelInv /\ ask \in Asks
    BY DEF TurnInv, ModelInv, ModelTypes
<1>1. CASE Answers
    BY <1>0, <1>1, InputsStep DEF Answers
<1>2. ASSUME UNCHANGED modelVars PROVE InputsInv'
    BY <1>2, InputsStay DEF modelVars
<1>3. ASSUME ask' = ask, said' = Silent, lanes' = NoLanes, at' = "returned" => InputReceipts'
      PROVE  InputsInv'
    <2>1. (ask \in Asks /\ said = Silent /\ lanes = NoLanes /\ (at = "returned" => InputReceipts))'
        BY <1>0, <1>3
    <2> QED  BY <2>1, InputsAgain
<1>4. CASE AskAgain
    BY <1>3, <1>4 DEF AskAgain, Forgets
<1>5. CASE TakeResult
    <2>1. /\ at = "returned" /\ at' = "returned" /\ ask' = ask /\ said' = Silent /\ lanes' = NoLanes
          /\ result' = Received
        BY <1>5 DEF TakeResult, Forgets
    <2>2. result'.receipts = result.receipts \/ result'.receipts = <<>>
        BY <1>0, <2>1 DEF Received, ModelInv, Returned
    <2>3. InputReceipts'
        <3>1. answer' = answer /\ DOMAIN <<>> = {}
            BY <2>1 DEF answer
        <3>2. CASE result'.receipts = <<>>
            BY <3>1, <3>2 DEF InputReceipts
        <3>3. CASE result'.receipts = result.receipts
            BY <2>1, <3>1, <3>3 DEF InputsInv, InputReceipts, InputShown
        <3> QED  BY <2>2, <3>2, <3>3
    <2> QED  BY <1>3, <2>1, <2>3
<1>6. CASE CallTool
    <2>1. /\ UNCHANGED <<ask, at, said, lanes, relay>> /\ result' = [result EXCEPT !.receipts = <<>>]
          /\ at = "returned"
        BY <1>6 DEF CallTool, TurnInv, RowsKept
    <2>2. result'.receipts = <<>>
        BY <1>0, <2>1 DEF ModelInv, Returned
    <2> QED  BY <2>1, <2>2, InputsStay
<1>7. CASE TakeCancel \/ WriteMessage \/ RunTool \/ EndTurn \/ Rest \/ UNCHANGED turnVars
    <2>1. UNCHANGED modelVars
        BY <1>7 DEF TakeCancel, WriteMessage, RunTool, EndTurn, Rest, turnVars, modelVars
    <2> QED  BY <1>2, <2>1
<1> QED  BY <1>1, <1>4, <1>5, <1>6, <1>7 DEF TurnNext

\* In a turn too, the previews of tool inputs show what was streamed of their calls.
THEOREM TurnInputsInductive == TurnSpec => []InputsInv
<1>1. TurnInit => InputsInv
    BY InputsInitially DEF TurnInit, ModelInit, ModelIdle
<1> QED  BY <1>1, TurnInputs, TurnInductive, PTL DEF TurnSpec

\* In a turn, the receipt of a lane says what the result says, that of a tool's input
\* what was streamed of it.
THEOREM TurnReceiptsTell == TurnSpec => []ReceiptsTellResult
<1>1. TurnInv => ModelInv
    BY DEF TurnInv
<1> QED  BY <1>1, TurnInductive, TurnInputsInductive, ToldBoth, PTL

\* The answer of a tool leads to what one execution of it made, in a turn too.
THEOREM TurnAnswersAreWhatRan == TurnSpec => []ReturnedIsWhatRan
BY TurnRunsTool, AnswersAreWhatRan, PTL

\* A denied call does not run in a turn.
THEOREM TurnDenialsHold == TurnSpec => []DeniedNeverRan
BY TurnRunsTool, DenialsHold, PTL

\* What a turn's tool returns is as small as its policy wants it.
THEOREM TurnHistoryIsSmall == TurnSpec => []HistoryStaysSmall
BY TurnRunsTool, HistoryIsSmall, PTL

\* What a step said is in its message records once they are written: its text or its
\* value, and the reasoning that was shown.
THEOREM RecordsTellStep == TurnSpec => []RecordTellsStep
<1>1. TurnInv => RecordTellsStep
    <2> SUFFICES ASSUME TurnInv, phase = "records", writes = <<>>
                 PROVE  LET whole == relay = "on" \/ DOMAIN result.receipts = {}
                            shown == opts.visible /\ relay = "on"
                        IN /\ whole /\ result.text # <<>> /\ (~shown \/ opts.lane = "text") =>
                                 Row("message", "text", result.text) \in rows
                           /\ shown /\ opts.lane = "object" /\ opts.json /\ IsJSON(result.text) =>
                                 Row("message", "object",
                                     <<Value(result.text), FinalElements(result.text)>>) \in rows
                           /\ shown /\ result.reasoning # <<>> =>
                                 Row("message:reasoning", "reasoning", result.reasoning) \in rows
        BY DEF RecordTellsStep
    <2> DEFINE shown == opts.visible /\ relay = "on"
    <2>1. RowsKept /\ AllReceipts /\ ReceiptsTellMessage /\ at = "returned"
        BY DEF TurnInv, ModelInv, RowsKept, Returned
    <2>2. Entries(MessageRows(result)) \subseteq rows
        <3>1. Entries(writes) = {}
            BY DEF Entries
        <3> QED  BY <2>1, <3>1 DEF RowsKept
    <2>3. opts.api = (IF opts.visible THEN "stream" ELSE "generate") /\ (~Streams => DOMAIN result.receipts = {})
        BY <2>1 DEF RowsKept, ByAgent
    <2>4. \A lane \in {"object", "reasoning", "text"} :
             Lane(lane, Nothing) \in DOMAIN result.receipts => RowOf(lane, result) \in rows
        BY <2>2, RowsOfResult
    <2>5. DOMAIN result.receipts = {} => TextRow(result) \in rows
        BY <2>2, RowsOfResult
    <2>6. shown => opts.api = "stream" /\ Streams
        BY <2>3 DEF Streams
    <2>7. ASSUME relay = "on" \/ DOMAIN result.receipts = {}, result.text # <<>>,
                 ~shown \/ opts.lane = "text"
          PROVE  Row("message", "text", result.text) \in rows
        <3>1. CASE WordLane \in DOMAIN result.receipts
            <4>1. result.receipts[WordLane].text = result.text
                BY <2>1, <3>1 DEF ReceiptsTellMessage, WordLane, Lane
            <4>2. RowOf("text", result) = Row("message", "text", result.text)
                BY <4>1 DEF RowOf, RecordOf, FieldOfLane, WordLane
            <4> QED  BY <2>4, <3>1, <4>2 DEF WordLane
        <3>2. CASE WordLane \notin DOMAIN result.receipts
            <4>1. ~shown
                BY <2>1, <2>6, <2>7, <3>2 DEF AllReceipts
            <4>2. DOMAIN result.receipts = {}
                BY <2>3, <2>7, <4>1 DEF Streams
            <4> QED  BY <2>5, <4>2 DEF TextRow
        <3> QED  BY <3>1, <3>2
    <2>8. ASSUME shown, opts.lane = "object", opts.json, IsJSON(result.text)
          PROVE  Row("message", "object", <<Value(result.text), FinalElements(result.text)>>) \in rows
        <3>1. ObjectLane \in DOMAIN result.receipts
            BY <2>1, <2>6, <2>8 DEF AllReceipts
        <3>2. /\ result.receipts[ObjectLane].object = Value(result.text)
              /\ result.receipts[ObjectLane].elements = FinalElements(result.text)
            BY <2>1, <2>6, <2>8, <3>1 DEF ReceiptsTellMessage, ObjectLane, Lane, TextLane
        <3>3. RowOf("object", result)
                 = Row("message", "object", <<Value(result.text), FinalElements(result.text)>>)
            BY <3>2 DEF RowOf, RecordOf, FieldOfLane, ObjectLane
        <3> QED  BY <2>4, <3>1, <3>3 DEF ObjectLane
    <2>9. ASSUME shown, result.reasoning # <<>>
          PROVE  Row("message:reasoning", "reasoning", result.reasoning) \in rows
        <3>1. ReasoningLane \in DOMAIN result.receipts
            BY <2>1, <2>6, <2>9 DEF AllReceipts
        <3>2. result.receipts[ReasoningLane].text = result.reasoning
            BY <2>1, <3>1 DEF ReceiptsTellMessage, ReasoningLane, Lane
        <3>3. RowOf("reasoning", result) = Row("message:reasoning", "reasoning", result.reasoning)
            BY <3>2 DEF RowOf, RecordOf, FieldOfLane, ReasoningLane
        <3> QED  BY <2>4, <3>1, <3>3 DEF ReasoningLane
    <2> QED  BY <2>7, <2>8, <2>9
<1> QED  BY TurnInductive, <1>1, PTL

\* Whatever runs of a tool ran with the input that the provider meant for its call.
THEOREM ToolsRunAsIntended == TurnSpec => []ToolRanAsIntended
<1>1. TurnInv /\ TypeInv => ToolRanAsIntended
    <2> SUFFICES ASSUME TurnInv, TypeInv, NEW e \in Executions, exec[e].run # None
                 PROVE  attempt # 0
        BY DEF ToolRanAsIntended, TurnInv, CallKept
    <2>1. e > 0
        BY Constant
    <2>2. attempt = 0 => exec[e] = NoExec
        BY <2>1 DEF TypeInv, Fresh
    <2> QED  BY <2>2 DEF NoExec
<1>2. ToolSpec => []TypeInv
    BY TypeInit, TypeStep, PTL DEF ToolSpec
<1> QED  BY TurnInductive, TurnRunsTool, <1>1, <1>2, PTL

\* The writes of a step's records conflict only where elements of a list are relayed
\* beside the text they are part of: two lanes with one target record.
THEOREM ConflictsAreOfElements == TurnSpec => [](NoRecordConflict \/ ElementsBesideText)
<1>1. TurnInv => NoRecordConflict \/ ElementsBesideText
    <2> SUFFICES ASSUME TurnInv, phase = "records", writes # <<>>,
                        NEW r \in rows, r.record = Head(writes).record, r # Head(writes)
                 PROVE  ElementsBesideText
        BY DEF NoRecordConflict, Conflicts
    <2> DEFINE S == Entries(MessageRows(result))
               h == Head(writes)
               Of(x) == \E lane \in {"object", "reasoning", "text"} :
                            Lane(lane, Nothing) \in DOMAIN result.receipts /\ x = RowOf(lane, result)
    <2>1. /\ writes \in Seq(S) /\ rows \subseteq S /\ LanesApart
        BY DEF TurnInv, ModelInv, Returned, RowsKept
    <2>2. h \in S /\ r \in S
        <3> HIDE DEF S
        <3> QED  BY <2>1, HeadOrTail
    <2>3. S # {TextRow(result)}
        BY <2>2
    <2>4. Of(r) /\ Of(h)
        <3> HIDE DEF h
        <3> QED  BY <2>2, <2>3, RowsOfResult
    <2>5. /\ RowOf("object", result).record = "message"
          /\ RowOf("text", result).record = "message"
          /\ RowOf("reasoning", result).record = "message:reasoning"
        BY DEF RowOf, Row, RecordOf
    <2>6. ObjectLane \in DOMAIN result.receipts /\ WordLane \in DOMAIN result.receipts
        BY <2>4, <2>5 DEF ObjectLane, WordLane
    <2> QED  BY <2>1, <2>6 DEF LanesApart
<1> QED  BY TurnInductive, <1>1, PTL
=============================================================================
