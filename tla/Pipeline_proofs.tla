-------------------------- MODULE Pipeline_proofs --------------------------
(***************************************************************************)
(* Proofs about a request's way through the plugins, for any requests,     *)
(* answers, references, users and texts.                                   *)
(*                                                                         *)
(* 1. Answers have the client's format.  Picker and translator decide      *)
(*    separately, from the formats the resolver wrote.  The invariant      *)
(*    follows the format of the request as it leaves (Outward) and of the  *)
(*    answer as it comes back (Inward), and records what each of the two   *)
(*    has decided (Decided).                                               *)
(* 2. Draws match weights: the sums of weights are defined recursively, so *)
(*    this needs induction, which Induction states with a set.             *)
(* 3. What the extractors find in the text of an answer.                   *)
(* 4. Types.                                                               *)
(* 5. Metering: MeteringInv says whose request it is (Charged), that the   *)
(*    answer will be readable and will have usage (Readable, Informed) and *)
(*    that no text is lost between chunks (Buffered).                      *)
(* 6. Guards: of what has passed a guard it has read all it looks at       *)
(*    (Withheld, Delivered).                                               *)
(***************************************************************************)
EXTENDS Pipeline, FiniteSetTheorems, SequenceTheorems, WellFoundedInduction, TLAPS

(* 1. Formats.                                                              *)

ClientFormat == IF client.model THEN DetectInputAPIFormat(client.path) ELSE ""

Early == {"guard", "resolve"}
Unpicked == Early \cup {"pick"}
Answered == {"chunks", "account", "return", "review"}
Sent == {"provider"} \cup Answered

FormatTypes ==
    /\ client \in Client /\ stage \in Stages
    /\ input \in Formats \cup {""} /\ output \in Formats \cup {""}
    /\ out \in Outgoing
    /\ stage \in Answered => answer \in Answer

Outward ==
    /\ stage \in Early => input = "" /\ output = "" /\ out.format = ""
    /\ stage \notin Early => input = ClientFormat /\ (output # "" => input # "")
    /\ stage \in Sent => out.format = IF output = "" THEN input ELSE output
    /\ stage \notin Sent \cup {"done", "broken"} => out.format = input

Decided ==
    /\ stage \notin Unpicked \cup {"done", "broken"} =>
          profile = IF PicksPassthrough THEN "passthrough" ELSE "translation"
    /\ stage \in Sent /\ Translates => <<input, output>> \in Translators

Inward ==
    /\ stage = "chunks" => profile = "passthrough"
    /\ stage \in {"account", "return", "review"} => profile = "translation"
    /\ stage \in {"account", "return"} => answer.format = Wire(out.format)
    /\ stage = "review" => answer.format = ClientFormat

FormatInv == FormatTypes /\ Outward /\ Decided /\ Inward /\ AnsweredInClientFormat

-----------------------------------------------------------------------------
(* Paths never lead to the Vertex format.                                  *)
LEMMA DetectType ==
    ASSUME NEW p
    PROVE  /\ DetectInputAPIFormat(p) \in Formats \cup {""}
           /\ DetectInputAPIFormat(p) # "vertex-messages"
  BY DEF DetectInputAPIFormat, Formats

(* An answer that passes as chunks has the client's format.                *)
LEMMA PassedFormat ==
    ASSUME FormatInv, stage = "provider", PicksPassthrough
    PROVE  Wire(out.format) = ClientFormat
  <1>1. input = ClientFormat /\ input # "vertex-messages"
    BY DetectType DEF FormatInv, Outward, Early, ClientFormat
  <1>2. out.format = input
    BY DEF FormatInv, Outward, Sent, PicksPassthrough
  <1> QED
    BY <1>1, <1>2 DEF Wire

(* An answer that is buffered is translated to the client's format.        *)
LEMMA TranslatedFormat ==
    ASSUME FormatInv, stage = "return"
    PROVE  (IF Translates THEN TranslateBody(answer) ELSE answer).format = ClientFormat
  <1>1. /\ input = ClientFormat /\ input # "vertex-messages" /\ (output # "" => input # "")
        /\ out.format = (IF output = "" THEN input ELSE output)
        /\ answer.format = Wire(out.format) /\ answer \in Answer
        /\ ~PicksPassthrough
    BY DetectType DEF FormatInv, FormatTypes, Outward, Early, Sent, Answered, ClientFormat, Inward, Decided, Unpicked
  <1>2. CASE ~Translates
    BY <1>1, <1>2 DEF Translates, IsPassthrough, PicksPassthrough, Wire
  <1>3. CASE Translates
    <2>1. <<input, output>> \in Translators
      BY <1>3 DEF FormatInv, Decided, Sent, Answered
    <2>2. CASE input = "openai-chat" /\ Wire(output) = "messages"
      <3>1. TranslateBody(answer).format = "openai-chat"
        BY <1>1, <2>2 DEF TranslateBody, Answer
      <3> QED
        BY <1>1, <1>3, <2>2, <3>1
    <2>3. CASE ~(input = "openai-chat" /\ Wire(output) = "messages")
      <3>1. TranslateBody(answer) = answer
        BY <2>3 DEF TranslateBody
      <3>2. output # "" /\ answer.format = Wire(output)
        BY <1>1, <1>3 DEF Translates
      <3>3. Wire(output) = input
        BY <2>1, <2>3 DEF Translators, Wire
      <3> QED
        BY <1>1, <1>3, <3>1, <3>2, <3>3
    <2> QED
      BY <2>2, <2>3
  <1> QED
    BY <1>2, <1>3

(* A translated answer is an answer.                                       *)
LEMMA TranslatedType ==
    ASSUME NEW a \in Answer
    PROVE  TranslateBody(a) \in Answer
  <1>1. CASE ~(input = "openai-chat" /\ Wire(output) = "messages")
    BY <1>1 DEF TranslateBody
  <1>2. CASE input = "openai-chat" /\ Wire(output) = "messages"
    <2>1. PICK b : b = [f \in Fields |-> IF f = "choices" /\ a.success
                                        THEN Choices(a.body["content"]) ELSE Absent]
      OBVIOUS
    <2>2. a.body["content"].items \in SUBSET Item
      <3>1. a.body \in [Fields -> Section] /\ "content" \in Fields
        BY DEF Answer, Body, Fields
      <3>2. a.body["content"] \in Section
        BY <3>1
      <3> QED
        BY <3>2 DEF Section, Absent
    <2>3. b \in Body
      <3>1. Choices(a.body["content"]) \in Section /\ Absent \in Section
        BY <2>2 DEF Choices, Section
      <3> QED
        BY <2>1, <3>1 DEF Body
    <2>4. TranslateBody(a) = [a EXCEPT !.format = "openai-chat", !.body = b]
      BY <1>2, <2>1 DEF TranslateBody, Answer
    <2> QED
      BY <2>3, <2>4 DEF Answer, Formats
  <1> QED
    BY <1>1, <1>2

-----------------------------------------------------------------------------
LEMMA FormatInit == Init => FormatInv
  <1> SUFFICES ASSUME Init PROVE FormatInv
    OBVIOUS
  <1>1. client \in Client /\ client.user \in Users \cup {""} /\ client.usage \in BOOLEAN
        /\ client.encoding \in BOOLEAN
    BY PipelineAssumption DEF Init, Client
  <1>2. FormatTypes
    BY <1>1 DEF Init, FormatTypes, Outgoing, Stages, Answered
  <1>3. Outward /\ Decided /\ Inward /\ AnsweredInClientFormat
    BY DEF Init, Outward, Early, Decided, Unpicked, Sent, Answered, Inward, AnsweredInClientFormat
  <1> QED
    BY <1>2, <1>3 DEF FormatInv

(* A plugin that ends the request or hands it on without touching formats. *)
Keeps == UNCHANGED <<client, input, output, profile, answer, shown>> /\ out'.format = out.format

LEMMA HandOn ==
    ASSUME FormatInv, Keeps, out' \in Outgoing,
           \/ stage = "guard" /\ stage' = "resolve"
           \/ stage = "enforce" /\ stage' = "balance"
           \/ stage = "balance" /\ stage' = "inspect"
           \/ stage = "inspect" /\ stage' = "translate"
           \/ stage = "account" /\ stage' = "return"
           \/ stage = "chunks" /\ stage' = "chunks"
           \/ stage \notin Early /\ stage' \in {"done", "broken"}
    PROVE  FormatInv'
  <1> USE DEF Keeps, FormatInv
  <1>1. FormatTypes'
    BY DEF FormatTypes, Outgoing, Stages, Answered
  <1>2. Outward'
    BY DEF Outward, Early, Sent, Answered, ClientFormat
  <1>3. Decided'
    BY DEF Decided, Unpicked, Early, Sent, Answered, PicksPassthrough, Translates, IsPassthrough
  <1>4. Inward'
    BY DEF Inward, ClientFormat
  <1>5. AnsweredInClientFormat'
    BY DEF AnsweredInClientFormat
  <1> QED
    BY <1>1, <1>2, <1>3, <1>4, <1>5

(* The fields of the outgoing request other than its format.               *)
LEMMA OutTypes ==
    ASSUME FormatInv
    PROVE  \A u \in Users \cup {""}, b \in BOOLEAN :
             /\ [out EXCEPT !.user = u] \in Outgoing /\ [out EXCEPT !.user = u].format = out.format
             /\ [out EXCEPT !.usage = b] \in Outgoing /\ [out EXCEPT !.usage = b].format = out.format
             /\ [out EXCEPT !.encoding = b] \in Outgoing /\ [out EXCEPT !.encoding = b].format = out.format
  BY DEF FormatInv, FormatTypes, Outgoing

LEMMA RequestPlugins ==
    ASSUME FormatInv,
           \/ Guard \/ Enforce \/ Unmetered \/ BalanceChecked \/ BalanceCheckFails \/ InspectRequest
    PROVE  FormatInv'
  <1> USE DEF requestVars, stateVars, chunkVars, Refuse, Keeps
  <1>1. out \in Outgoing
    BY DEF FormatInv, FormatTypes, Outgoing
  <1>2. CASE Guard
    <2>1. out' \in Outgoing /\ out'.format = out.format
      BY <1>2, OutTypes DEF Guard
    <2> QED
      BY <1>2, <2>1, HandOn DEF Guard, Outgoing
  <1>3. CASE Enforce
    <2>1. (out.usage \/ (client.stream /\ input \in {"", "openai-chat"})) \in BOOLEAN
      OBVIOUS
    <2>2. out' \in Outgoing /\ out'.format = out.format
      BY <1>3, <2>1, OutTypes DEF Enforce
    <2> QED
      BY <1>3, <2>2, HandOn DEF Enforce, Outgoing
  <1>4. CASE Unmetered
    BY <1>1, <1>4, HandOn DEF Unmetered, Outgoing
  <1>5. CASE BalanceChecked
    <2>1. out' \in Outgoing /\ out'.format = out.format
      BY <1>1, <1>5, OutTypes DEF BalanceChecked
    <2> QED
      BY <1>5, <2>1, HandOn DEF BalanceChecked, Outgoing, Early
  <1>6. CASE BalanceCheckFails
    BY <1>1, <1>6, HandOn DEF BalanceCheckFails, Outgoing, Early
  <1>7. CASE InspectRequest
    <2>1. stage = "inspect" /\ stage' \in {"translate", "done"}
      BY <1>7 DEF InspectRequest
    <2> QED
      BY <1>1, <1>7, <2>1, HandOn DEF InspectRequest, Outgoing, Early
  <1> QED
    BY <1>2, <1>3, <1>4, <1>5, <1>6, <1>7

(* The resolver writes the formats.                                        *)
LEMMA ResolveHolds ==
    ASSUME FormatInv, NotInference \/ ResolveModel
    PROVE  FormatInv'
  <1> USE DEF requestVars, stateVars, chunkVars, Refuse, FormatInv
  <1>1. /\ UNCHANGED <<client, profile, answer, shown>> /\ stage = "resolve" /\ stage' \in {"pick", "done"}
        /\ input = "" /\ output = "" /\ out.format = ""
    BY DEF NotInference, ResolveModel, SelectRef, Outward, Early
  <1>2. client \in Client /\ client.model \in BOOLEAN
    BY DEF FormatTypes, Outgoing, Client
  <1>3. /\ input' = ClientFormat /\ out'.format = input' /\ output' \in Formats \cup {""}
        /\ (output' # "" => input' # "")
        /\ out' \in Outgoing
    <2>1. CASE NotInference
      BY <1>1, <1>2, <2>1 DEF NotInference, ClientFormat, FormatTypes, Outgoing
    <2>2. CASE ResolveModel
      <3>1. input' = ClientFormat /\ input' \in Formats \cup {""} /\ out' = [out EXCEPT !.format = input']
        BY <1>2, <2>2, DetectType DEF ResolveModel, ClientFormat
      <3>2. output' \in Formats \cup {""} /\ (output' # "" => input' # "")
        <4>1. refs' # <<>> => refs' \in Seq(Ref)
          BY <2>2, PipelineAssumption DEF ResolveModel
        <4>2. ASSUME refs' # <<>>, SelectRef PROVE output' \in Formats
          <5>1. PICK k \in DOMAIN refs' : output' = refs'[k].format
            BY <4>2 DEF SelectRef
          <5>2. refs'[k] \in Ref
            BY <4>1, <4>2
          <5> QED
            BY <5>1, <5>2 DEF Ref
        <4> QED
          BY <1>1, <2>2, <4>2 DEF ResolveModel
      <3> QED
        BY <3>1, <3>2 DEF FormatTypes, Outgoing
    <2> QED
      BY <2>1, <2>2
  <1>4. FormatTypes'
    BY <1>1, <1>2, <1>3, DetectType DEF FormatTypes, Outgoing, ClientFormat, Stages, Answered
  <1>5. Outward'
    BY <1>1, <1>3 DEF Outward, Early, Sent, Answered, ClientFormat
  <1>6. Decided' /\ Inward'
    BY <1>1 DEF Decided, Unpicked, Early, Sent, Answered, Inward
  <1>7. AnsweredInClientFormat'
    BY <1>1 DEF AnsweredInClientFormat
  <1> QED
    BY <1>4, <1>5, <1>6, <1>7

LEMMA PickHolds ==
    ASSUME FormatInv, Pick
    PROVE  FormatInv'
  <1> USE DEF requestVars, stateVars, chunkVars, FormatInv
  <1>1. /\ UNCHANGED <<client, out, input, output, answer, shown>> /\ stage = "pick" /\ stage' = "enforce"
        /\ profile' = IF PicksPassthrough THEN "passthrough" ELSE "translation"
    BY DEF Pick
  <1>2. FormatTypes' /\ Outward'
    BY <1>1 DEF FormatTypes, Outgoing, Stages, Answered, Outward, Early, Sent, ClientFormat
  <1>3. Decided' /\ Inward'
    BY <1>1 DEF Decided, Sent, Answered, PicksPassthrough, Inward
  <1>4. AnsweredInClientFormat'
    BY <1>1 DEF AnsweredInClientFormat
  <1> QED
    BY <1>2, <1>3, <1>4

LEMMA TranslateHolds ==
    ASSUME FormatInv, TranslateRequest
    PROVE  FormatInv'
  <1> USE DEF requestVars, stateVars, chunkVars, Refuse
  <1>1. /\ UNCHANGED <<client, input, output, profile, answer, shown>> /\ stage = "translate"
    BY DEF TranslateRequest
  <1>2. CASE out' = out /\ stage' = "done"
    BY <1>1, <1>2, HandOn DEF Keeps, Early, FormatInv, FormatTypes, Outgoing
  <1>3. CASE ~(out' = out /\ stage' = "done")
    <2>1. /\ stage' = "provider" /\ (Translates => <<input, output>> \in Translators)
          /\ out' = IF output = "" THEN out ELSE [out EXCEPT !.format = output]
      BY <1>3 DEF TranslateRequest, Translatable
    <2>2. /\ out' \in Outgoing
          /\ out'.format = IF output = "" THEN out.format ELSE output
      BY <2>1 DEF FormatInv, FormatTypes, Outgoing
    <2>3. FormatTypes'
      BY <1>1, <2>1, <2>2 DEF FormatInv, FormatTypes, Outgoing, Stages, Answered
    <2>4. Outward'
      BY <1>1, <2>1, <2>2 DEF FormatInv, Outward, Early, Sent, Answered, ClientFormat
    <2>5. Decided' /\ Inward'
      BY <1>1, <2>1 DEF FormatInv, Decided, Unpicked, Early, Sent, Answered, PicksPassthrough, Translates,
          IsPassthrough, Inward
    <2>6. AnsweredInClientFormat'
      BY <1>1 DEF FormatInv, AnsweredInClientFormat
    <2> QED
      BY <2>3, <2>4, <2>5, <2>6 DEF FormatInv
  <1> QED
    BY <1>2, <1>3

LEMMA ProviderHolds ==
    ASSUME FormatInv, Provider
    PROVE  FormatInv'
  <1> USE DEF requestVars, stateVars, chunkVars
  <1>1. /\ UNCHANGED <<client, out, input, output, profile>> /\ stage = "provider"
        /\ stage' = (IF profile = "passthrough" THEN "chunks" ELSE "account")
        /\ shown' = IF profile = "passthrough" THEN Shown(answer') ELSE None
        /\ answer' \in Answers /\ answer'.format = Wire(out.format)
    BY DEF Provider
  <1>2. answer' \in Answer
    BY <1>1, PipelineAssumption
  <1>3. FormatTypes' /\ Outward'
    BY <1>1, <1>2 DEF FormatInv, FormatTypes, Outgoing, Stages, Outward, Early, Sent, Answered, ClientFormat
  <1>4. Decided'
    BY <1>1 DEF FormatInv, Decided, Unpicked, Early, Sent, Answered, PicksPassthrough, Translates, IsPassthrough
  <1>5. profile = IF PicksPassthrough THEN "passthrough" ELSE "translation"
    BY <1>1 DEF FormatInv, Decided, Unpicked, Early
  <1>6. Inward'
    BY <1>1, <1>5 DEF Inward
  <1>7. AnsweredInClientFormat'
    <2>1. profile = "passthrough" => Shown(answer').format = ClientFormat
      BY <1>1, <1>5, PassedFormat DEF Shown
    <2> QED
      BY <1>1, <2>1 DEF AnsweredInClientFormat, ClientFormat
  <1> QED
    BY <1>3, <1>4, <1>6, <1>7 DEF FormatInv

(* The plugins of the answer.                                              *)
LEMMA AnswerHolds ==
    ASSUME FormatInv, (stage = "chunks" /\ Chunks) \/ Break \/ AccountBody
    PROVE  FormatInv'
  <1> USE DEF requestVars, stateVars, chunkVars
  <1>1. UNCHANGED <<client, out, input, output, profile, answer, shown>>
    BY DEF Chunks, Chunk, Break, AccountBody
  <1>2. \/ stage = "chunks" /\ stage' \in {"chunks", "done", "broken"}
        \/ stage = "account" /\ stage' = "return"
    BY DEF Chunks, Chunk, Break, AccountBody
  <1> QED
    BY <1>1, <1>2, HandOn DEF Keeps, Early, FormatInv, FormatTypes, Outgoing

LEMMA TranslateResponseHolds ==
    ASSUME FormatInv, TranslateResponse
    PROVE  FormatInv'
  <1> USE DEF requestVars, stateVars, chunkVars
  <1>1. /\ UNCHANGED <<client, out, input, output, profile, shown>> /\ stage = "return" /\ stage' = "review"
        /\ answer' = IF Translates THEN TranslateBody(answer) ELSE answer
    BY DEF TranslateResponse
  <1>2. answer'.format = ClientFormat
    BY <1>1, TranslatedFormat
  <1>3. answer' \in Answer
    BY <1>1, TranslatedType DEF FormatInv, FormatTypes, Outgoing, Answered
  <1>4. FormatTypes' /\ Outward'
    BY <1>1, <1>3 DEF FormatInv, FormatTypes, Outgoing, Stages, Outward, Early, Sent, Answered, ClientFormat
  <1>5. Decided'
    BY <1>1 DEF FormatInv, Decided, Unpicked, Early, Sent, Answered, PicksPassthrough, Translates, IsPassthrough
  <1>6. Inward' /\ AnsweredInClientFormat'
    BY <1>1, <1>2 DEF FormatInv, Inward, AnsweredInClientFormat, ClientFormat
  <1> QED
    BY <1>4, <1>5, <1>6 DEF FormatInv

LEMMA ReviewHolds ==
    ASSUME FormatInv, ReviewResponse
    PROVE  FormatInv'
  <1> USE DEF requestVars, stateVars, chunkVars, Refuse
  <1>1. /\ UNCHANGED <<client, out, input, output, profile, answer>> /\ stage = "review" /\ stage' = "done"
        /\ shown' = shown \/ shown' = Shown(answer)
    BY DEF ReviewResponse
  <1>2. answer.format = ClientFormat
    BY <1>1 DEF FormatInv, Inward
  <1>3. FormatTypes' /\ Outward' /\ Decided' /\ Inward'
    BY <1>1 DEF FormatInv, FormatTypes, Outgoing, Stages, Outward, Early, Sent, Answered, ClientFormat, Decided,
        Unpicked, Inward
  <1>4. AnsweredInClientFormat'
    <2>1. CASE shown' = shown
      BY <1>1, <2>1 DEF FormatInv, AnsweredInClientFormat
    <2>2. CASE shown' = Shown(answer)
      <3>1. shown'.format = ClientFormat
        BY <1>2, <2>2 DEF Shown
      <3> QED
        BY <1>1, <3>1 DEF AnsweredInClientFormat, ClientFormat
    <2> QED
      BY <1>1, <2>1, <2>2
  <1> QED
    BY <1>3, <1>4 DEF FormatInv

LEMMA FormatStep ==
    ASSUME FormatInv, [Next]_vars
    PROVE  FormatInv'
  <1>1. CASE UNCHANGED vars
    <2> USE DEF vars, FormatInv
    <2>1. FormatTypes' /\ Outward'
      BY <1>1 DEF FormatTypes, Outgoing, Outward, ClientFormat
    <2>2. Decided'
      BY <1>1 DEF Decided, PicksPassthrough, Translates, IsPassthrough
    <2>3. Inward'
      BY <1>1 DEF Inward, ClientFormat
    <2>4. AnsweredInClientFormat'
      BY <1>1 DEF AnsweredInClientFormat
    <2> QED
      BY <2>1, <2>2, <2>3, <2>4
  <1> QED
    BY <1>1, RequestPlugins, ResolveHolds, PickHolds, TranslateHolds, ProviderHolds, AnswerHolds,
        TranslateResponseHolds, ReviewHolds DEF Next

(* No answer reaches the client in another API's format: what the picker   *)
(* lets pass as chunks needs no translation, what it holds back is         *)
(* translated.                                                             *)
THEOREM ClientFormatKept == Spec => []AnsweredInClientFormat
  <1>1. FormatInv /\ [Next]_vars => FormatInv'
    BY FormatStep
  <1>2. FormatInv => AnsweredInClientFormat
    BY DEF FormatInv
  <1> QED
    BY <1>1, <1>2, FormatInit, PTL DEF Spec

-----------------------------------------------------------------------------
(* 2. Weighted choice.                                                      *)

(* Every set of numbers that is not empty has a least element.             *)
LEMMA LeastNumber ==
    ASSUME NEW T \in SUBSET Nat, T # {}
    PROVE  \E x \in T : \A y \in T : x <= y
  <1>1. PICK R : R = OpToRel(<, Nat)
    OBVIOUS
  <1>2. IsWellFoundedOn(R, Nat)
    BY <1>1, NatLessThanWellFounded
  <1>3. PICK x \in T : \A y \in T : ~ (<<y, x>> \in R)
    BY <1>2, WFMin
  <1>4. ASSUME NEW y \in T PROVE x <= y
    <2>1. <<y, x>> \notin R /\ y \in Nat /\ x \in Nat
      BY <1>3
    <2>2. <<y, x>> \in R <=> y < x
      BY <1>1, <2>1 DEF OpToRel
    <2> QED
      BY <2>1, <2>2
  <1> QED
    BY <1>4

(* Induction, for a set of numbers.                                        *)
LEMMA Induction ==
    ASSUME NEW S \in SUBSET Nat, 0 \in S, \A n \in S : n + 1 \in S
    PROVE  \A n \in Nat : n \in S
  <1> SUFFICES ASSUME NEW n \in Nat, n \notin S PROVE FALSE
    OBVIOUS
  <1>1. PICK m \in Nat \ S : \A y \in Nat \ S : m <= y
    BY LeastNumber
  <1>2. m - 1 \in S
    BY <1>1
  <1>3. (m - 1) + 1 \in S
    BY <1>2
  <1> QED
    BY <1>1, <1>3

(* The first line that parses is well defined.                             *)
LEMMA FirstOfLeast ==
    ASSUME NEW S \in SUBSET Nat, S # {}
    PROVE  FirstOf(S) \in S /\ \A j \in S : FirstOf(S) <= j
  BY LeastNumber DEF FirstOf

(* The function of the weights' sums, as far as it exists: it does for     *)
(* every length.                                                           *)
IsSum(s, list, n) == s = [i \in 0..n |-> IF i = 0 THEN 0 ELSE s[i - 1] + list[i].weight]

LEMMA SumExists ==
    ASSUME NEW list
    PROVE  \A n \in Nat : \E s : IsSum(s, list, n)
  <1> DEFINE S == {n \in Nat : \E s : IsSum(s, list, n)}
  <1>1. 0 \in S
    <2>1. IsSum([i \in 0..0 |-> 0], list, 0)
       BY DEF IsSum
    <2> QED
      BY <2>1
  <1>2. ASSUME NEW n \in S PROVE n + 1 \in S
    <2>1. PICK s : IsSum(s, list, n)
      BY <1>2
    <2>2. PICK t : t = [i \in 0..(n + 1) |-> IF i = n + 1 THEN s[n] + list[n + 1].weight ELSE s[i]]
      OBVIOUS
    <2>3. ASSUME NEW i \in 0..(n + 1) PROVE t[i] = IF i = 0 THEN 0 ELSE t[i - 1] + list[i].weight
      BY <2>1, <2>2 DEF IsSum
    <2>4. IsSum(t, list, n + 1)
      BY <2>2, <2>3 DEF IsSum
    <2> QED
      BY <2>4
  <1> HIDE DEF S
  <1>3. S \in SUBSET Nat
    BY DEF S
  <1>4. \A n \in Nat : n \in S
    BY <1>1, <1>2, <1>3, Induction
  <1> QED
    BY <1>4 DEF S

LEMMA WeightStep ==
    ASSUME NEW list \in Seq(Ref)
    PROVE  /\ WeightUpTo(list, 0) = 0
           /\ \A k \in 1..Len(list) : WeightUpTo(list, k) = WeightUpTo(list, k - 1) + list[k].weight
  <1>1. PICK s : s = CHOOSE c : IsSum(c, list, Len(list))
    OBVIOUS
  <1>2. IsSum(s, list, Len(list))
    BY <1>1, SumExists
  <1>3. \A k : WeightUpTo(list, k) = s[k]
    BY <1>1 DEF WeightUpTo, IsSum
  <1>4. s[0] = 0 /\ \A k \in 1..Len(list) : s[k] = s[k - 1] + list[k].weight
    BY <1>2 DEF IsSum
  <1> QED
    BY <1>3, <1>4

LEMMA WeightType ==
    ASSUME NEW list \in Seq(Ref), NEW k \in DOMAIN list
    PROVE  k \in 1..Len(list) /\ list[k].weight \in Nat
  <1>1. list[k] \in Ref
    OBVIOUS
  <1>2. list[k].weight \in 0..100
    BY <1>1 DEF Ref
  <1>3. DOMAIN list = 1..Len(list)
    OBVIOUS
  <1>4. \A w \in 0..100 : w \in Nat
    OBVIOUS
  <1>5. list[k].weight \in Nat
    BY <1>2, <1>4
  <1> QED
    BY <1>3, <1>5

(* Weights add up, never down.                                             *)
LEMMA WeightsGrow ==
    ASSUME NEW list \in Seq(Ref)
    PROVE  \A k \in 0..Len(list) : /\ WeightUpTo(list, k) \in Nat
                                   /\ \A j \in 0..k : WeightUpTo(list, j) <= WeightUpTo(list, k)
  <1> DEFINE P(k) == /\ WeightUpTo(list, k) \in Nat
                     /\ \A j \in 0..k : WeightUpTo(list, j) \in Nat /\ WeightUpTo(list, j) <= WeightUpTo(list, k)
             S == {k \in Nat : k <= Len(list) => P(k)}
  <1>1. 0 \in S
    BY WeightStep
  <1>2. ASSUME NEW k \in S PROVE k + 1 \in S
    <2> SUFFICES ASSUME k + 1 <= Len(list) PROVE P(k + 1)
      OBVIOUS
    <2>1. P(k)
      OBVIOUS
    <2>2. list[k + 1].weight \in Nat
      BY WeightType
    <2>3. WeightUpTo(list, k + 1) = WeightUpTo(list, k) + list[k + 1].weight
      BY WeightStep
    <2>4. ASSUME NEW j \in 0..(k + 1) PROVE WeightUpTo(list, j) \in Nat /\ WeightUpTo(list, j) <= WeightUpTo(list, k + 1)
      <3>1. CASE j = k + 1
        BY <2>1, <2>2, <2>3, <3>1
      <3>2. CASE j \in 0..k
        <4>1. WeightUpTo(list, j) <= WeightUpTo(list, k) /\ WeightUpTo(list, j) \in Nat
          BY <2>1, <3>2
        <4> QED
          BY <2>1, <2>2, <2>3, <4>1
      <3> QED
        BY <3>1, <3>2
    <2> QED
      BY <2>1, <2>2, <2>3, <2>4
  <1> HIDE DEF S
  <1>3. S \in SUBSET Nat
    BY DEF S
  <1>4. \A k \in Nat : k \in S
    BY <1>1, <1>2, <1>3, Induction
  <1> QED
    BY <1>4 DEF S

(* The draws for a reference are those between two sums.                   *)
LEMMA DrawsBetween ==
    ASSUME NEW list \in Seq(Ref), NEW k \in 1..Len(list)
    PROVE  DrawsFor(list, k) = WeightUpTo(list, k - 1)..(WeightUpTo(list, k) - 1)
  <1> DEFINE W(j) == WeightUpTo(list, j)
  <1>1. \A j \in 0..Len(list) : W(j) \in Nat
    BY WeightsGrow
  <1>2. \A i, j \in 0..Len(list) : i <= j => W(i) <= W(j)
    BY WeightsGrow
  <1>3. W(0) = 0 /\ \A j \in 1..Len(list) : W(j) = W(j - 1) + list[j].weight /\ list[j].weight \in Nat
    BY WeightStep, WeightType
  <1>4. ASSUME NEW draw \in 0..(W(Len(list)) - 1)
        PROVE  \E m \in 1..Len(list) : W(m - 1) <= draw /\ draw < W(m)
    <2> DEFINE T == {j \in 0..Len(list) : draw < W(j)}
    <2>1. T \in SUBSET Nat /\ T # {}
      BY <1>1
    <2>2. PICK m \in T : \A j \in T : m <= j
      BY <2>1, LeastNumber
    <2>3. m \in 1..Len(list) /\ m - 1 \in 0..Len(list) /\ m - 1 \notin T
      BY <1>1, <1>3, <2>2
    <2>4. ~(draw < W(m - 1)) /\ draw < W(m)
      BY <2>2, <2>3
    <2> QED
      BY <1>1, <2>3, <2>4
  <1>5. \A draw \in Nat, j \in 1..Len(list) : Stops(list, draw, j) <=> W(j - 1) < W(j) /\ draw < W(j)
    <2> SUFFICES ASSUME NEW draw \in Nat, NEW j \in 1..Len(list)
                 PROVE  Stops(list, draw, j) <=> W(j - 1) < W(j) /\ draw < W(j)
      OBVIOUS
    <2>1. W(j) \in Nat /\ W(j - 1) \in Nat /\ list[j].weight \in Nat /\ W(j) = W(j - 1) + list[j].weight
      BY <1>1, <1>3
    <2> QED
      BY <2>1 DEF Stops
  <1> HIDE DEF W
  <1>6. ASSUME NEW draw \in 0..(W(Len(list)) - 1)
        PROVE  Selects(list, draw, k) <=> W(k - 1) <= draw /\ draw < W(k)
    <2>1. PICK m \in 1..Len(list) : W(m - 1) <= draw /\ draw < W(m)
      BY <1>4
    <2>2. Stops(list, draw, m) /\ \A j \in 1..(m - 1) : ~Stops(list, draw, j)
      <3>1. \A j \in 1..(m - 1) : W(j) <= W(m - 1) /\ j \in 1..Len(list) /\ W(j) \in Nat /\ W(m - 1) \in Nat
        BY <1>1, <1>2
      <3>2. m - 1 \in 0..Len(list) /\ W(m - 1) \in Nat /\ W(m) \in Nat
        BY <1>1
      <3> QED
        BY <1>5, <2>1, <3>1, <3>2
    <2>3. Selects(list, draw, k) <=> k = m
      BY <2>2 DEF Selects
    <2>4. k # m => ~(W(k - 1) <= draw /\ draw < W(k))
      <3>1. k < m => W(k) <= W(m - 1)
        BY <1>2
      <3>2. m < k => W(m) <= W(k - 1)
        BY <1>2
      <3>3. W(k) \in Nat /\ W(m - 1) \in Nat /\ W(m) \in Nat /\ W(k - 1) \in Nat
        BY <1>1
      <3> QED
        BY <2>1, <3>1, <3>2, <3>3
    <2> QED
      BY <2>1, <2>3, <2>4
  <1>7. W(k) <= W(Len(list)) /\ W(k) \in Nat /\ W(k - 1) \in Nat /\ W(Len(list)) \in Nat
    BY <1>1, <1>2
  <1>8. DrawsFor(list, k) = {draw \in 0..(W(Len(list)) - 1) : Selects(list, draw, k)}
    BY DEF DrawsFor, TotalWeight, W
  <1>9. DrawsFor(list, k) = W(k - 1)..(W(k) - 1)
    BY <1>6, <1>7, <1>8
  <1> QED
    BY <1>9 DEF W

(* So there are as many draws as the weight says.                          *)
LEMMA DrawsWeighted ==
    ASSUME NEW list \in Seq(Ref), NEW k \in DOMAIN list
    PROVE  Cardinality(DrawsFor(list, k)) = list[k].weight
  <1>1. k \in 1..Len(list) /\ list[k].weight \in Nat
    BY WeightType
  <1>2. WeightUpTo(list, k - 1) \in Nat /\ WeightUpTo(list, k) \in Nat
    BY <1>1, WeightsGrow
  <1>3. WeightUpTo(list, k) = WeightUpTo(list, k - 1) + list[k].weight
    BY <1>1, WeightStep
  <1>4. PICK a \in Nat, n \in Nat : a = WeightUpTo(list, k - 1) /\ n = list[k].weight
    BY <1>1, <1>2
  <1>5. DrawsFor(list, k) = a..(a + n - 1)
    BY <1>1, <1>3, <1>4, DrawsBetween
  <1>6. Cardinality(a..(a + n - 1)) = IF a > a + n - 1 THEN 0 ELSE a + n - 1 - a + 1
    <2>1. a + n - 1 \in Int
      OBVIOUS
    <2> QED
      BY <2>1, FS_Interval
  <1>7. Cardinality(a..(a + n - 1)) = n
    BY <1>6
  <1> QED
    BY <1>4, <1>5, <1>7

-----------------------------------------------------------------------------
(* 3. The text of an answer.                                                *)

(* The fragments of a line.                                                *)
StreamParts == <<"da", "ta", "head", "tail">>
PlainParts == <<"head", "tail">>
FragmentOf(layout, lines, n, part) == [line |-> n, part |-> part, of |-> lines[n], layout |-> layout]

(* Every place in a stream is one of four in some line.                    *)
LEMMA StreamPlace ==
    ASSUME NEW m \in Nat, NEW j \in 1..(4 * m)
    PROVE  \E n \in 1..m, i \in 1..4 :
              /\ j = 4 * n - 4 + i
              /\ 1 + ((j - 1) \div 4) = n /\ 1 + ((j - 1) % 4) = i
  <1>1. PICK n, i : n = 1 + ((j - 1) \div 4) /\ i = 1 + ((j - 1) % 4)
    OBVIOUS
  <1>2. n \in 1..m /\ i \in 1..4 /\ j = 4 * n - 4 + i
    BY <1>1
  <1> QED
    BY <1>1, <1>2

(* The same for the text of some lines.                                    *)
LEMMA StreamPosition ==
    ASSUME NEW lines \in Seq(Line), NEW j \in 1..(4 * Len(lines))
    PROVE  \E n \in 1..Len(lines), i \in 1..4 : j = 4 * n - 4 + i
  <1>1. Len(lines) \in Nat
    OBVIOUS
  <1>2. \E n \in 1..Len(lines), i \in 1..4 :
              /\ j = 4 * n - 4 + i
              /\ 1 + ((j - 1) \div 4) = n /\ 1 + ((j - 1) % 4) = i
    BY <1>1, StreamPlace
  <1> QED
    BY <1>2

(* The text of a stream.                                                   *)
LEMMA StreamText ==
    ASSUME NEW lines \in Seq(Line)
    PROVE  /\ TextOf("sse", lines) \in Seq(Fragment)
           /\ Len(TextOf("sse", lines)) = 4 * Len(lines)
           /\ \A n \in 1..Len(lines), i \in 1..4 :
                 TextOf("sse", lines)[4 * n - 4 + i] = FragmentOf("sse", lines, n, StreamParts[i])
  <1> DEFINE m == Len(lines)
             f(j) == [line |-> 1 + ((j - 1) \div 4), part |-> StreamParts[1 + ((j - 1) % 4)],
                      of |-> lines[1 + ((j - 1) \div 4)], layout |-> "sse"]
  <1>1. Parts("sse") = StreamParts /\ Len(Parts("sse")) = 4
    BY DEF Parts, StreamParts
  <1>2. TextOf("sse", lines) = [j \in 1..(4 * m) |-> f(j)]
    BY <1>1 DEF TextOf
  <1>3. m \in Nat
    OBVIOUS
  <1>4. ASSUME NEW j \in 1..(4 * m) PROVE f(j) \in Fragment
    <2>1. PICK n \in 1..m, i \in 1..4 : 1 + ((j - 1) \div 4) = n /\ 1 + ((j - 1) % 4) = i
      BY <1>3, StreamPlace
    <2>2. f(j) = [line |-> n, part |-> StreamParts[i], of |-> lines[n], layout |-> "sse"]
      BY <2>1
    <2>3. StreamParts[i] \in {"da", "ta", "head", "tail"} /\ lines[n] \in Line /\ n \in Nat
      BY <1>3 DEF StreamParts
    <2> QED
      BY <2>2, <2>3 DEF Fragment, Layouts
  <1>5. ASSUME NEW n \in 1..m, NEW i \in 1..4
        PROVE  4 * n - 4 + i \in 1..(4 * m) /\ f(4 * n - 4 + i) = FragmentOf("sse", lines, n, StreamParts[i])
    <2>1. 4 * n - 4 + i \in 1..(4 * m)
      BY <1>3
    <2>2. PICK p \in 1..m, q \in 1..4 :
             /\ 4 * n - 4 + i = 4 * p - 4 + q
             /\ 1 + (((4 * n - 4 + i) - 1) \div 4) = p /\ 1 + (((4 * n - 4 + i) - 1) % 4) = q
      BY <1>3, <2>1, StreamPlace
    <2>3. p = n /\ q = i
      BY <1>3, <2>2
    <2> QED
      BY <2>1, <2>2, <2>3 DEF FragmentOf
  <1> HIDE DEF f, m
  <1>6. 4 * m \in Nat
    BY <1>3
  <1> DEFINE t == TextOf("sse", lines)
  <1>7. t \in [1..(4 * m) -> Fragment]
    BY <1>2, <1>4
  <1>8. t \in Seq(Fragment) /\ Len(t) = 4 * m
    <2> HIDE DEF t
    <2> QED
      BY <1>6, <1>7
  <1>9. ASSUME NEW n \in 1..m, NEW i \in 1..4 PROVE t[4 * n - 4 + i] = FragmentOf("sse", lines, n, StreamParts[i])
    BY <1>2, <1>5
  <1> QED
    BY <1>8, <1>9 DEF m

(* The text of any other answer.                                           *)
LEMMA PlainText ==
    ASSUME NEW layout \in {"json", "pretty"}, NEW lines \in Seq(Line), Len(lines) = 1
    PROVE  TextOf(layout, lines) = <<FragmentOf(layout, lines, 1, "head"), FragmentOf(layout, lines, 1, "tail")>>
  <1>1. Parts(layout) = PlainParts /\ Len(Parts(layout)) = 2
    BY DEF Parts, PlainParts
  <1>2. TextOf(layout, lines) = [j \in 1..2 |->
                    [line |-> 1 + ((j - 1) \div 2),
                     part |-> PlainParts[1 + ((j - 1) % 2)],
                     of |-> lines[1 + ((j - 1) \div 2)], layout |-> layout]]
    BY <1>1 DEF TextOf
  <1>3. 1 + ((1 - 1) \div 2) = 1 /\ 1 + ((1 - 1) % 2) = 1 /\ 1 + ((2 - 1) \div 2) = 1 /\ 1 + ((2 - 1) % 2) = 2
    OBVIOUS
  <1>4. TextOf(layout, lines)[1] = FragmentOf(layout, lines, 1, "head")
    BY <1>2, <1>3 DEF FragmentOf, PlainParts
  <1>5. TextOf(layout, lines)[2] = FragmentOf(layout, lines, 1, "tail")
    BY <1>2, <1>3 DEF FragmentOf, PlainParts
  <1> HIDE DEF FragmentOf
  <1>6. \A j \in 1..2 : j = 1 \/ j = 2
    OBVIOUS
  <1> QED
    BY <1>2, <1>4, <1>5, <1>6

(* Lines end at every fourth fragment.                                     *)
LEMMA StreamEnds ==
    ASSUME NEW lines \in Seq(Line), NEW j \in 1..(4 * Len(lines))
    PROVE  TextOf("sse", lines)[j].part = "tail" <=> \E n \in 1..Len(lines) : j = 4 * n
  <1>1. PICK n \in 1..Len(lines), i \in 1..4 : j = 4 * n - 4 + i
    BY StreamPosition
  <1>2. TextOf("sse", lines)[j].part = StreamParts[i]
    <2>1. TextOf("sse", lines)[4 * n - 4 + i] = FragmentOf("sse", lines, n, StreamParts[i])
      BY StreamText
    <2> QED
      BY <1>1, <2>1 DEF FragmentOf
  <1>3. StreamParts[i] = "tail" <=> i = 4
    BY DEF StreamParts
  <1>4. (\E m \in 1..Len(lines) : j = 4 * m) <=> i = 4
    BY <1>1
  <1> QED
    BY <1>2, <1>3, <1>4

(* The four fragments of a line.                                           *)
LEMMA StreamLine ==
    ASSUME NEW lines \in Seq(Line), NEW n \in 1..Len(lines)
    PROVE  /\ TextOf("sse", lines)[4 * n] = FragmentOf("sse", lines, n, "tail")
           /\ TextOf("sse", lines)[4 * n - 1] = FragmentOf("sse", lines, n, "head")
           /\ TextOf("sse", lines)[4 * n - 2] = FragmentOf("sse", lines, n, "ta")
           /\ TextOf("sse", lines)[4 * n - 3] = FragmentOf("sse", lines, n, "da")
  <1>1. /\ 4 * n - 4 + 4 = 4 * n /\ 4 * n - 4 + 3 = 4 * n - 1
        /\ 4 * n - 4 + 2 = 4 * n - 2 /\ 4 * n - 4 + 1 = 4 * n - 3
    OBVIOUS
  <1>2. \A i \in 1..4 : TextOf("sse", lines)[4 * n - 4 + i] = FragmentOf("sse", lines, n, StreamParts[i])
    BY StreamText
  <1>3. /\ TextOf("sse", lines)[4 * n - 4 + 4] = FragmentOf("sse", lines, n, StreamParts[4])
        /\ TextOf("sse", lines)[4 * n - 4 + 3] = FragmentOf("sse", lines, n, StreamParts[3])
        /\ TextOf("sse", lines)[4 * n - 4 + 2] = FragmentOf("sse", lines, n, StreamParts[2])
        /\ TextOf("sse", lines)[4 * n - 4 + 1] = FragmentOf("sse", lines, n, StreamParts[1])
    BY <1>2
  <1>4. StreamParts[4] = "tail" /\ StreamParts[3] = "head" /\ StreamParts[2] = "ta" /\ StreamParts[1] = "da"
    BY DEF StreamParts
  <1> QED
    BY <1>1, <1>3, <1>4

(* A line of a stream is found by its last fragment.                       *)
LEMMA StreamStart ==
    ASSUME NEW lines \in Seq(Line), NEW n \in 1..Len(lines)
    PROVE  LineStart(TextOf("sse", lines), 4 * n) = 4 * n - 3
  <1> DEFINE t == TextOf("sse", lines)
             Start(i) == /\ i = 1 \/ t[i - 1].part = "tail"
                         /\ \A h \in i..(4 * n - 1) : t[h].part # "tail"
  <1>1. Len(lines) \in Nat /\ n \in Nat
    OBVIOUS
  <1>2. \A j \in 1..(4 * Len(lines)) : t[j].part = "tail" <=> \E k \in 1..Len(lines) : j = 4 * k
    BY StreamEnds
  <1>3. \A k \in 1..Len(lines) : 4 * k \in 1..(4 * Len(lines)) /\ t[4 * k].part = "tail"
    BY <1>1, <1>2
  <1> HIDE DEF t
  <1>4. Start(4 * n - 3)
    <2>1. 4 * n - 3 = 1 \/ t[(4 * n - 3) - 1].part = "tail"
      <3>1. CASE n = 1
        BY <3>1
      <3>2. CASE n # 1
        <4>1. n - 1 \in 1..Len(lines) /\ 4 * (n - 1) = (4 * n - 3) - 1
          BY <1>1, <3>2
        <4> QED
          BY <1>3, <4>1
      <3> QED
        BY <3>1, <3>2
    <2>2. ASSUME NEW h \in (4 * n - 3)..(4 * n - 1) PROVE t[h].part # "tail"
      <3>1. h \in 1..(4 * Len(lines)) /\ \A k \in 1..Len(lines) : h # 4 * k
        BY <1>1
      <3> QED
        BY <1>2, <3>1
    <2> QED
      BY <2>1, <2>2
  <1>5. ASSUME NEW i \in 1..(4 * n), Start(i) PROVE i = 4 * n - 3
    <2>1. i = 1 \/ \E k \in 1..Len(lines) : i - 1 = 4 * k
      <3>1. i = 1 \/ i - 1 \in 1..(4 * Len(lines))
        BY <1>1
      <3> QED
        BY <1>2, <1>5, <3>1
    <2>2. \A k \in 1..Len(lines) : 4 * k \notin i..(4 * n - 1)
      BY <1>3, <1>5
    <2>3. n # 1 => n - 1 \in 1..Len(lines) /\ 4 * (n - 1) \notin i..(4 * n - 1)
      BY <1>1, <2>2
    <2> QED
      BY <1>1, <2>1, <2>3
  <1> HIDE DEF Start
  <1>6. (CHOOSE i \in 1..(4 * n) : Start(i)) = 4 * n - 3
    <2>1. 4 * n - 3 \in 1..(4 * n)
      BY <1>1
    <2> QED
      BY <1>4, <1>5, <2>1
  <1> QED
    BY <1>6 DEF LineStart, Start, t

(* What is found in a whole stream: the lines that are JSON.               *)
LEMMA StreamParsed ==
    ASSUME NEW lines \in Seq(Line)
    PROVE  /\ \A n \in 1..Len(lines) : lines[n].json => Parsed(TextOf("sse", lines), 4 * n)
           /\ \A j \in 1..(4 * Len(lines)) : Parsed(TextOf("sse", lines), j) =>
                 \E n \in 1..Len(lines) : j = 4 * n /\ lines[n].json
  <1> DEFINE t == TextOf("sse", lines)
  <1>1. ASSUME NEW n \in 1..Len(lines), lines[n].json PROVE Parsed(t, 4 * n)
    <2>1. /\ t[4 * n] = FragmentOf("sse", lines, n, "tail")
          /\ t[4 * n - 1] = FragmentOf("sse", lines, n, "head")
          /\ t[4 * n - 2] = FragmentOf("sse", lines, n, "ta")
          /\ t[4 * n - 3] = FragmentOf("sse", lines, n, "da")
      BY StreamLine
    <2>2. LineStart(t, 4 * n) = 4 * n - 3
      BY StreamStart
    <2> HIDE DEF t
    <2>3. 4 * n > 1
      OBVIOUS
    <2>4. Whole(t, 4 * n)
      BY <1>1, <2>1, <2>3 DEF Whole, FragmentOf
    <2>5. t[4 * n].layout # "pretty" /\ t[4 * n - 2].part = "ta" /\ t[4 * n - 3].part = "da"
      BY <2>1 DEF FragmentOf
    <2> QED
      BY <2>2, <2>4, <2>5 DEF Parsed
  <1>2. ASSUME NEW j \in 1..(4 * Len(lines)), Parsed(t, j)
        PROVE  \E n \in 1..Len(lines) : j = 4 * n /\ lines[n].json
    <2>1. t[j].part = "tail" /\ t[j].of.json
      BY <1>2 DEF Parsed, Whole
    <2>2. PICK n \in 1..Len(lines) : j = 4 * n
      BY <2>1, StreamEnds
    <2>3. t[j] = FragmentOf("sse", lines, n, "tail")
      BY <2>2, StreamLine
    <2> QED
      BY <2>1, <2>2, <2>3 DEF FragmentOf
  <1> QED
    BY <1>1, <1>2

(* Where the text of an answer comes from.                                 *)
Quotes(text, lines) == \A j \in DOMAIN text : \E k \in DOMAIN lines : text[j].of = lines[k]
UsagesIn(lines) == {lines[k].usage : k \in DOMAIN lines} \ {None}

(* Text quotes the lines of the answer.                                    *)
LEMMA StreamQuotes ==
    ASSUME NEW lines \in Seq(Line), NEW j \in 1..(4 * Len(lines))
    PROVE  \E k \in DOMAIN lines : TextOf("sse", lines)[j].of = lines[k]
  <1>2. PICK n \in 1..Len(lines), i \in 1..4 : j = 4 * n - 4 + i
    BY StreamPosition
  <1>3. TextOf("sse", lines)[4 * n - 4 + i] = FragmentOf("sse", lines, n, StreamParts[i])
    BY StreamText
  <1> QED
    BY <1>2, <1>3 DEF FragmentOf

LEMMA TextTyped ==
    ASSUME NEW layout \in Layouts, NEW lines \in Seq(Line), layout # "sse" => Len(lines) = 1
    PROVE  TextOf(layout, lines) \in Seq(Fragment) /\ Quotes(TextOf(layout, lines), lines)
  <1>1. CASE layout = "sse"
    <2> DEFINE t == TextOf("sse", lines)
    <2>1. t \in Seq(Fragment) /\ Len(t) = 4 * Len(lines)
      BY StreamText
    <2>2. \A j \in 1..(4 * Len(lines)) : \E k \in DOMAIN lines : t[j].of = lines[k]
      BY StreamQuotes
    <2> QED
      BY <1>1, <2>1, <2>2 DEF Quotes
  <1>2. CASE layout # "sse"
    <2>1. layout \in {"json", "pretty"} /\ lines[1] \in Line /\ 1 \in DOMAIN lines
      BY <1>2 DEF Layouts
    <2>2. \A part \in {"head", "tail"} : FragmentOf(layout, lines, 1, part) \in Fragment
                                         /\ FragmentOf(layout, lines, 1, part).of = lines[1]
      BY <2>1 DEF FragmentOf, Fragment, Layouts
    <2>3. TextOf(layout, lines) = <<FragmentOf(layout, lines, 1, "head"), FragmentOf(layout, lines, 1, "tail")>>
      BY <1>2, <2>1, PlainText
    <2>4. PICK a \in Fragment, b \in Fragment : TextOf(layout, lines) = <<a, b>> /\ a.of = lines[1] /\ b.of = lines[1]
      BY <2>2, <2>3
    <2> QED
      BY <2>1, <2>4 DEF Quotes
  <1> QED
    BY <1>1, <1>2

(* Usage found in a piece of an answer is usage of the answer.             *)
LEMMA ChunkUsage ==
    ASSUME NEW lines \in Seq(Line), NEW text \in Seq(Fragment), Quotes(text, lines)
    PROVE  ExtractUsageFromChunk(text) \in UsagesIn(lines) \cup {None}
  <1> DEFINE found == {j \in DOMAIN text : Parsed(text, j) /\ text[j].of.usage # None}
  <1>1. CASE found = {}
    BY <1>1 DEF ExtractUsageFromChunk
  <1>2. CASE found # {}
    <2>1. found \in SUBSET Nat
      OBVIOUS
    <2>2. FirstOf(found) \in found
      <3> HIDE DEF found
      <3> QED
        BY <1>2, <2>1, FirstOfLeast
    <2>3. ExtractUsageFromChunk(text) = text[FirstOf(found)].of.usage
      BY <1>2 DEF ExtractUsageFromChunk
    <2>4. PICK k \in DOMAIN lines : text[FirstOf(found)].of = lines[k]
      BY <2>2 DEF Quotes
    <2> QED
      BY <2>2, <2>3, <2>4 DEF UsagesIn
  <1> QED
    BY <1>1, <1>2

(* The same for the buffer as a whole.                                     *)
LEMMA BodyUsage ==
    ASSUME NEW lines \in Seq(Line), NEW text \in Seq(Fragment), Quotes(text, lines)
    PROVE  ExtractUsageFromBody(text) \in UsagesIn(lines) \cup {None}
  <1>1. CASE Document(text) /\ text[2].of.usage # None
    <2>1. 2 \in DOMAIN text /\ ExtractUsageFromBody(text) = text[2].of.usage
      BY <1>1 DEF Document, ExtractUsageFromBody
    <2>2. PICK k \in DOMAIN lines : text[2].of = lines[k]
      BY <2>1 DEF Quotes
    <2> QED
      BY <1>1, <2>1, <2>2 DEF UsagesIn
  <1>2. CASE ~(Document(text) /\ text[2].of.usage # None)
    BY <1>2, ChunkUsage DEF ExtractUsageFromBody
  <1> QED
    BY <1>1, <1>2

(* Of a whole answer, some usage is found.                                 *)
LEMMA UsageFound ==
    ASSUME NEW layout \in Layouts, NEW lines \in Seq(Line), layout # "sse" => Len(lines) = 1,
           \A k \in DOMAIN lines : lines[k].usage # None => lines[k].json,
           UsagesIn(lines) # {}
    PROVE  /\ ExtractUsageFromBody(TextOf(layout, lines)) \in UsagesIn(lines)
           /\ TextOf(layout, lines) # <<>>
  <1> DEFINE t == TextOf(layout, lines)
  <1>1. t \in Seq(Fragment) /\ ExtractUsageFromBody(t) \in UsagesIn(lines) \cup {None}
    BY TextTyped, BodyUsage
  <1>2. PICK n \in DOMAIN lines : lines[n].usage # None /\ lines[n].json
    BY DEF UsagesIn
  <1>3. CASE layout = "sse"
    <2>1. n \in 1..Len(lines) /\ Len(lines) \in Nat /\ 4 * n \in 1..(4 * Len(lines))
      BY <1>2
    <2>2. Parsed(t, 4 * n) /\ t[4 * n] = FragmentOf("sse", lines, n, "tail") /\ Len(t) = 4 * Len(lines)
      BY <1>2, <1>3, <2>1, StreamParsed, StreamLine, StreamText
    <2> HIDE DEF t
    <2>3. ~Document(t)
      BY <2>1, <2>2 DEF Document
    <2>4. 4 * n \in DOMAIN t /\ t[4 * n].of.usage # None
      BY <1>1, <1>2, <2>1, <2>2 DEF FragmentOf
    <2> DEFINE found == {j \in DOMAIN t : Parsed(t, j) /\ t[j].of.usage # None}
    <2>5. found # {} /\ found \in SUBSET Nat
      BY <1>1, <2>2, <2>4
    <2>6. FirstOf(found) \in found
      <3> HIDE DEF found
      <3> QED
        BY <2>5, FirstOfLeast
    <2>7. ExtractUsageFromBody(t) # None
      BY <2>3, <2>5, <2>6 DEF ExtractUsageFromBody, ExtractUsageFromChunk
    <2> QED
      BY <1>1, <2>4, <2>7 DEF t
  <1>4. CASE layout # "sse"
    <2>1. n = 1 /\ layout \in {"json", "pretty"}
      BY <1>2, <1>4 DEF Layouts
    <2>2. t = <<FragmentOf(layout, lines, 1, "head"), FragmentOf(layout, lines, 1, "tail")>>
      BY <1>4, <2>1, PlainText
    <2> HIDE DEF t
    <2>3. Len(t) = 2 /\ t # <<>> /\ t[2].of = lines[1] /\ t[2].part = "tail" /\ t[1] = [t[2] EXCEPT !.part = "head"]
      BY <2>2 DEF FragmentOf
    <2>4. Document(t) /\ ExtractUsageFromBody(t) # None
      BY <1>2, <2>1, <2>3 DEF Document, Whole, ExtractUsageFromBody
    <2> QED
      BY <1>1, <2>3, <2>4 DEF t
  <1> QED
    BY <1>3, <1>4

(* The error of a whole answer is found.                                   *)
LEMMA ErrorFound ==
    ASSUME NEW layout \in Layouts, NEW lines \in Seq(Line), layout # "sse" => Len(lines) = 1,
           NEW n \in DOMAIN lines, lines[n].json, lines[n].error, \A j \in 1..(n - 1) : ~lines[j].json
    PROVE  ExtractErrorFromResponse(TextOf(layout, lines)) /\ TextOf(layout, lines) # <<>>
  <1> DEFINE t == TextOf(layout, lines)
  <1>1. t \in Seq(Fragment)
    BY TextTyped
  <1>3. CASE layout = "sse"
    <2>1. n \in 1..Len(lines) /\ Len(lines) \in Nat /\ 4 * n \in 1..(4 * Len(lines)) /\ n \in Nat
      OBVIOUS
    <2>2. Parsed(t, 4 * n) /\ t[4 * n] = FragmentOf("sse", lines, n, "tail") /\ Len(t) = 4 * Len(lines)
      BY <1>3, <2>1, StreamParsed, StreamLine, StreamText
    <2>3. \A j \in 1..(4 * Len(lines)) : Parsed(t, j) => \E m \in 1..Len(lines) : j = 4 * m /\ lines[m].json
      BY <1>3, StreamParsed
    <2> HIDE DEF t
    <2>4. ~Document(t)
      BY <2>1, <2>2 DEF Document
    <2>5. 4 * n \in DOMAIN t /\ t[4 * n].of.error
      BY <1>1, <2>1, <2>2 DEF FragmentOf
    <2> DEFINE parsed == {j \in DOMAIN t : Parsed(t, j)}
    <2>6. parsed \in SUBSET Nat /\ 4 * n \in parsed
      BY <1>1, <2>2, <2>5
    <2>7. FirstOf(parsed) \in parsed /\ FirstOf(parsed) <= 4 * n
      <3> HIDE DEF parsed
      <3> QED
        BY <2>6, FirstOfLeast
    <2>8. PICK m \in 1..Len(lines) : FirstOf(parsed) = 4 * m /\ lines[m].json
      <3>1. FirstOf(parsed) \in 1..(4 * Len(lines)) /\ Parsed(t, FirstOf(parsed))
        BY <1>1, <2>2, <2>7
      <3> QED
        BY <2>3, <3>1
    <2>9. FirstOf(parsed) = 4 * n
      <3>1. m <= n
        BY <2>1, <2>7, <2>8
      <3>2. m \notin 1..(n - 1)
        BY <2>8
      <3> QED
        BY <2>1, <2>8, <3>1, <3>2
    <2> QED
      BY <2>4, <2>5, <2>6, <2>9 DEF ExtractErrorFromResponse, t
  <1>4. CASE layout # "sse"
    <2>1. n = 1 /\ layout \in {"json", "pretty"}
      BY <1>4 DEF Layouts
    <2>2. t = <<FragmentOf(layout, lines, 1, "head"), FragmentOf(layout, lines, 1, "tail")>>
      BY <1>4, <2>1, PlainText
    <2> HIDE DEF t
    <2>3. Len(t) = 2 /\ t # <<>> /\ t[2].of = lines[1] /\ t[2].part = "tail" /\ t[1] = [t[2] EXCEPT !.part = "head"]
      BY <2>2 DEF FragmentOf
    <2>4. Document(t) /\ t[2].of.error
      BY <2>1, <2>3 DEF Document, Whole
    <2> QED
      BY <2>3, <2>4 DEF ExtractErrorFromResponse, t
  <1> QED
    BY <1>3, <1>4

-----------------------------------------------------------------------------
(* 4. Types.                                                                *)

(* TypeOK in parts; what arrives in chunks or in a body is an answer as    *)
(* the provider gave it.                                                   *)
RequestTypes ==
    /\ failOpen \in BOOLEAN /\ client \in Clients
    /\ captured \in Users \cup {"", None} /\ refs \in Seq(Ref)
    /\ username \in Users \cup {""} /\ profile \in {"", "translation", "passthrough"}
AnswerTypes ==
    /\ answer = None \/ answer \in Answer
    /\ shown = None \/ shown \in [format : Formats \cup {""}, body : Body]
    /\ stage \in {"chunks", "account"} => answer \in Answers
    /\ stage = "account" => answer.layout # "sse"
ChunkTypes ==
    pos \in Nat /\ buffer \in Seq(Fragment) /\ lastUsage \in Usages \cup {None} /\ reports \in Seq(Report)
TypeInv == FormatInv /\ RequestTypes /\ AnswerTypes /\ ChunkTypes /\ code \in Codes

LEMMA TypeInvOK == TypeInv => TypeOK
  BY DEF TypeInv, TypeOK, FormatInv, FormatTypes, RequestTypes, AnswerTypes, ChunkTypes

(* What a piece of text may yield.                                         *)
LEMMA UsageTyped ==
    ASSUME NEW text \in Seq(Fragment)
    PROVE  /\ ExtractUsageFromChunk(text) \in Usages \cup {None}
           /\ ExtractUsageFromBody(text) \in Usages \cup {None}
  <1>1. ASSUME NEW j \in DOMAIN text PROVE text[j].of.usage \in Usages \cup {None}
    <2>1. text[j] \in Fragment
      OBVIOUS
    <2> QED
      BY <2>1 DEF Fragment, Line
  <1> DEFINE found == {j \in DOMAIN text : Parsed(text, j) /\ text[j].of.usage # None}
  <1>2. found # {} => FirstOf(found) \in found
    <2>1. found \in SUBSET Nat
      OBVIOUS
    <2> HIDE DEF found
    <2> QED
      BY <2>1, FirstOfLeast
  <1>3. ExtractUsageFromChunk(text) = IF found = {} THEN None ELSE text[FirstOf(found)].of.usage
    BY DEF ExtractUsageFromChunk
  <1>4. ExtractUsageFromChunk(text) \in Usages \cup {None}
    BY <1>1, <1>2, <1>3
  <1>5. Document(text) => 2 \in DOMAIN text
    BY DEF Document
  <1> QED
    BY <1>1, <1>4, <1>5 DEF ExtractUsageFromBody

(* The text in which an answer arrives.                                    *)
TextIn(a) ==
    LET text == TextOf(a.layout, a.lines)
    IN  IF a.compressed THEN [j \in DOMAIN text |-> [text[j] EXCEPT !.of.json = FALSE]] ELSE text

(* It consists of fragments, compressed or not.                            *)
LEMMA TextInType ==
    ASSUME NEW a \in Answers
    PROVE  /\ TextIn(a) \in Seq(Fragment)
           /\ ~a.compressed => TextIn(a) = TextOf(a.layout, a.lines)
  <1> DEFINE t == TextOf(a.layout, a.lines)
  <1>1. /\ a.layout \in Layouts /\ a.lines \in Seq(Line) /\ a.compressed \in BOOLEAN
        /\ a.layout # "sse" => Len(a.lines) = 1
    BY PipelineAssumption, AnswerAssumption DEF Answer
  <1>2. t \in Seq(Fragment)
    BY <1>1, TextTyped
  <1>3. TextIn(a) = IF a.compressed THEN [j \in DOMAIN t |-> [t[j] EXCEPT !.of.json = FALSE]] ELSE t
    BY DEF TextIn
  <1> HIDE DEF t
  <1>4. ASSUME NEW j \in DOMAIN t PROVE [t[j] EXCEPT !.of.json = FALSE] \in Fragment
    <2>1. t[j] \in Fragment
      BY <1>2
    <2>2. t[j].of \in Line
      BY <2>1 DEF Fragment
    <2>3. PICK l : l = [t[j].of EXCEPT !.json = FALSE]
      OBVIOUS
    <2>4. l \in Line
      BY <2>2, <2>3 DEF Line
    <2>5. [t[j] EXCEPT !.of.json = FALSE] = [t[j] EXCEPT !.of = l]
      BY <2>1, <2>2, <2>3 DEF Fragment
    <2> QED
      BY <2>1, <2>4, <2>5 DEF Fragment
  <1>5. [j \in DOMAIN t |-> [t[j] EXCEPT !.of.json = FALSE]] \in Seq(Fragment)
    <2>1. DOMAIN t = 1..Len(t) /\ Len(t) \in Nat
      BY <1>2
    <2>2. PICK s : s = [j \in DOMAIN t |-> [t[j] EXCEPT !.of.json = FALSE]]
      OBVIOUS
    <2>3. s \in [1..Len(t) -> Fragment]
      BY <1>4, <2>1, <2>2
    <2> QED
      BY <2>1, <2>2, <2>3
  <1> QED
    BY <1>1, <1>2, <1>3, <1>5 DEF t

LEMMA TextType ==
    /\ answer \in Answers =>
          /\ Text \in Seq(Fragment)
          /\ ~answer.compressed => Text = TextOf(answer.layout, answer.lines)
    /\ answer' \in Answers => Text' \in Seq(Fragment)
  <1>1. Text = TextIn(answer) /\ Text' = TextIn(answer')
    BY DEF Text, TextIn
  <1> QED
    BY <1>1, TextInType

-----------------------------------------------------------------------------
LEMMA TypeInit == Init => TypeInv
  <1> SUFFICES ASSUME Init PROVE TypeInv
    OBVIOUS
  <1>1. RequestTypes
    BY EmptySeq DEF Init, RequestTypes
  <1>2. AnswerTypes
    BY DEF Init, AnswerTypes
  <1>3. ChunkTypes /\ code \in Codes
    BY EmptySeq DEF Init, ChunkTypes, Codes
  <1> QED
    BY <1>1, <1>2, <1>3, FormatInit DEF TypeInv

(* The customer.                                                           *)
LEMMA CustomerType ==
    ASSUME TypeInv
    PROVE  Customer \in Users \cup {""} /\ out.user \in Users \cup {""}
  BY DEF TypeInv, FormatInv, FormatTypes, Outgoing, Customer

LEMMA RequestTypesHold ==
    ASSUME TypeInv, Next
    PROVE  RequestTypes'
  <1> USE DEF requestVars, stateVars, chunkVars
  <1>1. failOpen' = failOpen /\ client' = client
    BY DEF Next, Guard, NotInference, ResolveModel, Pick, Enforce, Unmetered, BalanceChecked,
        BalanceCheckFails, InspectRequest, TranslateRequest, Provider, Chunks, Chunk, Break, AccountBody,
        TranslateResponse, ReviewResponse
  <1>2. CASE Guard
    BY <1>1, <1>2, CustomerType DEF Guard, TypeInv, RequestTypes
  <1>3. CASE ResolveModel
    <2>1. refs' \in Seq(Ref)
      BY <1>3, PipelineAssumption, EmptySeq DEF ResolveModel
    <2> QED
      BY <1>1, <1>3, <2>1 DEF ResolveModel, TypeInv, RequestTypes
  <1>4. CASE Pick
    BY <1>1, <1>4 DEF Pick, TypeInv, RequestTypes
  <1>5. CASE BalanceChecked \/ BalanceCheckFails
    BY <1>1, <1>5, CustomerType DEF BalanceChecked, BalanceCheckFails, TypeInv, RequestTypes
  <1>6. CASE UNCHANGED <<captured, refs, username, profile>>
    BY <1>1, <1>6 DEF TypeInv, RequestTypes
  <1>7. \/ Guard \/ ResolveModel \/ Pick \/ BalanceChecked \/ BalanceCheckFails
        \/ UNCHANGED <<captured, refs, username, profile>>
    BY DEF Next, NotInference, Enforce, Unmetered, InspectRequest, TranslateRequest, Provider, Chunks, Chunk,
        Break, AccountBody, TranslateResponse, ReviewResponse
  <1> QED
    BY <1>2, <1>3, <1>4, <1>5, <1>6, <1>7

LEMMA AnswerTypesHold ==
    ASSUME TypeInv, Next
    PROVE  AnswerTypes'
  <1> USE DEF requestVars, stateVars, chunkVars, Refuse
  <1>1. \A a \in Answer : Shown(a) \in [format : Formats \cup {""}, body : Body]
    BY DEF Shown, Answer
  <1>2. CASE Provider
    <2>1. /\ answer' \in Answers /\ (answer'.layout = "sse" => profile = "passthrough")
          /\ stage' = (IF profile = "passthrough" THEN "chunks" ELSE "account")
          /\ shown' = IF profile = "passthrough" THEN Shown(answer') ELSE None
      BY <1>2 DEF Provider
    <2>2. answer' \in Answer
      BY <2>1, PipelineAssumption
    <2>3. shown' = None \/ shown' \in [format : Formats \cup {""}, body : Body]
      BY <1>1, <2>1, <2>2
    <2> QED
      BY <2>1, <2>2, <2>3 DEF AnswerTypes
  <1>3. CASE TranslateResponse
    <2>1. answer \in Answer /\ stage' = "review" /\ shown' = shown
      BY <1>3 DEF TranslateResponse, TypeInv, FormatInv, FormatTypes, Answered
    <2>2. answer' \in Answer
      BY <1>3, <2>1, TranslatedType DEF TranslateResponse
    <2> QED
      BY <2>1, <2>2 DEF AnswerTypes, TypeInv
  <1>4. CASE ReviewResponse
    <2>1. answer \in Answer /\ stage' = "done" /\ answer' = answer /\ (shown' = shown \/ shown' = Shown(answer))
      BY <1>4 DEF ReviewResponse, TypeInv, FormatInv, FormatTypes, Answered
    <2> QED
      BY <1>1, <2>1 DEF AnswerTypes, TypeInv
  <1>5. CASE /\ UNCHANGED <<answer, shown>>
             /\ stage' \notin {"chunks", "account"} \/ stage' = stage
    BY <1>5 DEF AnswerTypes, TypeInv
  <1>6. \/ Provider \/ TranslateResponse \/ ReviewResponse
        \/ /\ UNCHANGED <<answer, shown>>
           /\ stage' \notin {"chunks", "account"} \/ stage' = stage
    BY DEF Next, Guard, NotInference, ResolveModel, SelectRef, Pick, Enforce, Unmetered, BalanceChecked,
        BalanceCheckFails, InspectRequest, TranslateRequest, Chunks, Chunk, Break, AccountBody
  <1> QED
    BY <1>2, <1>3, <1>4, <1>5, <1>6

LEMMA Alone == ASSUME NEW r PROVE <<>> \o <<r>> = <<r>> /\ Append(<<>>, r) = <<r>>
  <1>1. <<r>> \in Seq({r}) /\ <<>> \in Seq({r}) /\ r \in {r}
    OBVIOUS
  <1> QED
    BY <1>1, ConcatEmptySeq, AppendIsConcat

LEMMA OneReport == ASSUME NEW r \in Report PROVE <<r>> \in Seq(Report)
  <1> HIDE DEF Report
  <1> QED OBVIOUS

(* What a chunk leaves behind and what is reported at the last one.        *)
LEMMA ChunkTyped ==
    ASSUME ChunkTypes, username \in Users \cup {""}, NEW chunk \in Seq(Fragment), TakeChunk(chunk)
    PROVE  /\ buffer' \in Seq(Fragment) /\ lastUsage' \in Usages \cup {None}
           /\ FinalReport(lastUsage', buffer') \in Seq(Report)
  <1>1. buffer' \in Seq(Fragment) /\ lastUsage' \in Usages \cup {None}
    <2>1. \/ buffer' = buffer /\ lastUsage' = lastUsage
          \/ buffer' = buffer /\ lastUsage' = ExtractUsageFromChunk(chunk)
          \/ buffer' = buffer \o chunk /\ lastUsage' = lastUsage
      BY DEF TakeChunk
    <2>2. buffer \o chunk \in Seq(Fragment)
      BY ConcatProperties DEF ChunkTypes
    <2> QED
      BY <2>1, <2>2, UsageTyped DEF ChunkTypes
  <1>2. PICK u : u = IF lastUsage' # None THEN lastUsage'
                     ELSE IF buffer' # <<>> THEN ExtractUsageFromBody(buffer') ELSE None
    OBVIOUS
  <1>3. u \in Usages \cup {None}
    BY <1>1, <1>2, UsageTyped
  <1>4. ReportOf("usage", u) \in Report /\ ReportOf("error", None) \in Report
    BY <1>3 DEF ReportOf, Report
  <1>5. FinalReport(lastUsage', buffer') \in {<<ReportOf("usage", u)>>, <<ReportOf("error", None)>>, <<>>}
    BY <1>2 DEF FinalReport
  <1> QED
    BY <1>1, <1>4, <1>5, OneReport, EmptySeq

LEMMA ChunkTypesHold ==
    ASSUME TypeInv, Next
    PROVE  ChunkTypes'
  <1> USE DEF requestVars, stateVars, chunkVars
  <1>1. CASE stage = "chunks" /\ Chunks
    <2>1. PICK n \in 0..Len(Text), isFinal \in BOOLEAN : Chunk(n, isFinal)
      BY <1>1 DEF Chunks
    <2>2. answer \in Answers /\ Text \in Seq(Fragment)
      BY <1>1, TextType DEF TypeInv, AnswerTypes
    <2>3. n \in Nat /\ pos \in Nat /\ pos + n <= Len(Text) /\ pos' = pos + n
      <3>1. pos + n <= Len(Text) /\ pos' = pos + n
        BY <2>1 DEF Chunk
      <3>2. pos \in Nat /\ Len(Text) \in Nat
        BY <2>2 DEF TypeInv, ChunkTypes
      <3> QED
        BY <3>1, <3>2
    <2>4. CASE username = ""
      <3>1. UNCHANGED <<buffer, lastUsage, reports>>
        BY <2>1, <2>4 DEF Chunk
      <3>2. pos' \in Nat
        BY <2>3
      <3> QED
        BY <3>1, <3>2 DEF TypeInv, ChunkTypes
    <2>5. CASE username # ""
      <3>1. SubSeq(Text, pos + 1, pos + n) \in Seq(Fragment)
        BY <2>2, <2>3
      <3>2. /\ TakeChunk(SubSeq(Text, pos + 1, pos + n))
            /\ reports' = IF isFinal THEN reports \o FinalReport(lastUsage', buffer') ELSE reports
        BY <2>1, <2>5 DEF Chunk
      <3>3. /\ buffer' \in Seq(Fragment) /\ lastUsage' \in Usages \cup {None}
            /\ FinalReport(lastUsage', buffer') \in Seq(Report)
        BY <3>1, <3>2, ChunkTyped DEF TypeInv, RequestTypes
      <3>4. reports \in Seq(Report)
        BY DEF TypeInv, ChunkTypes
      <3>5. reports' \in Seq(Report)
        BY <3>2, <3>3, <3>4
      <3> QED
        BY <2>3, <3>3, <3>5 DEF ChunkTypes
    <2> QED
      BY <2>4, <2>5
  <1>2. CASE AccountBody
    <2>1. answer \in Answers /\ answer.layout # "sse"
      BY <1>2 DEF AccountBody, TypeInv, AnswerTypes
    <2>2. answer.lines[1] \in Line
      <3>1. Len(answer.lines) = 1 /\ answer.lines \in Seq(Line)
        BY <2>1, PipelineAssumption, AnswerAssumption DEF Answer
      <3> QED
        BY <3>1
    <2>3. ReportOf("usage", answer.lines[1].usage) \in Report
      BY <2>2 DEF Line, ReportOf, Report, TypeInv, RequestTypes
    <2>4. UNCHANGED <<pos, buffer, lastUsage>>
          /\ reports' \in {reports, Append(reports, ReportOf("usage", answer.lines[1].usage))}
      BY <1>2 DEF AccountBody
    <2>5. reports' \in Seq(Report)
      BY <2>3, <2>4 DEF TypeInv, ChunkTypes
    <2> QED
      BY <2>4, <2>5 DEF TypeInv, ChunkTypes
  <1>3. CASE UNCHANGED <<pos, buffer, lastUsage, reports>>
    BY <1>3 DEF TypeInv, ChunkTypes
  <1>4. (stage = "chunks" /\ Chunks) \/ AccountBody \/ UNCHANGED <<pos, buffer, lastUsage, reports>>
    BY DEF Next, Guard, NotInference, ResolveModel, Pick, Enforce, Unmetered, BalanceChecked,
        BalanceCheckFails, InspectRequest, TranslateRequest, Provider, Break, TranslateResponse, ReviewResponse
  <1> QED
    BY <1>1, <1>2, <1>3, <1>4

LEMMA CodeTypeHolds ==
    ASSUME TypeInv, Next
    PROVE  code' \in Codes
  <1> USE DEF requestVars, stateVars, chunkVars, Refuse
  <1>1. \A reply : RefusalOf(reply) \in Codes
    BY DEF RefusalOf, Codes
  <1>2. code' = code \/ (\E reply : code' = RefusalOf(reply))
        \/ code' \in {"BadRequest", "Internal", "ServiceUnavailable", "ResourceExhausted"}
    BY DEF Next, Guard, NotInference, ResolveModel, SelectRef, Pick, Enforce, Unmetered, BalanceChecked,
        BalanceCheckFails, InspectRequest, TranslateRequest, Provider, Chunks, Chunk, Break, AccountBody,
        TranslateResponse, ReviewResponse
  <1> QED
    BY <1>1, <1>2 DEF TypeInv, Codes

LEMMA TypeInvStep ==
    ASSUME TypeInv, [Next]_vars
    PROVE  TypeInv'
  <1>1. FormatInv'
    BY FormatStep DEF TypeInv
  <1>2. CASE Next
    BY <1>1, <1>2, RequestTypesHold, AnswerTypesHold, ChunkTypesHold, CodeTypeHolds DEF TypeInv
  <1>3. CASE UNCHANGED vars
    BY <1>1, <1>3 DEF vars, TypeInv, RequestTypes, AnswerTypes, ChunkTypes
  <1> QED
    BY <1>2, <1>3

(* Every variable keeps its type: codes are known ones, the buffer holds   *)
(* text, reports are for users with usage the answer may have.             *)
THEOREM TypesKept == Spec => []TypeOK
  <1>1. TypeInv /\ [Next]_vars => TypeInv'
    BY TypeInvStep
  <1> QED
    BY <1>1, TypeInit, TypeInvOK, PTL DEF Spec

(* Whatever references the resolver finds, each is selected by as many of  *)
(* the draws as its weight says (selectByWeight).                          *)
THEOREM DrawsKept == Spec => []DrawsMatchWeights
  <1>1. TypeInv /\ [Next]_vars => TypeInv'
    BY TypeInvStep
  <1>2. TypeInv => DrawsMatchWeights
    BY DrawsWeighted DEF TypeInv, RequestTypes, DrawsMatchWeights
  <1> QED
    BY <1>1, <1>2, TypeInit, PTL DEF Spec

-----------------------------------------------------------------------------
(* 5. Metering.                                                             *)

(* Fresh: nothing is there before the answer.  Reported: the usage of a    *)
(* buffered answer is reported before the translator sees it.              *)
Ended == {"done", "broken"}
Unasked == {"guard", "resolve", "pick", "enforce", "balance"}

Fresh ==
    /\ stage \notin Answered \cup Ended =>
          answer = None /\ pos = 0 /\ buffer = <<>> /\ lastUsage = None /\ shown = None
    /\ stage \notin {"return", "review"} \cup Ended => reports = <<>>
Charged ==
    /\ username # "" => username = client.user
    /\ stage \in Unasked =>
          /\ username = "" /\ out.encoding = client.encoding
          /\ \/ captured = None /\ out.user = client.user
             \/ captured = client.user /\ out.user = "" /\ stage # "guard"
Readable ==
    /\ stage \in {"inspect", "translate"} \cup Sent /\ username # "" /\ out.encoding =>
          failOpen /\ client.encoding
    /\ answer # None /\ username # "" /\ answer.compressed => failOpen /\ client.encoding
Informed ==
    /\ stage \in {"balance", "inspect", "translate"} \cup Sent /\ client.stream
             /\ input \in {"", "openai-chat"} => out.usage
    /\ answer # None /\ answer.success /\ out.format # "" => UsagesOf(answer) # {}
Buffered ==
    stage = "chunks" /\ username # "" /\ ~answer.compressed =>
       /\ pos <= Len(Text)
       /\ IF lastUsage = None THEN buffer = SubSeq(Text, 1, pos) ELSE lastUsage \in UsagesOf(answer)
Owed == answer # None /\ username # "" /\ ~(failOpen /\ client.encoding)
Reported ==
    stage \in {"return", "review", "done"} /\ Owed /\ answer.success /\ out.format # "" =>
       \E u \in UsagesOf(answer) : reports = <<[type |-> "usage", user |-> client.user, usage |-> u]>>
MeteringInv ==
    TypeInv /\ Fresh /\ Charged /\ Readable /\ Informed /\ Buffered /\ Reported /\ FailureReportedOnce

-----------------------------------------------------------------------------
LEMMA MeteringInit == Init => MeteringInv
  <1> SUFFICES ASSUME Init PROVE MeteringInv
    OBVIOUS
  <1>1. TypeInv
    BY TypeInit
  <1>2. Fresh /\ Charged
    BY DEF Init, Fresh, Charged, Answered, Ended, Unasked
  <1>3. Readable /\ Informed /\ Buffered /\ Reported /\ FailureReportedOnce
    BY DEF Init, Readable, Informed, Buffered, Reported, FailureReportedOnce, Owed, Metered, Sent, Answered
  <1> QED
    BY <1>1, <1>2, <1>3 DEF MeteringInv

(* Steps before an answer.                                                 *)
LEMMA BeforeAnswer ==
    ASSUME Fresh, stage \notin Answered \cup Ended, stage' \notin Answered,
           UNCHANGED <<answer, chunkVars, reports, shown>>
    PROVE  Fresh' /\ Buffered' /\ Reported' /\ FailureReportedOnce' /\ answer' = None
  <1>1. answer' = None /\ Fresh'
    BY DEF Fresh, chunkVars, Ended, Answered
  <1>2. Buffered' /\ Reported' /\ FailureReportedOnce'
    BY <1>1 DEF Buffered, Reported, FailureReportedOnce, Owed, Metered, Answered
  <1> QED
    BY <1>1, <1>2

(* Whoever pays is the client that asked.                                  *)
LEMMA CustomerIsClient ==
    ASSUME TypeInv, Charged, stage = "balance"
    PROVE  Customer = client.user
  <1>1. client.user \in Users \cup {""}
    BY PipelineAssumption DEF TypeInv, RequestTypes, Client
  <1> QED
    BY <1>1, PipelineAssumption DEF Charged, Unasked, Customer

(* The plugins of the request.                                             *)
LEMMA MeteringRequest ==
    ASSUME MeteringInv,
           \/ Guard \/ NotInference \/ ResolveModel \/ Pick \/ Enforce \/ Unmetered
           \/ BalanceChecked \/ BalanceCheckFails \/ InspectRequest \/ TranslateRequest
    PROVE  Fresh' /\ Charged' /\ Readable' /\ Informed' /\ Buffered' /\ Reported' /\ FailureReportedOnce'
  <1> USE DEF requestVars, stateVars, Refuse, MeteringInv
  <1>1. /\ stage \in {"guard", "resolve", "pick", "enforce", "balance", "inspect", "translate"}
        /\ stage' \in {"resolve", "pick", "enforce", "balance", "inspect", "translate", "provider", "done"}
        /\ UNCHANGED <<failOpen, client, answer, chunkVars, reports, shown>>
    BY DEF Guard, NotInference, ResolveModel, SelectRef, Pick, Enforce, Unmetered, BalanceChecked,
        BalanceCheckFails, InspectRequest, TranslateRequest
  <1>2. Fresh' /\ Buffered' /\ Reported' /\ FailureReportedOnce' /\ answer' = None
    BY <1>1, BeforeAnswer DEF Answered, Ended
  <1>3. out \in Outgoing /\ client.encoding \in BOOLEAN /\ client.user \in Users \cup {""}
    BY PipelineAssumption DEF TypeInv, FormatInv, FormatTypes, RequestTypes, Client
  <1>4. Charged' /\ Readable' /\ Informed'
    <2>1. CASE Guard
      <3>1. out.user = client.user /\ out' = [out EXCEPT !.user = ""] /\ captured' = out.user /\ username = ""
            /\ stage' = "resolve" /\ username' = username
        BY <2>1 DEF Guard, Charged, Unasked
      <3>2. out'.user = "" /\ out'.encoding = out.encoding
        BY <1>3, <3>1 DEF Outgoing
      <3> QED
        BY <1>1, <1>2, <2>1, <3>1, <3>2 DEF Guard, Charged, Unasked, Readable, Informed, Sent, Answered
    <2>2. CASE NotInference \/ Pick
      BY <1>1, <1>2, <2>2 DEF NotInference, Pick, Charged, Unasked, Readable, Informed, Sent, Answered
    <2>3. CASE ResolveModel
      <3>1. out' = [out EXCEPT !.format = input'] /\ UNCHANGED <<captured, username>> /\ stage' \in {"pick", "done"}
            /\ stage = "resolve"
        BY <2>3 DEF ResolveModel, SelectRef
      <3>2. out'.user = out.user /\ out'.encoding = out.encoding
        BY <1>3, <3>1 DEF Outgoing
      <3> QED
        BY <1>1, <1>2, <3>1, <3>2 DEF Charged, Unasked, Readable, Informed, Sent, Answered
    <2>4. CASE Enforce
      <3>1. /\ out' = [out EXCEPT !.usage = out.usage \/ (client.stream /\ input \in {"", "openai-chat"})]
            /\ stage = "enforce" /\ stage' = "balance" /\ UNCHANGED <<captured, username, input>>
        BY <2>4 DEF Enforce
      <3>2. out'.user = out.user /\ out'.encoding = out.encoding
            /\ (client.stream /\ input \in {"", "openai-chat"} => out'.usage)
        BY <1>3, <3>1 DEF Outgoing
      <3> QED
        BY <1>1, <1>2, <3>1, <3>2 DEF Charged, Unasked, Readable, Informed, Sent, Answered
    <2>5. CASE Unmetered \/ BalanceCheckFails
      <3>1. /\ username' \in {username, client.user} /\ stage = "balance" /\ username = ""
            /\ UNCHANGED <<out, input>> /\ stage' \in {"inspect", "done"}
            /\ (username' # "" /\ stage' = "inspect" => failOpen)
        BY <2>5, CustomerIsClient DEF Unmetered, BalanceCheckFails, Charged, Unasked
      <3> QED
        BY <1>1, <1>2, <3>1 DEF Charged, Unasked, Readable, Informed, Sent, Answered
    <2>6. CASE BalanceChecked
      <3>1. /\ username' = client.user /\ stage = "balance" /\ UNCHANGED input
            /\ \/ stage' = "inspect" /\ out' = [out EXCEPT !.encoding = FALSE]
               \/ stage' = "done" /\ out' = out
        BY <2>6, CustomerIsClient DEF BalanceChecked
      <3>2. /\ stage' = "inspect" => ~out'.encoding
            /\ out'.usage = out.usage
        BY <1>3, <3>1 DEF Outgoing
      <3> QED
        BY <1>1, <1>2, <3>1, <3>2 DEF Charged, Unasked, Readable, Informed, Sent, Answered
    <2>7. CASE InspectRequest
      <3>1. UNCHANGED <<out, username, input>> /\ stage = "inspect" /\ stage' \in {"translate", "done"}
        BY <2>7 DEF InspectRequest
      <3> QED
        BY <1>1, <1>2, <3>1 DEF Charged, Unasked, Readable, Informed, Sent, Answered
    <2>8. CASE TranslateRequest
      <3>1. /\ out' = out \/ out' = [out EXCEPT !.format = output]
            /\ UNCHANGED <<username, input>> /\ stage = "translate" /\ stage' \in {"provider", "done"}
        BY <2>8 DEF TranslateRequest
      <3>2. out'.encoding = out.encoding /\ out'.usage = out.usage
        BY <1>3, <3>1 DEF Outgoing
      <3> QED
        BY <1>1, <1>2, <3>1, <3>2 DEF Charged, Unasked, Readable, Informed, Sent, Answered
    <2> QED
      BY <2>1, <2>2, <2>3, <2>4, <2>5, <2>6, <2>7, <2>8
  <1> QED
    BY <1>2, <1>4
(* The request of a chat stream that passes as chunks has asked for usage. *)
LEMMA StreamAsked ==
    ASSUME MeteringInv, stage = "provider", profile = "passthrough", client.stream, out.format = "openai-chat"
    PROVE  out.usage
  <1>1. PicksPassthrough
    BY DEF MeteringInv, TypeInv, FormatInv, Decided, Unpicked, Early
  <1>2. out.format = IF output = "" THEN input ELSE output
    BY DEF MeteringInv, TypeInv, FormatInv, Outward, Sent
  <1>3. input = "openai-chat"
    BY <1>1, <1>2 DEF PicksPassthrough
  <1> QED
    BY <1>3 DEF MeteringInv, Informed, Sent

(* A successful answer to an inference request comes with usage.           *)
LEMMA MeteringProvider ==
    ASSUME MeteringInv, Provider
    PROVE  Fresh' /\ Charged' /\ Readable' /\ Informed' /\ Buffered' /\ Reported' /\ FailureReportedOnce'
  <1> USE DEF requestVars, stateVars, chunkVars, MeteringInv
  <1>1. /\ UNCHANGED <<failOpen, client, out, captured, input, username, profile, pos, buffer, lastUsage, reports>>
        /\ stage = "provider" /\ stage' \in {"chunks", "account"}
        /\ answer' \in Answers /\ (answer'.compressed => out.encoding)
        /\ answer'.layout = "sse" => client.stream /\ profile = "passthrough"
        /\ answer'.success => (\E k \in DOMAIN answer'.lines : answer'.lines[k].usage # None)
                             <=> (out.format # "" /\
                                  (out.format = "openai-chat" /\ answer'.layout = "sse" => out.usage))
    BY DEF Provider
  <1>2. answer' # None
    BY <1>1, PipelineAssumption
  <1>3. pos = 0 /\ buffer = <<>> /\ lastUsage = None /\ reports = <<>>
    BY <1>1 DEF Fresh, Answered, Ended
  <1>4. Fresh' /\ Charged'
    BY <1>1, <1>3 DEF Fresh, Answered, Ended, Charged, Unasked
  <1>5. Readable'
    BY <1>1 DEF Readable, Sent, Answered
  <1>6. Informed'
    <2>1. answer'.success /\ out.format # "" => \E k \in DOMAIN answer'.lines : answer'.lines[k].usage # None
      BY <1>1, StreamAsked
    <2> QED
      BY <1>1, <2>1 DEF Informed, UsagesOf, Sent, Answered
  <1>7. Buffered'
    <2>1. Text' \in Seq(Fragment)
      BY <1>1, TextType
    <2>2. SubSeq(Text', 1, 0) = <<>> /\ 0 <= Len(Text')
      BY <2>1, SubSeqEmpty
    <2> QED
      BY <1>1, <1>3, <2>2 DEF Buffered
  <1>8. Reported' /\ FailureReportedOnce'
    BY <1>1 DEF Reported, FailureReportedOnce, Metered
  <1> QED
    BY <1>4, <1>5, <1>6, <1>7, <1>8

(* What follows from the state of the buffer when all text has arrived.    *)
LEMMA FinalUsage ==
    ASSUME answer \in Answers, ~answer.compressed, NEW last, NEW text,
           IF last = None THEN text = Text ELSE last \in UsagesOf(answer)
    PROVE  /\ UsagesOf(answer) # {} =>
                \E u \in UsagesOf(answer) : FinalReport(last, text) = <<ReportOf("usage", u)>>
           /\ UsagesOf(answer) = {} =>
                /\ FinalReport(last, text) \in {<<>>, <<ReportOf("error", None)>>}
                /\ ErrorFirst(answer) => FinalReport(last, text) = <<ReportOf("error", None)>>
  <1> DEFINE lines == answer.lines
             layout == answer.layout
             t == TextOf(layout, lines)
  <1>1. /\ layout \in Layouts /\ lines \in Seq(Line)
        /\ layout # "sse" => Len(lines) = 1
        /\ \A k \in DOMAIN lines : lines[k].usage # None => lines[k].json
    BY PipelineAssumption, AnswerAssumption DEF Answer
  <1>2. UsagesOf(answer) = UsagesIn(lines) /\ Text = t
    BY TextType DEF UsagesOf, UsagesIn
  <1>3. None \notin UsagesOf(answer)
    BY DEF UsagesOf
  <1>4. ASSUME UsagesOf(answer) # {}
        PROVE  \E u \in UsagesOf(answer) : FinalReport(last, text) = <<ReportOf("usage", u)>>
    <2>1. CASE last # None
      BY <1>3, <2>1 DEF FinalReport
    <2>2. CASE last = None
      <3>1. ExtractUsageFromBody(t) \in UsagesIn(lines) /\ t # <<>>
        BY <1>1, <1>2, <1>4, UsageFound
      <3> HIDE DEF t
      <3>2. FinalReport(last, text) = <<ReportOf("usage", ExtractUsageFromBody(t))>>
        BY <1>2, <1>3, <2>2, <3>1 DEF FinalReport
      <3> QED
        BY <1>2, <3>1, <3>2
    <2> QED
      BY <2>1, <2>2
  <1>5. ASSUME UsagesOf(answer) = {}
        PROVE  /\ FinalReport(last, text) \in {<<>>, <<ReportOf("error", None)>>}
               /\ ErrorFirst(answer) => FinalReport(last, text) = <<ReportOf("error", None)>>
    <2>1. ExtractUsageFromBody(t) = None
      <3>1. t \in Seq(Fragment) /\ Quotes(t, lines)
        BY <1>1, TextTyped
      <3> QED
        BY <1>1, <1>2, <1>5, <3>1, BodyUsage
    <2>2. ErrorFirst(answer) => ExtractErrorFromResponse(t) /\ t # <<>>
      BY <1>1, ErrorFound DEF ErrorFirst
    <2>3. last = None /\ text = t
      BY <1>2, <1>5
    <2> HIDE DEF t
    <2> QED
      BY <2>1, <2>2, <2>3 DEF FinalReport
  <1> QED
    BY <1>4, <1>5

(* A chunk leaves the buffer as it should be.                              *)
LEMMA ChunkKept ==
    ASSUME answer \in Answers, ~answer.compressed, NEW n \in Nat, pos \in Nat, pos + n <= Len(Text),
           lastUsage \in Usages \cup {None},
           IF lastUsage = None THEN buffer = SubSeq(Text, 1, pos) ELSE lastUsage \in UsagesOf(answer),
           TakeChunk(SubSeq(Text, pos + 1, pos + n))
    PROVE  IF lastUsage' = None THEN buffer' = SubSeq(Text, 1, pos + n) ELSE lastUsage' \in UsagesOf(answer)
  <1> DEFINE lines == answer.lines
             chunk == SubSeq(Text, pos + 1, pos + n)
  <1>1. Text \in Seq(Fragment) /\ Quotes(Text, lines) /\ lines \in Seq(Line)
    <2>1. /\ answer.layout \in Layouts /\ lines \in Seq(Line)
          /\ answer.layout # "sse" => Len(lines) = 1
      BY PipelineAssumption, AnswerAssumption DEF Answer
    <2>2. Text = TextOf(answer.layout, lines)
      BY TextType
    <2> QED
      BY <2>1, <2>2, TextTyped
  <1>2. \A j \in (pos + 1)..(pos + n) : j \in DOMAIN Text /\ Text[j] \in Fragment
    BY <1>1
  <1>3. /\ chunk \in Seq(Fragment) /\ Len(chunk) = n
        /\ \A i \in 1..n : chunk[i] = Text[pos + i]
    <2>1. pos + 1 \in Int /\ pos + n \in Int
      OBVIOUS
    <2>2. /\ chunk \in Seq(Fragment)
          /\ Len(chunk) = IF pos + 1 <= pos + n THEN pos + n - (pos + 1) + 1 ELSE 0
          /\ \A i \in 1..(pos + n - (pos + 1) + 1) : chunk[i] = Text[pos + 1 + i - 1]
      BY <1>2, <2>1, SubSeqProperties
    <2> HIDE DEF chunk
    <2>3. \A i \in 1..n : i \in 1..(pos + n - (pos + 1) + 1) /\ pos + 1 + i - 1 = pos + i
      OBVIOUS
    <2> QED
      BY <2>2, <2>3
  <1>4. Quotes(chunk, lines)
    <2>1. ASSUME NEW i \in 1..n PROVE \E k \in DOMAIN lines : chunk[i].of = lines[k]
      <3>1. pos + i \in DOMAIN Text
        BY <1>1
      <3> QED
        BY <1>1, <1>3, <3>1 DEF Quotes
    <2> HIDE DEF chunk
    <2>2. DOMAIN chunk = 1..n
      BY <1>3
    <2> QED
      BY <2>1, <2>2 DEF Quotes
  <1>5. ExtractUsageFromChunk(chunk) \in UsagesIn(lines) \cup {None} /\ UsagesIn(lines) = UsagesOf(answer)
    BY <1>1, <1>3, <1>4, ChunkUsage DEF UsagesIn, UsagesOf
  <1>6. SubSeq(Text, 1, pos) \o chunk = SubSeq(Text, 1, pos + n)
    <2>1. 1 \in 1..(Len(Text) + 1) /\ pos \in (1 - 1)..Len(Text) /\ pos + n \in pos..Len(Text)
      BY <1>1
    <2> QED
      BY <1>1, <2>1, ConcatAdjacentSubSeq
  <1>7. chunk = <<>> => n = 0
    BY <1>3
  <1> HIDE DEF chunk
  <1>8. \/ chunk = <<>> /\ buffer' = buffer /\ lastUsage' = lastUsage
        \/ lastUsage' = ExtractUsageFromChunk(chunk) /\ lastUsage' # None
        \/ buffer' = buffer \o chunk /\ lastUsage' = lastUsage
    BY DEF TakeChunk, chunk
  <1>9. n = 0 => pos + n = pos
    OBVIOUS
  <1> QED
    BY <1>5, <1>6, <1>7, <1>8, <1>9

(* The plugins of a buffered answer.                                       *)
LEMMA MeteringBuffered ==
    ASSUME MeteringInv, AccountBody \/ TranslateResponse \/ ReviewResponse \/ Break
    PROVE  Fresh' /\ Charged' /\ Readable' /\ Informed' /\ Buffered' /\ Reported' /\ FailureReportedOnce'
  <1> USE DEF requestVars, stateVars, chunkVars, Refuse, MeteringInv
  <1>1. /\ UNCHANGED <<failOpen, client, out, captured, input, username, profile, pos, buffer, lastUsage>>
        /\ stage \in Answered /\ stage' \in {"return", "review"} \cup Ended
        /\ stage' # "broken" => profile = "translation"
    BY DEF AccountBody, TranslateResponse, ReviewResponse, Break, Answered, Ended, TypeInv, FormatInv, Inward
  <1>2. answer \in Answer /\ answer # None
    BY <1>1, PipelineAssumption DEF TypeInv, FormatInv, FormatTypes
  <1>3. /\ answer'.success = answer.success /\ answer'.compressed = answer.compressed
        /\ UsagesOf(answer') = UsagesOf(answer) /\ (answer' # None)
    <2>1. answer' = answer \/ answer' = TranslateBody(answer)
      BY DEF AccountBody, TranslateResponse, ReviewResponse, Break
    <2>2. /\ TranslateBody(answer) \in Answer
          /\ TranslateBody(answer).success = answer.success
          /\ TranslateBody(answer).compressed = answer.compressed
          /\ TranslateBody(answer).lines = answer.lines
      BY <1>2, TranslatedType DEF TranslateBody, Answer
    <2> QED
      BY <1>2, <2>1, <2>2, PipelineAssumption DEF UsagesOf
  <1>4. Fresh' /\ Charged' /\ Readable' /\ Informed' /\ Buffered' /\ FailureReportedOnce'
    <2>1. Fresh' /\ Charged' /\ Buffered'
      BY <1>1 DEF Fresh, Answered, Ended, Charged, Unasked, Buffered
    <2>2. Readable' /\ Informed'
      BY <1>1, <1>2, <1>3 DEF Readable, Informed, Sent, Answered, Ended
    <2>3. FailureReportedOnce'
      BY <1>1 DEF FailureReportedOnce, Metered
    <2> QED
      BY <2>1, <2>2, <2>3
  <1>5. Reported'
    <2>1. CASE AccountBody
      <3>1. /\ stage = "account" /\ reports = <<>> /\ answer' = answer /\ answer \in Answers
            /\ answer.layout # "sse"
            /\ reports' = IF username # "" /\ answer.lines[1].usage # None
                  THEN Append(reports, ReportOf("usage", answer.lines[1].usage)) ELSE reports
        BY <2>1 DEF AccountBody, Fresh, Answered, Ended, TypeInv, AnswerTypes
      <3>2. Len(answer.lines) = 1 /\ answer.lines \in Seq(Line)
        BY <3>1, PipelineAssumption, AnswerAssumption DEF Answer
      <3>3. DOMAIN answer.lines = {1}
        BY <3>2
      <3>4. ASSUME Owed', answer.success, out.format # ""
            PROVE  \E u \in UsagesOf(answer) : reports' = <<[type |-> "usage", user |-> client.user, usage |-> u]>>
        <4>1. answer.lines[1].usage \in UsagesOf(answer) /\ answer.lines[1].usage # None
          BY <1>2, <3>3, <3>4 DEF Informed, UsagesOf
        <4>2. username # "" /\ username = client.user
          BY <1>1, <3>4 DEF Owed, Charged
        <4>3. reports' = <<ReportOf("usage", answer.lines[1].usage)>>
          BY <3>1, <4>1, <4>2, Alone
        <4> QED
          BY <4>1, <4>2, <4>3 DEF ReportOf
      <3> QED
        BY <1>1, <3>1, <3>4 DEF Reported
    <2>2. CASE TranslateResponse \/ ReviewResponse
      <3>1. UNCHANGED reports /\ stage \in {"return", "review"}
        BY <2>2 DEF TranslateResponse, ReviewResponse
      <3> QED
        BY <1>1, <1>2, <1>3, <3>1 DEF Reported, Owed
    <2>3. CASE Break
      BY <2>3 DEF Break, Reported
    <2> QED
      BY <2>1, <2>2, <2>3
  <1> QED
    BY <1>4, <1>5

(* A chunk; the final one is reported.                                     *)
LEMMA MeteringChunk ==
    ASSUME MeteringInv, stage = "chunks", Chunks
    PROVE  Fresh' /\ Charged' /\ Readable' /\ Informed' /\ Buffered' /\ Reported' /\ FailureReportedOnce'
  <1> USE DEF requestVars, stateVars, chunkVars, MeteringInv
  <1>1. PICK n \in 0..Len(Text), isFinal \in BOOLEAN : Chunk(n, isFinal)
    BY DEF Chunks
  <1>2. /\ UNCHANGED <<failOpen, client, out, captured, input, username, profile, answer>>
        /\ pos + n <= Len(Text) /\ (isFinal => pos + n = Len(Text)) /\ pos' = pos + n
        /\ stage' = IF isFinal THEN "done" ELSE "chunks"
    BY <1>1 DEF Chunk
  <1>3. answer \in Answers /\ Text \in Seq(Fragment) /\ answer # None
    BY TextType, PipelineAssumption DEF TypeInv, AnswerTypes
  <1>4. n \in Nat /\ pos \in Nat
    BY <1>3 DEF TypeInv, ChunkTypes
  <1>5. Text' = Text
    BY <1>2 DEF Text
  <1>6. reports = <<>> /\ (~isFinal => reports' = <<>>)
    BY <1>1 DEF Fresh, Chunk, Ended
  <1>7. Fresh' /\ Charged' /\ Readable' /\ Informed'
    <2>1. Fresh'
      BY <1>2, <1>6 DEF Fresh, Answered, Ended
    <2>2. Charged' /\ Readable' /\ Informed'
      BY <1>2 DEF Charged, Unasked, Readable, Informed, Sent, Answered
    <2> QED
      BY <2>1, <2>2
  <1>8. ASSUME username # "", ~answer.compressed
        PROVE  IF lastUsage' = None THEN buffer' = SubSeq(Text, 1, pos + n) ELSE lastUsage' \in UsagesOf(answer)
    <2>1. TakeChunk(SubSeq(Text, pos + 1, pos + n))
      BY <1>1, <1>8 DEF Chunk
    <2>2. lastUsage \in Usages \cup {None}
      BY DEF TypeInv, ChunkTypes
    <2>3. IF lastUsage = None THEN buffer = SubSeq(Text, 1, pos) ELSE lastUsage \in UsagesOf(answer)
      BY <1>8 DEF Buffered
    <2> QED
      BY <1>2, <1>3, <1>4, <1>8, <2>1, <2>2, <2>3, ChunkKept
  <1>9. Buffered'
    BY <1>2, <1>5, <1>8 DEF Buffered
  <1>10. ASSUME isFinal, Owed
         PROVE  /\ UsagesOf(answer) # {} => \E u \in UsagesOf(answer) :
                      reports' = <<[type |-> "usage", user |-> client.user, usage |-> u]>>
                /\ UsagesOf(answer) = {} =>
                      /\ reports' \in {<<>>, <<ErrorReport>>}
                      /\ ErrorFirst(answer) => reports' = <<ErrorReport>>
    <2>1. username # "" /\ username = client.user /\ ~answer.compressed
      BY <1>3, <1>10 DEF Owed, Charged, Readable
    <2>2. SubSeq(Text, 1, pos + n) = Text
      BY <1>2, <1>3, <1>10, SubSeqFull
    <2>3. IF lastUsage' = None THEN buffer' = Text ELSE lastUsage' \in UsagesOf(answer)
      BY <1>8, <2>1, <2>2
    <2>4. /\ UsagesOf(answer) # {} =>
               \E u \in UsagesOf(answer) : FinalReport(lastUsage', buffer') = <<ReportOf("usage", u)>>
          /\ UsagesOf(answer) = {} =>
               /\ FinalReport(lastUsage', buffer') \in {<<>>, <<ReportOf("error", None)>>}
               /\ ErrorFirst(answer) => FinalReport(lastUsage', buffer') = <<ReportOf("error", None)>>
      BY <1>3, <2>1, <2>3, FinalUsage
    <2>5. reports' = <<>> \o FinalReport(lastUsage', buffer')
      BY <1>1, <1>6, <1>10, <2>1 DEF Chunk
    <2>6. \A type, u : <<>> \o <<ReportOf(type, u)>> = <<[type |-> type, user |-> client.user, usage |-> u]>>
      BY <2>1, Alone DEF ReportOf
    <2>7. <<>> \o <<>> = <<>>
      OBVIOUS
    <2> QED
      BY <2>4, <2>5, <2>6, <2>7 DEF ErrorReport
  <1>11. Reported' /\ FailureReportedOnce'
    <2>1. CASE ~isFinal
      BY <1>2, <2>1 DEF Reported, FailureReportedOnce, Metered
    <2>2. CASE isFinal
      <3>1. Owed' = Owed /\ (Metered' => Owed)
        BY <1>2 DEF Owed, Metered
      <3>2. answer.success /\ out.format # "" => UsagesOf(answer) # {}
        BY <1>3 DEF Informed
      <3>3. UsagesOf(answer') = UsagesOf(answer)
        BY <1>2 DEF UsagesOf
      <3>4. Reported'
        BY <1>2, <1>10, <2>2, <3>1, <3>2, <3>3 DEF Reported
      <3>5. FailureReportedOnce'
        BY <1>2, <1>10, <2>2, <3>1, <3>3 DEF FailureReportedOnce, ErrorFirst, ErrorReport
      <3> QED
        BY <3>4, <3>5
    <2> QED
      BY <2>1, <2>2
  <1> QED
    BY <1>7, <1>9, <1>11

LEMMA MeteringStep ==
    ASSUME MeteringInv, [Next]_vars
    PROVE  MeteringInv'
  <1>1. TypeInv'
    BY TypeInvStep DEF MeteringInv
  <1>2. CASE Next
    BY <1>1, <1>2, MeteringRequest, MeteringProvider, MeteringChunk, MeteringBuffered DEF Next, MeteringInv
  <1>3. CASE UNCHANGED vars
    <2> USE DEF vars, MeteringInv
    <2>1. Fresh' /\ Charged' /\ Readable'
      BY <1>3 DEF Fresh, Charged, Readable
    <2>2. UsagesOf(answer') = UsagesOf(answer) /\ Text' = Text
      BY <1>3 DEF UsagesOf, Text
    <2>3. Informed' /\ Buffered'
      BY <1>3, <2>2 DEF Informed, Buffered
    <2>4. Reported' /\ FailureReportedOnce'
      BY <1>3, <2>2 DEF Reported, Owed, FailureReportedOnce, Metered, ErrorFirst, ErrorReport
    <2> QED
      BY <1>1, <2>1, <2>3, <2>4
  <1> QED
    BY <1>2, <1>3

(* Any completed successful answer to a metered inference request is       *)
(* reported exactly once, however it was cut into chunks: no text is lost  *)
(* until usage is found, and in the whole text it is found.                *)
THEOREM MeteredOnce == Spec => []AnswerMeteredOnce
  <1>1. MeteringInv /\ [Next]_vars => MeteringInv'
    BY MeteringStep
  <1>2. MeteringInv => AnswerMeteredOnce
    BY DEF MeteringInv, Reported, Owed, AnswerMeteredOnce, Metered
  <1> QED
    BY <1>1, <1>2, MeteringInit, PTL DEF Spec

(* A failing answer that passes as chunks is reported at most once, with   *)
(* its usage if it has any; an error that is the first JSON is reported.   *)
THEOREM ErrorReportedOnce == Spec => []FailureReportedOnce
  <1>1. MeteringInv /\ [Next]_vars => MeteringInv'
    BY MeteringStep
  <1>2. MeteringInv => FailureReportedOnce
    BY DEF MeteringInv
  <1> QED
    BY <1>1, <1>2, MeteringInit, PTL DEF Spec

-----------------------------------------------------------------------------
(* 6. Guards.                                                               *)

(* The parts of a body.                                                    *)
LEMMA BodyParts ==
    ASSUME NEW body \in Body, NEW f \in Fields, NEW item \in body[f].items
    PROVE  item \in Item /\ Has(body, f) /\ body[f].kind \in {"expected", "other"}
  BY DEF Body, Section, Absent, Has

(* What the request guard reads of a list of messages or arguments.        *)
LEMMA FirstFields ==
    ASSUME NEW body \in Body, NEW f \in {"messages", "jsonrpc"}, NEW item \in body[f].items,
           ~Unread(body, f, item), ExtractMessages(body).ok
    PROVE  item.text \in ExtractMessages(body).texts
  <1>1. item \in Item /\ Has(body, f)
    BY BodyParts DEF Fields
  <1>2. CASE f = "messages"
    <2>1. ExtractMessages(body) = OpenAIMessages(body["messages"])
      BY <1>1, <1>2 DEF ExtractMessages
    <2>2. ExtractMessages(body).texts = UNION {{x.text, x.name} : x \in body["messages"].items}
      BY <2>1 DEF OpenAIMessages, Failure, Texted
    <2> QED
      BY <1>2, <2>2
  <1>3. CASE f = "jsonrpc"
    <2>1. ~Has(body, "messages") /\ item.shape = "text" /\ body["jsonrpc"].kind = "expected"
      BY <1>3 DEF Unread, Skipped
    <2>2. ExtractMessages(body) = MCPArguments(body["jsonrpc"])
      BY <1>1, <1>3, <2>1 DEF ExtractMessages
    <2> QED
      BY <1>3, <2>1, <2>2 DEF MCPArguments, Texted
  <1> QED
    BY <1>2, <1>3

(* An extraction that is no error has its texts.                           *)
LEMMA Extraction ==
    ASSUME NEW x, NEW texts, x = Failure \/ x = Texted(texts), x.ok
    PROVE  x.texts = texts
  BY DEF Failure, Texted

(* What it reads of the input and the instructions.                        *)
LEMMA InputFields ==
    ASSUME NEW body \in Body, NEW f \in {"input", "instructions"}, NEW item \in body[f].items,
           ~Skipped(body, f), ExtractMessages(body).ok
    PROVE  /\ ~Unread(body, f, item) => item.text \in ExtractMessages(body).texts \cup {""}
           /\ f = "input" /\ item.type = "function_call" => item.name \in ExtractMessages(body).texts \cup {""}
  <1> DEFINE found == OpenResponsesInputItems(body["input"].items)
             given == {StringOf(x) : x \in {y \in body["instructions"].items :
                                               body["instructions"].kind = "expected"}}
             inputs == UNION {InputTexts(x) : x \in body["input"].items}
  <1>1. item \in Item /\ Has(body, f)
    BY BodyParts DEF Fields
  <1>2. ~Has(body, "messages") /\ ~Has(body, "jsonrpc") /\ Has(body, "input")
    BY <1>1 DEF Skipped
  <1>3. ExtractMessages(body) = OpenResponsesInput(body)
    BY <1>2 DEF ExtractMessages
  <1>4. found = Failure \/ found = Texted(inputs \ {""})
    BY DEF OpenResponsesInputItems
  <1>5. \/ ExtractMessages(body) = Failure
        \/ found.ok /\ ExtractMessages(body) = Texted(found.texts \cup (given \ {""}))
    <2> HIDE DEF found
    <2> QED
      BY <1>3 DEF OpenResponsesInput, found
  <1>6. ExtractMessages(body).texts = (inputs \ {""}) \cup (given \ {""})
    <2> HIDE DEF found, inputs, given
    <2>1. found.ok => found.texts = inputs \ {""}
      BY <1>4, Extraction
    <2>2. found.ok /\ ExtractMessages(body).texts = found.texts \cup (given \ {""})
      BY <1>5, Extraction DEF Failure
    <2> QED
      BY <2>1, <2>2
  <1>7. CASE f = "input"
    <2>1. /\ ~Unread(body, f, item) => item.text \in InputTexts(item)
          /\ item.type = "function_call" => item.name \in InputTexts(item)
      BY <1>1, <1>7 DEF Unread, InputTexts, StringOf, Item
    <2>2. InputTexts(item) \subseteq inputs
      BY <1>7
    <2> HIDE DEF inputs, given
    <2> QED
      BY <1>6, <2>1, <2>2
  <1>8. CASE f = "instructions"
    <2>1. ~Unread(body, f, item) => item.text \in given
      BY <1>8 DEF Unread, StringOf
    <2> HIDE DEF inputs, given
    <2> QED
      BY <1>6, <1>8, <2>1
  <1> QED
    BY <1>7, <1>8

(* What the request guard has read, in a body that it has not refused.     *)
Cleared(body) == \A f \in Fields : \A item \in body[f].items :
    /\ item.text \in Bad => Unread(body, f, item)
    /\ f = "input" /\ item.type = "function_call" /\ item.name \in Bad => Skipped(body, f)

LEMMA RequestRead ==
    ASSUME NEW body \in Body, ExtractMessages(body).ok, ExtractMessages(body).texts \cap Bad = {}
    PROVE  Cleared(body)
  <1> SUFFICES ASSUME NEW f \in Fields, NEW item \in body[f].items
               PROVE  /\ item.text \in Bad => Unread(body, f, item)
                      /\ f = "input" /\ item.type = "function_call" /\ item.name \in Bad => Skipped(body, f)
    BY DEF Cleared
  <1>1. "" \notin Bad
    BY PipelineAssumption
  <1>2. CASE f \in {"messages", "jsonrpc"}
    BY <1>2, FirstFields
  <1>3. CASE f \in {"input", "instructions"}
    <2>1. CASE Skipped(body, f)
      BY <2>1 DEF Unread
    <2>2. CASE ~Skipped(body, f)
      BY <1>1, <1>3, <2>2, InputFields
    <2> QED
      BY <2>1, <2>2
  <1>4. CASE f \notin {"messages", "jsonrpc", "input", "instructions"}
    BY <1>4 DEF Unread, Skipped
  <1> QED
    BY <1>2, <1>3, <1>4

(* What the response guard reads of the answer.                            *)
LEMMA ResponseRead ==
    ASSUME NEW body \in Body, ExtractAssistantMessages(body, input).ok,
           NEW f \in Fields, NEW item \in body[f].items, ~Unheard(body, f, item)
    PROVE  item.text \in ExtractAssistantMessages(body, input).texts \cup {""}
  <1> DEFINE found == ExtractAssistantMessages(body, input)
  <1>1. item \in Item /\ Has(body, f) /\ item.type = "message" /\ body[f].kind \in {"expected", "other"}
    BY BodyParts DEF Unheard
  <1>2. CASE f = "choices"
    <2> DEFINE said == {x.text : x \in {y \in body["choices"].items : y.type = "message"}} \ {""}
    <2>1. found = OpenAIChoices(body["choices"])
      BY <1>1, <1>2 DEF ExtractAssistantMessages, Unheard
    <2>2. OpenAIChoices(body["choices"]) \in {Failure, Texted(said)}
      BY DEF OpenAIChoices
    <2>3. found.texts = said
      <3> HIDE DEF said
      <3> QED
        BY <2>1, <2>2 DEF Failure, Texted
    <2> QED
      BY <1>1, <1>2, <2>3
  <1>3. CASE f = "jsonrpc"
    <2> DEFINE said == {x.text : x \in {y \in body["jsonrpc"].items :
              /\ body["jsonrpc"].kind = "expected" /\ y.shape # "junk" /\ y.type = "message"}} \ {""}
    <2>1. found = MCPTextContent(body["jsonrpc"])
      BY <1>1, <1>3 DEF ExtractAssistantMessages, Unheard
    <2>2. MCPTextContent(body["jsonrpc"]) \in {Failure, Texted(said)}
      BY DEF MCPTextContent
    <2>3. found.texts = said
      <3> HIDE DEF said
      <3> QED
        BY <2>1, <2>2 DEF Failure, Texted
    <2>4. body["jsonrpc"].kind = "expected" /\ item.shape # "junk"
      BY <1>3 DEF Unheard
    <2> QED
      BY <1>1, <1>3, <2>3, <2>4
  <1>4. CASE f = "output"
    <2> DEFINE said == {StringOf(x) : x \in {y \in body["output"].items : Spoken(y)}} \ {""}
    <2>1. found = OpenResponsesOutput(body["output"])
      BY <1>4 DEF ExtractAssistantMessages, Unheard
    <2>2. \/ OpenResponsesOutput(body["output"]) = Failure
          \/ /\ OpenResponsesOutput(body["output"]) = Texted(said)
             /\ \A x \in body["output"].items : x.shape # "junk" /\ (Spoken(x) => x.shape # "odd")
      <3>1. body["output"].kind # "absent"
        BY <1>1, <1>4
      <3> QED
        BY <3>1 DEF OpenResponsesOutput
    <2>3. /\ found.texts = said
          /\ \A x \in body["output"].items : x.shape # "junk" /\ (Spoken(x) => x.shape # "odd")
      <3> HIDE DEF said
      <3> QED
        BY <2>1, <2>2 DEF Failure, Texted
    <2>4. Spoken(item) /\ item.shape # "hidden"
      BY <1>1, <1>4 DEF Unheard, Spoken
    <2>5. StringOf(item) = item.text
      BY <1>1, <1>4, <2>3, <2>4 DEF StringOf, Item
    <2> QED
      BY <1>4, <2>3, <2>4, <2>5
  <1> QED
    BY <1>2, <1>3, <1>4 DEF Unheard

(* The service allows only texts it does not block.                        *)
LEMMA AllowedTexts ==
    ASSUME NEW texts, NEW reply \in Verdicts(texts), Allows(reply)
    PROVE  texts \cap Bad = {}
  BY DEF Verdicts, Allows

-----------------------------------------------------------------------------
(* A request past its guard is cleared; a held back answer is not shown    *)
(* before its review.                                                      *)
Withheld ==
    /\ stage \in {"translate"} \cup Sent \/ answer # None => Cleared(client.body)
    /\ stage # "done" /\ profile = "translation" => shown = None
Passed(body) == \A f \in Fields : \A item \in body[f].items : item.text \in Bad => Unheard(body, f, item)
Delivered == shown # None /\ profile = "translation" => Passed(shown.body)
GuardInv == MeteringInv /\ Withheld /\ Delivered

(* The request guard lets pass only what the service allows.               *)
LEMMA InspectGuards ==
    ASSUME GuardInv, InspectRequest, stage' = "translate"
    PROVE  Cleared(client.body)
  <1> DEFINE found == ExtractMessages(client.body)
  <1>1. client.body \in Body
    BY PipelineAssumption DEF GuardInv, MeteringInv, TypeInv, RequestTypes, Client
  <1>2. found.ok /\ found.texts \cap Bad = {}
    <2> HIDE DEF found
    <2>1. \/ found.ok /\ found.texts = {}
          \/ found.ok /\ \E reply \in Verdicts(found.texts) : Allows(reply)
      BY DEF InspectRequest, Refuse, found
    <2> QED
      BY <2>1, AllowedTexts
  <1> QED
    BY <1>1, <1>2, RequestRead

(* So does the response guard.                                             *)
LEMMA ReviewGuards ==
    ASSUME GuardInv, ReviewResponse, shown' # shown
    PROVE  shown' = Shown(answer) /\ Passed(answer.body)
  <1> DEFINE found == ExtractAssistantMessages(answer.body, input)
  <1>1. answer.body \in Body
    BY DEF ReviewResponse, GuardInv, MeteringInv, TypeInv, FormatInv, FormatTypes, Answered, Answer
  <1>2. found.ok /\ found.texts \cap Bad = {} /\ shown' = Shown(answer)
    <2> HIDE DEF found
    <2>1. /\ shown' = Shown(answer)
          /\ \/ found.ok /\ found.texts = {}
             \/ found.ok /\ \E reply \in Verdicts(found.texts) : Allows(reply)
      BY DEF ReviewResponse, Refuse, found
    <2> QED
      BY <2>1, AllowedTexts
  <1>3. "" \notin Bad
    BY PipelineAssumption
  <1>4. Passed(answer.body)
    BY <1>1, <1>2, <1>3, ResponseRead DEF Passed
  <1> QED
    BY <1>2, <1>4

LEMMA GuardStep ==
    ASSUME GuardInv, [Next]_vars
    PROVE  GuardInv'
  <1> USE DEF requestVars, stateVars, chunkVars, Refuse
  <1>1. MeteringInv'
    BY MeteringStep DEF GuardInv
  <1>2. ASSUME Next PROVE client' = client
    BY <1>2 DEF Next, Guard, NotInference, ResolveModel, Pick, Enforce, Unmetered, BalanceChecked,
        BalanceCheckFails, InspectRequest, TranslateRequest, Provider, Chunks, Chunk, Break, AccountBody,
        TranslateResponse, ReviewResponse
  <1>3. CASE \/ Guard \/ NotInference \/ ResolveModel \/ Pick \/ Enforce \/ Unmetered
             \/ BalanceChecked \/ BalanceCheckFails \/ InspectRequest \/ TranslateRequest
    <2>1. /\ stage \in {"guard", "resolve", "pick", "enforce", "balance", "inspect", "translate"}
          /\ stage' \in {"resolve", "pick", "enforce", "balance", "inspect", "translate", "provider", "done"}
          /\ UNCHANGED <<client, answer, shown>>
          /\ stage' = "provider" => stage = "translate"
          /\ stage' = "translate" => InspectRequest
      BY <1>3 DEF Guard, NotInference, ResolveModel, SelectRef, Pick, Enforce, Unmetered, BalanceChecked,
          BalanceCheckFails, InspectRequest, TranslateRequest
    <2>2. answer' = None /\ shown' = None
      BY <2>1 DEF GuardInv, MeteringInv, Fresh, Answered, Ended
    <2>3. stage' \in {"translate", "provider"} => Cleared(client.body)
      BY <2>1, InspectGuards DEF GuardInv, Withheld
    <2> QED
      BY <1>1, <2>1, <2>2, <2>3 DEF GuardInv, Withheld, Delivered, Sent, Answered
  <1>4. CASE Provider
    <2>1. /\ stage = "provider" /\ stage' \in Sent /\ UNCHANGED <<client, profile>>
          /\ profile = "translation" => shown' = None
      BY <1>4 DEF Provider, Sent, Answered
    <2> QED
      BY <1>1, <2>1 DEF GuardInv, Withheld, Delivered, Sent
  <1>5. CASE (stage = "chunks" /\ Chunks) \/ Break \/ AccountBody \/ TranslateResponse
    <2>1. /\ stage \in Answered /\ UNCHANGED <<client, profile, shown, input>>
          /\ stage' = "done" => profile = "passthrough"
      BY <1>5 DEF Chunks, Chunk, Break, AccountBody, TranslateResponse, Answered, GuardInv, MeteringInv,
          TypeInv, FormatInv, Inward
    <2>2. Cleared(client.body)
      BY <2>1 DEF GuardInv, Withheld, Sent
    <2>3. Withheld'
      BY <2>1, <2>2 DEF GuardInv, Withheld, Answered
    <2>4. Delivered'
      BY <2>1 DEF GuardInv, Delivered, Passed, Unheard
    <2> QED
      BY <1>1, <2>3, <2>4 DEF GuardInv
  <1>6. CASE ReviewResponse
    <2>1. stage = "review" /\ stage' = "done" /\ UNCHANGED <<client, profile, input, answer>>
      BY <1>6 DEF ReviewResponse
    <2>2. Cleared(client.body)
      BY <2>1 DEF GuardInv, Withheld, Sent, Answered
    <2>3. Withheld'
      BY <2>1, <2>2 DEF Withheld
    <2>4. Delivered'
      <3>1. CASE shown' = shown
        BY <2>1, <3>1 DEF GuardInv, Delivered, Passed, Unheard
      <3>2. CASE shown' # shown
        <4>1. shown'.body = answer.body /\ Passed(answer.body)
          BY <1>6, <3>2, ReviewGuards DEF Shown
        <4> QED
          BY <2>1, <4>1 DEF Delivered, Passed, Unheard
      <3> QED
        BY <3>1, <3>2
    <2> QED
      BY <1>1, <2>3, <2>4 DEF GuardInv
  <1>7. CASE UNCHANGED vars
    <2>1. Withheld' /\ Delivered'
      BY <1>7 DEF vars, GuardInv, Withheld, Delivered, Passed, Unheard
    <2> QED
      BY <1>1, <2>1 DEF GuardInv
  <1> QED
    BY <1>3, <1>4, <1>5, <1>6, <1>7 DEF Next

(* Text the service blocks gets past a guard only in the places the guard  *)
(* does not look at: everything else is submitted, and only two replies    *)
(* let anything pass.                                                      *)
THEOREM BlockedOut == Spec => []BlockedStaysOut
  <1>1. Init => GuardInv
    BY MeteringInit DEF Init, GuardInv, Withheld, Delivered, Sent, Answered
  <1>2. GuardInv /\ [Next]_vars => GuardInv'
    BY GuardStep
  <1>3. GuardInv => BlockedStaysOut
    BY DEF GuardInv, Withheld, Cleared, Delivered, Passed, BlockedStaysOut
  <1> QED
    BY <1>1, <1>2, <1>3, PTL DEF Spec
=============================================================================
