--------------------------- MODULE AgentTurnProofs --------------------------
(***************************************************************************)
(* What holds of the agent loop for every set of conversations, window,    *)
(* fault and bound.  First what the cut point and the compacted history    *)
(* are (Compaction): a compaction never separates the answers of tool      *)
(* calls from their calls, keeps the first message, and forgets nothing.   *)
(* Then the shape of the loop's state, that a model which keeps answering  *)
(* with nothing is not asked for ever, and that a prune spares what was    *)
(* known before its turn.  And, for conversations no heartbeat is          *)
(* addressed to, that every request is well formed, that usage is counted  *)
(* for the messages it was measured on, and that the loop and the store    *)
(* implement ConversationMemory.                                           *)
(***************************************************************************)
EXTENDS AgentTurn, SequenceTheorems, FiniteSetTheorems, WellFoundedInduction, TLAPS

-----------------------------------------------------------------------------
(* The least and the greatest of a set of numbers.                         *)

\* A set of natural numbers has a least member, which Min finds.
LEMMA Least ==
  ASSUME NEW T \in SUBSET Nat, T # {}
  PROVE  Min(T) \in T /\ \A y \in T : Min(T) <= y
  <1> DEFINE R == {ss \in Nat \X Nat : ss[1] < ss[2]}
  <1>1. IsWellFoundedOn(R, Nat)
    BY NatLessThanWellFounded DEF OpToRel
  <1>2. \A x, y \in Nat : <<y, x>> \in R <=> y < x
    OBVIOUS
  <1> HIDE DEF R
  <1>3. PICK x \in T : \A y \in T : <<y, x>> \notin R
    BY <1>1, WFMin
  <1>4. \A y \in T : x <= y
    <2> SUFFICES ASSUME NEW y \in T PROVE x <= y OBVIOUS
    <2>1. ~(y < x) BY <1>2, <1>3
    <2> QED BY <2>1
  <1> QED BY <1>4 DEF Min

\* A bounded set of natural numbers has a greatest, which Max finds.
LEMMA Greatest ==
  ASSUME NEW n \in Nat, NEW T \in SUBSET (0 .. n), T # {}
  PROVE  Max(T) \in T /\ \A y \in T : y <= Max(T)
  <1> DEFINE U == {x \in Nat : \E y \in T : x = n - y}
  <1>1. U \in SUBSET Nat /\ U # {}
    <2>1. PICK y \in T : TRUE OBVIOUS
    <2>2. n - y \in U BY <2>1
    <2> QED BY <2>2
  <1>2. \A v \in U : Min(U) <= v /\ Min(U) \in U
    <2> HIDE DEF U
    <2> QED BY <1>1, Least
  <1>3. PICK x \in T : Min(U) = n - x BY <1>1, <1>2
  <1>4. \A y \in T : y <= x
    <2> TAKE y \in T
    <2>1. n - y \in U OBVIOUS
    <2>2. n - x <= n - y BY <1>2, <1>3, <2>1
    <2> QED BY <2>2
  <1> QED BY <1>4 DEF Max

-----------------------------------------------------------------------------
(* Where a history is cut.                                                 *)

\* Snapping forward: never onto a tool message, never past the end + 1.
LEMMA SelfContainedCut ==
  ASSUME NEW ms \in Seq(Message), NEW cut \in 1 .. Len(ms)
  PROVE  /\ SelfContained(ms, cut) \in cut .. Len(ms) + 1
         /\ SelfContained(ms, cut) <= Len(ms) => ms[SelfContained(ms, cut)].role # "tool"
  <1> DEFINE T == {i \in cut .. Len(ms) + 1 : i = Len(ms) + 1 \/ ms[i].role # "tool"}
  <1>1. Len(ms) \in Nat BY LenProperties
  <1>2. T \in SUBSET Nat /\ Len(ms) + 1 \in T BY <1>1
  <1>3. Min(T) \in T
    <2> HIDE DEF T
    <2> QED BY <1>2, Least
  <1> QED BY <1>1, <1>3 DEF SelfContained

\* FindCutPoint: the first kept message is at or after `start', and is no
\* tool message; or there is none.
LEMMA CutPoint ==
  ASSUME NEW ms \in Seq(Message), NEW start \in Nat \ {0}, NEW keep
  PROVE  /\ FindCutPoint(ms, start, keep) \in Nat
         /\ FindCutPoint(ms, start, keep) <= Len(ms) + 1
         /\ FindCutPoint(ms, start, keep) <= Len(ms) =>
              /\ start <= FindCutPoint(ms, start, keep)
              /\ ms[FindCutPoint(ms, start, keep)].role # "tool"
  <1> DEFINE points == ValidCutPoints(ms, start)
             crossing == {i \in start .. Len(ms) : TokensFrom(ms, i) >= keep}
             after == IF crossing = {} THEN {}
                      ELSE {p \in points : p >= Max(crossing)}
             cut == IF after = {} THEN Max(points) ELSE Min(after)
  <1>1. Len(ms) \in Nat BY LenProperties
  <1>2. CASE points = {}
    <2>1. FindCutPoint(ms, start, keep) = Len(ms) + 1 BY <1>2 DEF FindCutPoint
    <2> QED BY <1>1, <2>1
  <1>3. CASE points # {}
    <2>1. points \subseteq start .. Len(ms) /\ after \subseteq points
      BY DEF ValidCutPoints
    <2>2. cut \in points
      <3> HIDE DEF points, after
      <3>1. points \in SUBSET (0 .. Len(ms)) /\ after \in SUBSET Nat BY <1>1, <2>1
      <3>2. Max(points) \in points BY <1>1, <1>3, <3>1, Greatest
      <3>3. after # {} => Min(after) \in after BY <3>1, Least
      <3> QED BY <2>1, <3>2, <3>3
    <2>3. FindCutPoint(ms, start, keep) = SelfContained(ms, cut)
      BY <1>3 DEF FindCutPoint
    <2> HIDE DEF cut
    <2>4. cut \in start .. Len(ms)
      <3> HIDE DEF points, after
      <3> QED BY <2>1, <2>2
    <2>5. cut \in 1 .. Len(ms) BY <1>1, <2>4
    <2> QED BY <1>1, <2>3, <2>4, <2>5, SelfContainedCut
  <1> QED BY <1>2, <1>3

-----------------------------------------------------------------------------
(* What a compaction leaves.                                               *)

\* The messages of a history and their number.
LEMMA MessagesOf ==
  ASSUME NEW ms \in Seq(Message)
  PROVE  /\ Len(ms) \in Nat /\ DOMAIN ms = 1 .. Len(ms)
         /\ \A i \in 1 .. Len(ms) : ms[i] \in Message /\ ms[i].calls \in Nat
  <1>1. Len(ms) \in Nat /\ DOMAIN ms = 1 .. Len(ms) BY LenProperties
  <1>2. ASSUME NEW i \in 1 .. Len(ms) PROVE ms[i] \in Message
    BY ElementOfSeq
  <1>3. \A m \in Message : m.calls \in Nat BY DEF Message
  <1> QED BY <1>1, <1>2, <1>3

\* What a history knows of are ids.
LEMMA KnownType ==
  ASSUME NEW ms \in Seq(Message)
  PROVE  Known(ms) \in SUBSET Nat
  <1>1. \A i \in DOMAIN ms : ms[i] \in Message BY MessagesOf
  <1>2. \A m \in Message : Says(m) \in SUBSET Nat BY DEF Message, Says
  <1> QED BY <1>1, <1>2 DEF Known

\* The synthetic summary is a message.
LEMMA SummaryMessageType ==
  ASSUME NEW summary \in SUBSET Nat
  PROVE  SyntheticSummaryMessage(summary) \in Message
  <1>1. SummaryTokens \in Nat BY CompactionAssumption DEF CompactionAssumption
  <1> QED BY <1>1 DEF Message, Roles, SyntheticSummaryMessage

\* Where there is something to compact, the cut and the summary.
LEMMA SummarizeType ==
  ASSUME NEW ms \in Seq(Message), NEW previousSummary \in SUBSET Nat, Compactable(ms)
  PROVE  /\ CutOf(ms) \in 3 .. Len(ms)
         /\ ms[CutOf(ms)].role # "tool"
         /\ Summarize(ms, previousSummary) \in SUBSET Nat
  <1>1. CutOf(ms) \in 3 .. Len(ms) /\ ms[CutOf(ms)].role # "tool"
    BY MessagesOf, CutPoint DEF CutOf, Compactable
  <1>2. \A i \in 2 .. CutOf(ms) - 1 : ms[i] \in Message BY <1>1, MessagesOf
  <1>3. SubSeq(ms, 2, CutOf(ms) - 1) \in Seq(Message)
    BY <1>1, <1>2, SubSeqProperties
  <1>4. Known(SubSeq(ms, 2, CutOf(ms) - 1)) \in SUBSET Nat BY <1>3, KnownType
  <1> QED BY <1>1, <1>4 DEF Summarize

\* The kept history: the first message, the summary, and the messages from
\* the cut on, `CutOf(ms) - 3' places further to the front.
LEMMA CompactShape ==
  ASSUME NEW ms \in Seq(Message), NEW previousSummary \in SUBSET Nat, Compactable(ms),
         NEW kept, kept = Compact(ms, previousSummary),
         NEW cut, cut = CutOf(ms)
  PROVE  /\ kept \in Seq(Message)
         /\ Len(kept) = Len(ms) - cut + 3
         /\ kept[1] = ms[1]
         /\ kept[2] = SyntheticSummaryMessage(Summarize(ms, previousSummary))
         /\ \A i \in 3 .. Len(kept) : kept[i] = ms[cut + i - 3]
  <1> DEFINE summary == SyntheticSummaryMessage(Summarize(ms, previousSummary))
             head == <<ms[1], summary>>
             tail == SubSeq(ms, cut, Len(ms))
  <1>1. Len(ms) \in Nat /\ \A i \in 1 .. Len(ms) : ms[i] \in Message
    BY MessagesOf
  <1>2. cut \in 3 .. Len(ms) BY SummarizeType
  <1>3. ms[1] \in Message BY <1>1, <1>2
  <1>4. summary \in Message
    <2>1. Summarize(ms, previousSummary) \in SUBSET Nat BY SummarizeType
    <2> QED BY <2>1, SummaryMessageType
  <1>5. kept = head \o tail BY DEF Compact
  <1> HIDE DEF summary
  <1>6. /\ head \in Seq(Message) /\ Len(head) = 2
        /\ head[1] = ms[1] /\ head[2] = summary
    BY <1>3, <1>4
  <1>7. /\ tail \in Seq(Message) /\ Len(tail) = Len(ms) - cut + 1
        /\ \A i \in 1 .. Len(ms) - cut + 1 : tail[i] = ms[cut + i - 1]
    <2>1. \A i \in cut .. Len(ms) : ms[i] \in Message BY <1>1, <1>2
    <2>2. /\ tail \in Seq(Message)
          /\ Len(tail) = IF cut <= Len(ms) THEN Len(ms) - cut + 1 ELSE 0
          /\ \A i \in 1 .. Len(ms) - cut + 1 : tail[i] = ms[cut + i - 1]
      BY <1>1, <1>2, <2>1, SubSeqProperties
    <2> QED BY <1>1, <1>2, <2>2
  <1> HIDE DEF head, tail
  <1>8. /\ head \o tail \in Seq(Message)
        /\ Len(head \o tail) = Len(head) + Len(tail)
        /\ \A i \in 1 .. Len(head) + Len(tail) :
               (head \o tail)[i] = IF i <= Len(head) THEN head[i] ELSE tail[i - Len(head)]
    BY <1>6, <1>7, ConcatProperties
  <1>9. Len(kept) = Len(ms) - cut + 3 BY <1>1, <1>2, <1>5, <1>6, <1>7, <1>8
  <1>10. \A i \in 3 .. Len(kept) : kept[i] = ms[cut + i - 3]
    <2> TAKE i \in 3 .. Len(kept)
    <2>1. kept[i] = tail[i - 2] BY <1>1, <1>2, <1>5, <1>6, <1>7, <1>8, <1>9
    <2>2. tail[i - 2] = ms[cut + (i - 2) - 1] BY <1>1, <1>2, <1>7, <1>9
    <2>3. cut + (i - 2) - 1 = cut + i - 3 BY <1>2
    <2> QED BY <2>1, <2>2, <2>3
  <1>11. kept[1] = ms[1] /\ kept[2] = summary
    BY <1>1, <1>2, <1>5, <1>6, <1>7, <1>8
  <1> QED BY <1>5, <1>8, <1>9, <1>10, <1>11 DEF summary

\* A name of its own, since the SMT translation handles the empty string badly.
HasRole(m) == m.role # ""

\* The i-th message of a history in which every call is answered.
AnsweredAt(ms, i) ==
    /\ HasRole(ms[i])
    /\ i + ms[i].calls <= Len(ms)
    /\ \A j \in i + 1 .. i + ms[i].calls :
           ms[j].role = "tool" /\ ms[j].answers = ms[i].id
    /\ ms[i].role = "tool" =>
           \E j \in 1 .. i - 1 : ms[j].role = "assistant" /\ i <= j + ms[j].calls

\* The first message neither calls a tool nor answers one.
PlainFirst(ms) == ms[1].calls = 0 /\ ms[1].role # "tool"

\* A history whose calls are answered, and whose first message makes none,
\* is still answered after a compaction.
LEMMA CompactKeepsAnswers ==
  ASSUME NEW ms \in Seq(Message), NEW previousSummary \in SUBSET Nat,
         Compactable(ms), CallsAnswered(ms), PlainFirst(ms)
  PROVE  CallsAnswered(Compact(ms, previousSummary))
  <1> DEFINE kept == Compact(ms, previousSummary)
             cut == CutOf(ms)
  <1>1. /\ Len(ms) \in Nat /\ DOMAIN ms = 1 .. Len(ms)
        /\ \A i \in 1 .. Len(ms) : ms[i].calls \in Nat
    BY MessagesOf
  <1>2. cut \in 3 .. Len(ms) /\ ms[cut].role # "tool" BY SummarizeType
  <1>3. /\ kept \in Seq(Message)
        /\ Len(kept) = Len(ms) - cut + 3
        /\ kept[1] = ms[1]
        /\ kept[2] = SyntheticSummaryMessage(Summarize(ms, previousSummary))
        /\ \A i \in 3 .. Len(kept) : kept[i] = ms[cut + i - 3]
    <2> HIDE DEF kept, cut
    <2>1. kept = Compact(ms, previousSummary) /\ cut = CutOf(ms) BY DEF kept, cut
    <2> QED BY <2>1, CompactShape
  <1> HIDE DEF kept, cut
  <1>4. HasRole(kept[2]) /\ kept[2].role = "user" /\ kept[2].calls = 0
    BY <1>3 DEF SyntheticSummaryMessage, HasRole
  <1>5. DOMAIN kept = 1 .. Len(kept) BY <1>3, LenProperties
  <1>6. \A i \in 1 .. Len(ms) : AnsweredAt(ms, i)
    BY <1>1 DEF CallsAnswered, AnsweredAt, HasRole
  <1>7. ASSUME NEW i \in 3 .. Len(kept) PROVE AnsweredAt(kept, i)
    <2>1. PICK k \in 1 .. Len(ms) : k = cut + i - 3 /\ k >= cut /\ kept[i] = ms[k]
      <3>1. cut + i - 3 \in 1 .. Len(ms) /\ cut + i - 3 >= cut BY <1>1, <1>2, <1>3
      <3> QED BY <1>3, <3>1
    <2>2. HasRole(ms[k]) /\ k + ms[k].calls <= Len(ms) /\ ms[k].calls \in Nat
      BY <1>1, <1>6, <2>1 DEF AnsweredAt
    <2> DEFINE n == kept[i].calls
    <2>3. n = ms[k].calls /\ i \in Nat /\ Len(kept) \in Nat
      <3>1. n = ms[k].calls BY <2>1
      <3>2. Len(kept) \in Nat BY <1>1, <1>2, <1>3
      <3> QED BY <3>1, <3>2
    <2> HIDE DEF n
    <2>4. i + n <= Len(kept) BY <1>1, <1>2, <1>3, <2>1, <2>2, <2>3
    <2>5. ASSUME NEW j \in i + 1 .. i + n
          PROVE  kept[j].role = "tool" /\ kept[j].answers = kept[i].id
      <3>1. j \in 3 .. Len(kept)
        <4>1. j \in Int /\ i + 1 <= j /\ j <= i + n BY <2>2, <2>3
        <4> QED BY <2>2, <2>4, <2>3, <4>1
      <3>2. kept[j] = ms[cut + j - 3] BY <1>3, <3>1
      <3>3. cut + j - 3 \in k + 1 .. k + ms[k].calls BY <1>2, <2>1, <2>2, <2>3
      <3>4. \A h \in k + 1 .. k + ms[k].calls :
                ms[h].role = "tool" /\ ms[h].answers = ms[k].id
        BY <1>6, <2>1 DEF AnsweredAt
      <3> QED BY <2>1, <3>2, <3>3, <3>4
    <2>6. ASSUME kept[i].role = "tool"
          PROVE  \E j \in 1 .. i - 1 :
                     kept[j].role = "assistant" /\ i <= j + kept[j].calls
      <3>1. PICK h \in 1 .. k - 1 : ms[h].role = "assistant" /\ k <= h + ms[h].calls
        BY <1>6, <2>1, <2>6 DEF AnsweredAt
      <3>2. h \in 1 .. Len(ms) /\ ms[h].calls \in Nat
        BY <1>1, <1>2, <2>1, <3>1
      <3>3. h >= cut
        <4>1. SUFFICES ASSUME h < cut PROVE FALSE BY <1>2, <3>1
        <4>2. cut \in h + 1 .. h + ms[h].calls BY <1>2, <2>1, <3>1, <3>2, <4>1
        <4> QED BY <1>2, <1>6, <3>2, <4>2 DEF AnsweredAt
      <3>4. h - cut + 3 \in 1 .. i - 1 /\ h - cut + 3 \in 3 .. Len(kept)
        BY <1>1, <1>2, <1>3, <2>1, <3>1, <3>3
      <3>5. kept[h - cut + 3] = ms[h]
        <4>1. kept[h - cut + 3] = ms[cut + (h - cut + 3) - 3] BY <1>3, <3>4
        <4>2. cut + (h - cut + 3) - 3 = h BY <1>2, <3>2
        <4> QED BY <4>1, <4>2
      <3>6. i <= (h - cut + 3) + kept[h - cut + 3].calls
        BY <1>2, <2>1, <3>1, <3>2, <3>5
      <3> QED BY <3>1, <3>4, <3>5, <3>6
    <2> QED BY <2>1, <2>2, <2>4, <2>5, <2>6 DEF AnsweredAt, n
  <1>8. AnsweredAt(kept, 1)
    <2> DEFINE m == kept[1]
    <2>1. HasRole(ms[1]) BY <1>1, <1>2, <1>6 DEF AnsweredAt
    <2>2. HasRole(m) /\ m.role # "tool" /\ m.calls = 0 BY <1>3, <2>1 DEF PlainFirst
    <2> HIDE DEF m
    <2>3. 1 + m.calls <= Len(kept) /\ 1 + 1 .. 1 + m.calls = {}
      BY <1>1, <1>2, <1>3, <2>2
    <2> QED BY <2>2, <2>3 DEF AnsweredAt, m
  <1>9. AnsweredAt(kept, 2)
    BY <1>1, <1>2, <1>3, <1>4 DEF AnsweredAt
  <1>10. \A i \in 1 .. Len(kept) : i = 1 \/ i = 2 \/ i \in 3 .. Len(kept)
    BY <1>1, <1>2, <1>3
  <1>11. \A i \in 1 .. Len(kept) : AnsweredAt(kept, i) BY <1>7, <1>8, <1>9, <1>10
  <1> QED BY <1>5, <1>11 DEF CallsAnswered, AnsweredAt, HasRole, kept

-----------------------------------------------------------------------------
(* The estimate of a history is a number.  TokensFrom is a fold, which is  *)
(* a recursive function over the sets of indices: such a function exists   *)
(* for the sets up to any size, by the least size for which none would.    *)

\* The index a fold takes next.
First(s) == CHOOSE x \in s : TRUE

\* What a fold over w finds for s when it found f for smaller sets.
Fold(w, f, s) == IF s = {} THEN 0 ELSE w[First(s)] + f[s \ {First(s)}]

UpTo(S, n) == {s \in SUBSET S : Cardinality(s) <= n}

\* There is a fold over the subsets of at most n indices.
Folds(S, w, n) == \E f \in [UpTo(S, n) -> Nat] : \A s \in UpTo(S, n) : f[s] = Fold(w, f, s)

\* What is left of a set is smaller.
LEMMA SmallerRest ==
  ASSUME NEW S, IsFiniteSet(S), NEW s \in SUBSET S, s # {}
  PROVE  /\ First(s) \in s /\ s \ {First(s)} \in SUBSET S
         /\ Cardinality(s) \in Nat \ {0} /\ Cardinality(s \ {First(s)}) = Cardinality(s) - 1
  <1>1. First(s) \in s BY DEF First
  <1>2. IsFiniteSet(s) BY FS_Subset
  <1>3. Cardinality(s) \in Nat /\ Cardinality(s) # 0
    BY <1>2, FS_CardinalityType, FS_EmptySet
  <1> QED BY <1>1, <1>2, <1>3, FS_RemoveElement

\* A fold over smaller sets extends to the sets with one index more.
LEMMA LargerFold ==
  ASSUME NEW S, IsFiniteSet(S), NEW w \in [S -> Nat], NEW n \in Nat, Folds(S, w, n)
  PROVE  Folds(S, w, n + 1)
  <1>1. PICK f \in [UpTo(S, n) -> Nat] : \A s \in UpTo(S, n) : f[s] = Fold(w, f, s)
    BY DEF Folds
  <1>2. \A s \in UpTo(S, n + 1) : s # {} =>
            /\ s \ {First(s)} \in UpTo(S, n) /\ First(s) \in S
            /\ f[s \ {First(s)}] \in Nat /\ w[First(s)] \in Nat
    <2> SUFFICES ASSUME NEW s \in UpTo(S, n + 1), s # {}
                 PROVE  s \ {First(s)} \in UpTo(S, n) /\ First(s) \in S
      BY <1>1
    <2> QED BY SmallerRest DEF UpTo
  <1>3. PICK g : g = [s \in UpTo(S, n + 1) |-> Fold(w, f, s)] OBVIOUS
  <1>4. \A s \in UpTo(S, n + 1) : Fold(w, f, s) \in Nat
    <2> TAKE s \in UpTo(S, n + 1)
    <2>1. CASE s = {} BY <2>1 DEF Fold
    <2>2. CASE s # {}
      <3>1. f[s \ {First(s)}] \in Nat /\ w[First(s)] \in Nat BY <1>2, <2>2
      <3> QED BY <2>2, <3>1 DEF Fold
    <2> QED BY <2>1, <2>2
  <1>5. g \in [UpTo(S, n + 1) -> Nat] BY <1>3, <1>4
  <1>6. UpTo(S, n) \subseteq UpTo(S, n + 1)
    <2> SUFFICES ASSUME NEW s \in UpTo(S, n) PROVE s \in UpTo(S, n + 1) OBVIOUS
    <2>1. Cardinality(s) \in Nat BY FS_Subset, FS_CardinalityType DEF UpTo
    <2> QED BY <2>1 DEF UpTo
  <1>7. \A s \in UpTo(S, n) : g[s] = f[s] BY <1>1, <1>3, <1>6
  <1>8. \A s \in UpTo(S, n + 1) : g[s] = Fold(w, g, s)
    <2> TAKE s \in UpTo(S, n + 1)
    <2>1. g[s] = Fold(w, f, s) BY <1>3
    <2>2. CASE s = {} BY <2>1, <2>2 DEF Fold
    <2>3. CASE s # {}
      <3>1. g[s \ {First(s)}] = f[s \ {First(s)}] BY <1>2, <1>7, <2>3
      <3> QED BY <2>1, <2>3, <3>1 DEF Fold
    <2> QED BY <2>2, <2>3
  <1> QED BY <1>5, <1>8 DEF Folds

\* So there is one for sets of every size.
LEMMA FoldExists ==
  ASSUME NEW S, IsFiniteSet(S), NEW w \in [S -> Nat], NEW n \in Nat
  PROVE  Folds(S, w, n)
  <1>1. Folds(S, w, 0)
    <2>1. \A s \in UpTo(S, 0) : s = {}
      <3> TAKE s \in UpTo(S, 0)
      <3>1. s \in SUBSET S /\ Cardinality(s) <= 0 BY DEF UpTo
      <3>2. s # {} => Cardinality(s) \in Nat \ {0} BY <3>1, SmallerRest
      <3> QED BY <3>1, <3>2
    <2>2. PICK f : f = [s \in UpTo(S, 0) |-> 0] OBVIOUS
    <2>3. f \in [UpTo(S, 0) -> Nat] BY <2>2
    <2>4. \A s \in UpTo(S, 0) : f[s] = Fold(w, f, s) BY <2>1, <2>2 DEF Fold
    <2> QED BY <2>3, <2>4 DEF Folds
  <1> DEFINE T == {m \in Nat : ~Folds(S, w, m)}
  <1>2. ASSUME T # {} PROVE FALSE
    <2>1. T \in SUBSET Nat OBVIOUS
    <2>2. PICK m \in Nat : m = Min(T) /\ m \in T /\ \A y \in T : m <= y
      <3> HIDE DEF T
      <3> QED BY <2>1, <1>2, Least
    <2>3. m # 0 BY <1>1, <2>2
    <2>4. m - 1 \in Nat /\ m - 1 \notin T BY <2>2, <2>3
    <2>5. Folds(S, w, m - 1) BY <2>4
    <2>6. Folds(S, w, (m - 1) + 1) BY <2>4, <2>5, LargerFold
    <2>7. (m - 1) + 1 = m OBVIOUS
    <2> QED BY <2>2, <2>6, <2>7
  <1> QED BY <1>2

\* The fold over a finite set of numbers is a number.
IsFold(S, w, f) == f = [s \in SUBSET S |-> Fold(w, f, s)]

LEMMA FoldIsNat ==
  ASSUME NEW S, IsFiniteSet(S), NEW w \in [S -> Nat], NEW f, IsFold(S, w, f)
  PROVE  f[S] \in Nat
  <1>1. PICK c \in Nat : c = Cardinality(S) BY FS_CardinalityType
  <1>2. PICK g \in [UpTo(S, c) -> Nat] : \A s \in UpTo(S, c) : g[s] = Fold(w, g, s)
    BY FoldExists DEF Folds
  <1>3. UpTo(S, c) = SUBSET S
    <2>1. \A s \in SUBSET S : Cardinality(s) <= c BY <1>1, FS_Subset
    <2> QED BY <2>1 DEF UpTo
  <1> DEFINE T == {m \in Nat : \E s \in SUBSET S : Cardinality(s) = m /\ f[s] # g[s]}
  <1>4. ASSUME T # {} PROVE FALSE
    <2>1. T \in SUBSET Nat OBVIOUS
    <2>2. PICK m \in Nat : m \in T /\ \A y \in T : m <= y
      <3> HIDE DEF T
      <3> QED BY <2>1, <1>4, Least
    <2>3. PICK s \in SUBSET S : Cardinality(s) = m /\ f[s] # g[s] BY <2>2
    <2>4. f[s] = Fold(w, f, s) BY DEF IsFold
    <2>5. g[s] = Fold(w, g, s) BY <1>2, <1>3
    <2>6. s # {} BY <2>3, <2>4, <2>5 DEF Fold
    <2>7. /\ s \ {First(s)} \in SUBSET S /\ m # 0
          /\ Cardinality(s \ {First(s)}) = m - 1
      BY <2>3, <2>6, SmallerRest
    <2>8. m - 1 \notin T /\ m - 1 \in Nat BY <2>2, <2>7
    <2>9. f[s \ {First(s)}] = g[s \ {First(s)}] BY <2>7, <2>8
    <2> QED BY <2>3, <2>4, <2>5, <2>6, <2>9 DEF Fold
  <1>5. f[S] = g[S]
    <2>1. Cardinality(S) \notin T BY <1>4
    <2> QED BY <2>1, <1>1
  <1> QED BY <1>2, <1>3, <1>5

\* What the fold of TokensFrom is, written out.
TokenFold(ms, S, f) ==
    f = [s \in SUBSET S |->
            IF s = {} THEN 0
            ELSE EstimateTokens(ms[CHOOSE x \in s : TRUE]) + f[s \ {CHOOSE x \in s : TRUE}]]

\* The estimate of any tail of a history is a number.
LEMMA TokensAreNat ==
  ASSUME NEW ms \in Seq(Message), NEW from \in Nat \ {0}
  PROVE  TokensFrom(ms, from) \in Nat
  <1>1. PICK S : S = from .. Len(ms) OBVIOUS
  <1>2. PICK w : w = [i \in S |-> ms[i].tokens] OBVIOUS
  <1>3. Len(ms) \in Nat /\ \A i \in S : ms[i] \in Message BY <1>1, MessagesOf
  <1>4. w \in [S -> Nat] BY <1>2, <1>3 DEF Message
  <1>5. IsFiniteSet(S) BY <1>1, <1>3, FS_Interval
  <1>6. \E f : IsFold(S, w, f)
    <2>1. PICK c \in Nat : c = Cardinality(S) BY <1>5, FS_CardinalityType
    <2>2. PICK g \in [UpTo(S, c) -> Nat] : \A s \in UpTo(S, c) : g[s] = Fold(w, g, s)
      BY <1>4, <1>5, FoldExists DEF Folds
    <2>3. \A s \in SUBSET S : Cardinality(s) <= c BY <2>1, <1>5, FS_Subset
    <2>4. UpTo(S, c) = SUBSET S BY <2>3 DEF UpTo
    <2> QED BY <2>2, <2>4 DEF IsFold
  <1>7. \A f : \A s \in SUBSET S :
          Fold(w, f, s) = IF s = {} THEN 0
                          ELSE EstimateTokens(ms[CHOOSE x \in s : TRUE])
                                 + f[s \ {CHOOSE x \in s : TRUE}]
    <2> SUFFICES ASSUME NEW s \in SUBSET S, s # {}
                 PROVE  w[First(s)] = EstimateTokens(ms[First(s)])
      BY DEF Fold, First
    <2>1. First(s) \in S BY <1>5, SmallerRest
    <2> QED BY <1>2, <2>1 DEF EstimateTokens
  <1>8. \A f : IsFold(S, w, f) <=> TokenFold(ms, S, f)
    BY <1>7 DEF IsFold, TokenFold
  <1>9. PICK f : f = CHOOSE g : TokenFold(ms, S, g) OBVIOUS
  <1>10. IsFold(S, w, f) BY <1>6, <1>8, <1>9
  <1>11. TokensFrom(ms, from) = f[S]
    BY <1>1, <1>9 DEF TokensFrom, MapThenSumSet, MapThenFoldSet, TokenFold
  <1> QED BY <1>4, <1>5, <1>10, <1>11, FoldIsNat

-----------------------------------------------------------------------------
(* How a history grows.                                                    *)

\* CallsAnswered, message by message.
LEMMA CallsAnsweredAt ==
  ASSUME NEW ms \in Seq(Message)
  PROVE  CallsAnswered(ms) <=> \A i \in 1 .. Len(ms) : AnsweredAt(ms, i)
  BY LenProperties DEF CallsAnswered, AnsweredAt, HasRole

\* What is answered stays answered when a message is appended.
LEMMA AppendKeeps ==
  ASSUME NEW ms \in Seq(Message), NEW m \in Message,
         NEW i \in 1 .. Len(ms), AnsweredAt(ms, i)
  PROVE  AnsweredAt(Append(ms, m), i)
  <1> DEFINE new == Append(ms, m)
  <1>1. /\ Len(new) = Len(ms) + 1 /\ Len(ms) \in Nat
        /\ \A j \in 1 .. Len(ms) : new[j] = ms[j]
    BY AppendProperties, LenProperties
  <1> HIDE DEF new
  <1>2. \A j \in 1 .. Len(ms) : ms[j].calls \in Nat BY MessagesOf
  <1>3. new[i] = ms[i] BY <1>1
  <1>4. HasRole(new[i]) BY <1>3 DEF AnsweredAt
  <1>5. i + new[i].calls <= Len(new)
    <2>1. ms[i].calls \in Nat /\ i + ms[i].calls <= Len(ms) BY <1>2 DEF AnsweredAt
    <2>2. i + ms[i].calls <= Len(new) BY <1>1, <2>1
    <2> QED BY <1>3, <2>2
  <1>6. ASSUME NEW j \in i + 1 .. i + new[i].calls
        PROVE  new[j].role = "tool" /\ new[j].answers = new[i].id
    <2>1. j \in i + 1 .. i + ms[i].calls BY <1>3
    <2>2. ms[j].role = "tool" /\ ms[j].answers = ms[i].id
      BY <2>1 DEF AnsweredAt
    <2>3. j \in 1 .. Len(ms)
      <3>1. ms[i].calls \in Nat /\ i + ms[i].calls <= Len(ms) BY <1>2 DEF AnsweredAt
      <3> QED BY <1>1, <2>1, <3>1
    <2> QED BY <1>1, <1>3, <2>2, <2>3
  <1>7. ASSUME new[i].role = "tool"
        PROVE  \E j \in 1 .. i - 1 :
                   new[j].role = "assistant" /\ i <= j + new[j].calls
    <2>1. PICK j \in 1 .. i - 1 : ms[j].role = "assistant" /\ i <= j + ms[j].calls
      BY <1>3, <1>7 DEF AnsweredAt
    <2>2. new[j] = ms[j] BY <1>1
    <2> QED BY <2>1, <2>2
  <1> QED BY <1>4, <1>5, <1>6, <1>7 DEF AnsweredAt, new

\* A message that calls no tool and answers none.
PlainMessage(m) == m \in Message /\ HasRole(m) /\ m.role # "tool" /\ m.calls = 0

\* A plain message leaves every call answered.
LEMMA AppendPlain ==
  ASSUME NEW ms \in Seq(Message), CallsAnswered(ms), NEW m, PlainMessage(m)
  PROVE  Append(ms, m) \in Seq(Message) /\ CallsAnswered(Append(ms, m))
  <1> DEFINE new == Append(ms, m)
  <1>1. m \in Message BY DEF PlainMessage
  <1>2. /\ new \in Seq(Message) /\ Len(ms) \in Nat
        /\ Len(new) = Len(ms) + 1 /\ new[Len(ms) + 1] = m
    BY <1>1, AppendProperties, LenProperties
  <1>3. \A i \in 1 .. Len(ms) : AnsweredAt(new, i)
    BY <1>1, AppendKeeps, CallsAnsweredAt
  <1> HIDE DEF new
  <1>4. AnsweredAt(new, Len(ms) + 1)
    <2> DEFINE last == new[Len(ms) + 1]
    <2>1. HasRole(last) /\ last.role # "tool" /\ last.calls = 0
      BY <1>2 DEF PlainMessage
    <2> HIDE DEF last
    <2>2. Len(ms) + 1 + last.calls = Len(new) BY <1>2, <2>1
    <2>3. Len(ms) + 1 + 1 .. Len(ms) + 1 + last.calls = {} BY <1>2, <2>1
    <2> QED BY <1>2, <2>1, <2>2, <2>3 DEF AnsweredAt, last
  <1>5. \A i \in 1 .. Len(new) : AnsweredAt(new, i)
    <2>1. \A i \in 1 .. Len(new) : i \in 1 .. Len(ms) \/ i = Len(ms) + 1 BY <1>2
    <2> QED BY <1>3, <1>4, <2>1
  <1>6. CallsAnswered(new) BY <1>2, <1>5, CallsAnsweredAt
  <1> QED BY <1>2, <1>6 DEF new

\* `pending' of the calls of the last assistant message are not answered yet.
PartlyAnsweredFrom(ms, pending, a) ==
    /\ \A i \in 1 .. a - 1 : AnsweredAt(ms, i)
    /\ ms[a].role = "assistant"
    /\ ms[a].calls > 0
    /\ a + ms[a].calls = Len(ms) + pending
    /\ \A j \in a + 1 .. Len(ms) :
           ms[j].role = "tool" /\ ms[j].answers = ms[a].id /\ ms[j].calls = 0

PartlyAnswered(ms, pending) ==
    \E a \in 1 .. Len(ms) : PartlyAnsweredFrom(ms, pending, a)

\* An assistant message with n calls leaves n calls to answer.
LEMMA AskingTools ==
  ASSUME NEW ms \in Seq(Message), CallsAnswered(ms), NEW m \in Message,
         m.role = "assistant", NEW n \in Nat \ {0}, m.calls = n
  PROVE  Append(ms, m) \in Seq(Message) /\ PartlyAnswered(Append(ms, m), n)
  <1> DEFINE new == Append(ms, m)
             a == Len(ms) + 1
  <1>1. /\ new \in Seq(Message) /\ Len(ms) \in Nat
        /\ Len(new) = Len(ms) + 1 /\ new[Len(ms) + 1] = m
    BY AppendProperties, LenProperties
  <1>2. \A i \in 1 .. Len(ms) : AnsweredAt(new, i)
    BY AppendKeeps, CallsAnsweredAt
  <1> HIDE DEF new
  <1>3. PartlyAnsweredFrom(new, n, Len(ms) + 1)
    <2>1. \A i \in 1 .. (Len(ms) + 1) - 1 : AnsweredAt(new, i) BY <1>1, <1>2
    <2>2. new[Len(ms) + 1].role = "assistant" /\ new[Len(ms) + 1].calls = n
      BY <1>1
    <2>3. Len(ms) + 1 + 1 .. Len(new) = {} BY <1>1
    <2>4. n > 0 /\ Len(ms) + 1 + n = Len(new) + n BY <1>1
    <2> QED BY <2>1, <2>2, <2>3, <2>4 DEF PartlyAnsweredFrom
  <1>4. Len(ms) + 1 \in 1 .. Len(new) BY <1>1
  <1> QED BY <1>1, <1>3, <1>4 DEF PartlyAnswered, new

\* The assistant message that RunTool finds is the one being answered.
LEMMA AskedIs ==
  ASSUME NEW ms \in Seq(Message), NEW pending, NEW a \in 1 .. Len(ms),
         PartlyAnsweredFrom(ms, pending, a)
  PROVE  Max({i \in DOMAIN ms : ms[i].calls > 0}) = a
  <1> DEFINE T == {i \in DOMAIN ms : ms[i].calls > 0}
  <1>1. Len(ms) \in Nat /\ DOMAIN ms = 1 .. Len(ms) BY LenProperties
  <1>2. a \in T /\ T \in SUBSET (0 .. Len(ms)) BY <1>1 DEF PartlyAnsweredFrom
  <1>3. ASSUME NEW i \in T PROVE i <= a
    <2>1. SUFFICES ASSUME i > a PROVE FALSE BY <1>1
    <2>2. i \in a + 1 .. Len(ms) BY <1>1, <2>1
    <2>3. ms[i].calls = 0 BY <2>2 DEF PartlyAnsweredFrom
    <2> QED BY <2>3
  <1> HIDE DEF T
  <1>4. Max(T) \in T /\ a <= Max(T) BY <1>1, <1>2, Greatest
  <1>5. Max(T) <= a BY <1>3, <1>4
  <1>6. Max(T) \in Nat
    <2>1. T \subseteq Nat BY <1>2
    <2> QED BY <1>4, <2>1
  <1>7. Max(T) = a BY <1>1, <1>4, <1>5, <1>6
  <1> QED BY <1>7 DEF T

\* A tool message, as RunTool builds it, leaves one call less.
LEMMA AnsweringTool ==
  ASSUME NEW ms \in Seq(Message), NEW pending \in Nat \ {0}, PartlyAnswered(ms, pending),
         NEW m \in Message, m.role = "tool", m.calls = 0,
         m.answers = ms[Max({i \in DOMAIN ms : ms[i].calls > 0})].id
  PROVE  Append(ms, m) \in Seq(Message) /\ PartlyAnswered(Append(ms, m), pending - 1)
  <1> DEFINE new == Append(ms, m)
  <1>1. PICK a \in 1 .. Len(ms) : PartlyAnsweredFrom(ms, pending, a)
    BY DEF PartlyAnswered
  <1>2. m.answers = ms[a].id BY <1>1, AskedIs
  <1>3. /\ new \in Seq(Message) /\ Len(ms) \in Nat
        /\ Len(new) = Len(ms) + 1 /\ new[Len(ms) + 1] = m
        /\ \A i \in 1 .. Len(ms) : new[i] = ms[i]
    BY AppendProperties, LenProperties
  <1>4. \A i \in 1 .. a - 1 : AnsweredAt(new, i)
    <2>1. ASSUME NEW i \in 1 .. a - 1 PROVE AnsweredAt(new, i)
      <3>1. i \in 1 .. Len(ms) /\ AnsweredAt(ms, i) BY <1>1, <1>3 DEF PartlyAnsweredFrom
      <3> QED BY <3>1, AppendKeeps
    <2> QED BY <2>1
  <1> HIDE DEF new
  <1>5. new[a] = ms[a] BY <1>3
  <1>6. \A j \in a + 1 .. Len(new) :
            new[j].role = "tool" /\ new[j].answers = new[a].id /\ new[j].calls = 0
    <2>1. ASSUME NEW j \in a + 1 .. Len(new)
          PROVE  new[j].role = "tool" /\ new[j].answers = new[a].id /\ new[j].calls = 0
      <3>1. CASE j = Len(ms) + 1 BY <1>2, <1>3, <1>5, <3>1
      <3>2. CASE j # Len(ms) + 1
        <4>1. j \in a + 1 .. Len(ms) /\ j \in 1 .. Len(ms) BY <1>3, <3>2
        <4>2. ms[j].role = "tool" /\ ms[j].answers = ms[a].id /\ ms[j].calls = 0
          BY <1>1, <4>1 DEF PartlyAnsweredFrom
        <4>3. new[j] = ms[j] BY <1>3, <4>1
        <4> QED BY <1>5, <4>2, <4>3
      <3> QED BY <3>1, <3>2
    <2> QED BY <2>1
  <1>7. new[a].role = "assistant" /\ new[a].calls > 0
    BY <1>1, <1>5 DEF PartlyAnsweredFrom
  <1>8. a + new[a].calls = Len(new) + (pending - 1)
    <2>1. a + ms[a].calls = Len(ms) + pending BY <1>1 DEF PartlyAnsweredFrom
    <2>2. a + ms[a].calls = Len(new) + (pending - 1) BY <1>3, <2>1
    <2> QED BY <1>5, <2>2
  <1>9. PartlyAnsweredFrom(new, pending - 1, a)
    BY <1>4, <1>6, <1>7, <1>8 DEF PartlyAnsweredFrom
  <1>10. a \in 1 .. Len(new) BY <1>3
  <1> QED BY <1>3, <1>9, <1>10 DEF PartlyAnswered, new

\* With none left every call is answered.
LEMMA AllToolsAnswered ==
  ASSUME NEW ms \in Seq(Message), PartlyAnswered(ms, 0)
  PROVE  CallsAnswered(ms)
  <1>1. PICK a \in 1 .. Len(ms) : PartlyAnsweredFrom(ms, 0, a)
    BY DEF PartlyAnswered
  <1>2. Len(ms) \in Nat /\ \A i \in 1 .. Len(ms) : ms[i].calls \in Nat
    BY MessagesOf
  <1>3. a + ms[a].calls = Len(ms)
    <2>1. a + ms[a].calls = Len(ms) + 0 BY <1>1 DEF PartlyAnsweredFrom
    <2> QED BY <1>2, <2>1
  <1>4. AnsweredAt(ms, a)
    <2>1. HasRole(ms[a]) /\ ms[a].role # "tool"
      BY <1>1 DEF PartlyAnsweredFrom, HasRole
    <2>2. \A j \in a + 1 .. a + ms[a].calls :
              ms[j].role = "tool" /\ ms[j].answers = ms[a].id
      BY <1>1, <1>3 DEF PartlyAnsweredFrom
    <2>3. a + ms[a].calls <= Len(ms) BY <1>2, <1>3
    <2> QED BY <2>1, <2>2, <2>3 DEF AnsweredAt
  <1>5. ASSUME NEW j \in a + 1 .. Len(ms) PROVE AnsweredAt(ms, j)
    <2> DEFINE m == ms[j]
    <2>1. m.role = "tool" /\ m.calls = 0 BY <1>1 DEF PartlyAnsweredFrom
    <2>2. HasRole(m) BY <2>1 DEF HasRole
    <2> HIDE DEF m
    <2>3. j + m.calls <= Len(ms) /\ j + 1 .. j + m.calls = {} BY <1>2, <2>1
    <2>4. ms[a].role = "assistant" BY <1>1 DEF PartlyAnsweredFrom
    <2>5. a \in 1 .. j - 1 BY <1>2
    <2>6. j <= a + ms[a].calls BY <1>2, <1>3
    <2> QED BY <2>2, <2>3, <2>4, <2>5, <2>6 DEF AnsweredAt, m
  <1>6. \A i \in 1 .. Len(ms) : AnsweredAt(ms, i)
    <2>1. \A i \in 1 .. Len(ms) : i \in 1 .. a - 1 \/ i = a \/ i \in a + 1 .. Len(ms)
      BY <1>2
    <2> QED BY <1>1, <1>4, <1>5, <2>1 DEF PartlyAnsweredFrom
  <1> QED BY <1>6, CallsAnsweredAt

-----------------------------------------------------------------------------
(* The shape of the state: TypeOK, that a turn has a conversation, and that *)
(* tools run for a message that asked for them.                             *)

Shape ==
    /\ convs \in [Keys -> Conversation \cup {NotLoaded}]
    /\ disk \in [Paths -> Conversation \cup {NotLoaded}]
    /\ pc \in PCs
    /\ turn \in Turn
    /\ nextMsg \in Nat \ {0}
    /\ pc # "idle" => Conv \in Conversation
    /\ pc = "tools" => /\ turn.pending > 0
                       /\ \E i \in DOMAIN Conv.messages : Conv.messages[i].calls > 0

\* The turn between turns is a turn, and no heartbeat's.
LEMMA IdleType == Idle \in Turn /\ ~Idle.heartbeat
  <1>1. Keys # {} BY AgentTurnAssumption DEF AgentTurnAssumption
  <1>2. (CHOOSE k \in Keys : TRUE) \in Keys BY <1>1
  <1> QED BY <1>2 DEF Idle, Turn

\* The roles, by name.
LEMMA RolesAre == {"system", "user", "assistant", "tool", ""} \subseteq Roles
  BY Zenon DEF Roles

\* What the loop appends is a message that calls no tool and answers none.
LEMMA MsgType ==
  ASSUME NEW id \in Nat, NEW role \in {"system", "user", "assistant"}
  PROVE  /\ PlainMessage(Msg(id, role))
         /\ Msg(id, role).role = role /\ Msg(id, role).id = id
  <1>1. role \in Roles BY RolesAre
  <1>2. Msg(id, role) \in Message BY <1>1 DEF Message, Msg
  <1>3. Msg(id, role).role = role /\ Msg(id, role).calls = 0 /\ Msg(id, role).id = id
    BY DEF Msg
  <1>4. HasRole(Msg(id, role)) /\ role # "tool" BY <1>3 DEF HasRole
  <1> QED BY <1>2, <1>3, <1>4 DEF PlainMessage

\* So is the system prompt.
LEMMA SystemPromptPlain == PlainMessage(SystemPrompt) /\ PlainFirst(<<SystemPrompt>>)
  <1>1. PlainMessage(SystemPrompt) BY MsgType DEF SystemPrompt
  <1> QED BY <1>1 DEF PlainMessage, PlainFirst

\* A zero-valued Go message has the fields of a message.
LEMMA ZeroMessageType == ZeroMessage \in Message
  <1>1. "" \in Roles BY RolesAre
  <1> QED BY <1>1, Zenon DEF Message, ZeroMessage

\* A fresh conversation is a history without messages.
LEMMA EmptyConversationType ==
  EmptyConversation \in Conversation /\ EmptyConversation.messages = <<>>
  <1>1. <<>> \in Seq(Message) BY EmptySeq
  <1> QED BY <1>1 DEF EmptyConversation, Conversation, Usage, NoUsage

\* What a history consists of.
LEMMA HistoryFields ==
  ASSUME NEW conv \in Conversation
  PROVE  /\ conv.messages \in Seq(Message) /\ conv.summary \in SUBSET Nat
         /\ Len(conv.messages) \in Nat
  <1>1. conv.messages \in Seq(Message) /\ conv.summary \in SUBSET Nat
    BY DEF Conversation
  <1> QED BY <1>1, LenProperties

\* A history stays one when its messages are replaced.
LEMMA WithMessagesType ==
  ASSUME NEW conv \in Conversation, NEW ms \in Seq(Message)
  PROVE  /\ [conv EXCEPT !.messages = ms] \in Conversation
         /\ [conv EXCEPT !.messages = ms].messages = ms
  BY DEF Conversation

\* A measured usage leaves the messages alone.
LEMMA MeasuredType ==
  ASSUME NEW conv \in Conversation, NEW measured \in Measured(conv)
  PROVE  measured \in Conversation /\ measured.messages = conv.messages
  <1> DEFINE usage == [total |-> TokensFrom(conv.messages, 1) + 1, prompt |-> conv.messages]
  <1>1. conv.messages \in Seq(Message) /\ Len(conv.messages) \in Nat BY HistoryFields
  <1>2. usage \in Usage
    <2>1. TokensFrom(conv.messages, 1) \in Nat BY <1>1, TokensAreNat
    <2> QED BY <1>1, <2>1 DEF Usage
  <1>3. measured = conv
          \/ measured = [conv EXCEPT !.usage = usage, !.usageIndex = Len(conv.messages)]
    BY DEF Measured
  <1> HIDE DEF usage
  <1> QED BY <1>1, <1>2, <1>3 DEF Conversation

\* maybeCompact leaves a history.
LEMMA CompactedType ==
  ASSUME NEW conv \in Conversation, Compactable(conv.messages)
  PROVE  /\ Compacted(conv) \in Conversation
         /\ Compacted(conv).messages = Compact(conv.messages, conv.summary)
  <1> DEFINE kept == Compact(conv.messages, conv.summary)
  <1>1. conv.messages \in Seq(Message) /\ conv.summary \in SUBSET Nat BY HistoryFields
  <1>2. kept \in Seq(Message) BY <1>1, CompactShape
  <1>3. Summarize(conv.messages, conv.summary) \in SUBSET Nat BY <1>1, SummarizeType
  <1> HIDE DEF kept
  <1>4. NoUsage \in Usage BY EmptySeq DEF Usage, NoUsage
  <1> QED BY <1>2, <1>3, <1>4 DEF Compacted, Conversation, kept

\* process()'s prune leaves messages, zero values included.
LEMMA PrunedType ==
  ASSUME NEW ms \in Seq(Message), turn \in Turn
  PROVE  Pruned(ms) \in Seq(Message)
  <1>1. turn.preTurnLen \in Nat BY DEF Turn
  <1>2. Len(ms) \in Nat /\ \A i \in 1 .. Len(ms) : ms[i] \in Message BY MessagesOf
  <1>3. CASE turn.preTurnLen <= Len(ms)
    <2>1. \A i \in 1 .. turn.preTurnLen : ms[i] \in Message BY <1>1, <1>2, <1>3
    <2>2. SubSeq(ms, 1, turn.preTurnLen) \in Seq(Message)
      BY <1>1, <2>1, SubSeqProperties
    <2> QED BY <1>3, <2>2 DEF Pruned
  <1>4. CASE ~(turn.preTurnLen <= Len(ms))
    <2> DEFINE n == turn.preTurnLen - Len(ms)
               zeros == [i \in 1 .. n |-> ZeroMessage]
    <2>1. n \in Nat BY <1>1, <1>2, <1>4
    <2>2. zeros \in [1 .. n -> Message] BY ZeroMessageType
    <2> HIDE DEF n
    <2>3. zeros \in Seq(Message) BY <2>1, <2>2, SeqDef
    <2>4. ms \o zeros \in Seq(Message) BY <2>3, ConcatProperties
    <2> QED BY <1>4, <2>4 DEF Pruned, n
  <1> QED BY <1>3, <1>4

\* A step that sets the conversation of the turn, or leaves it alone.
LEMMA ConvUpdate ==
  ASSUME Shape, NEW k \in Keys, NEW conv \in Conversation,
         convs' = [convs EXCEPT ![k] = conv]
  PROVE  convs' \in [Keys -> Conversation \cup {NotLoaded}] /\ convs'[k] = conv
  BY DEF Shape

\* Concatenating one or two messages is appending them.
LEMMA TwoAppends ==
  ASSUME NEW ms \in Seq(Message), NEW m \in Message, NEW n \in Message
  PROVE  /\ ms \o <<m>> = Append(ms, m)
         /\ ms \o <<m, n>> = Append(Append(ms, m), n)
         /\ Append(ms, m) \in Seq(Message)
         /\ Append(Append(ms, m), n) \in Seq(Message)
  <1>1. Append(ms, m) \in Seq(Message) /\ ms \o <<m>> = Append(ms, m)
    BY AppendProperties, AppendIsConcat
  <1>2. Append(Append(ms, m), n) \in Seq(Message)
    BY <1>1, AppendProperties
  <1>3. Append(Append(ms, m), n) = (ms \o <<m>>) \o <<n>>
    BY <1>1, AppendIsConcat
  <1>4. <<m>> \in Seq(Message) /\ <<n>> \in Seq(Message) /\ <<m>> \o <<n>> = <<m, n>>
    <2> DEFINE first == <<m>>
               second == <<n>>
               both == <<m, n>>
    <2>1. /\ first \in Seq(Message) /\ Len(first) = 1 /\ first[1] = m
          /\ second \in Seq(Message) /\ Len(second) = 1 /\ second[1] = n
          /\ both \in Seq(Message) /\ Len(both) = 2 /\ both[1] = m /\ both[2] = n
      OBVIOUS
    <2> HIDE DEF first, second, both
    <2>2. /\ first \o second \in Seq(Message)
          /\ Len(first \o second) = Len(first) + Len(second)
          /\ \A i \in 1 .. Len(first) + Len(second) :
                 (first \o second)[i] =
                     IF i <= Len(first) THEN first[i] ELSE second[i - Len(first)]
      BY <2>1, ConcatProperties
    <2>3. Len(first \o second) = Len(both) BY <2>1, <2>2
    <2>4. \A i \in 1 .. Len(first \o second) : (first \o second)[i] = both[i]
      BY <2>1, <2>2
    <2>5. first \o second = both BY <2>1, <2>2, <2>3, <2>4, SeqEqual
    <2> QED BY <2>1, <2>5 DEF first, second, both
  <1>5. (ms \o <<m>>) \o <<n>> = ms \o <<m, n>>
    <2> DEFINE first == <<m>>
               second == <<n>>
    <2>1. first \in Seq(Message) /\ second \in Seq(Message) BY <1>4
    <2>2. first \o second = <<m, n>> BY <1>4
    <2> HIDE DEF first, second
    <2>3. (ms \o first) \o second = ms \o (first \o second)
      BY <2>1, ConcatAssociative
    <2>4. (ms \o first) \o second = ms \o <<m, n>> BY <2>2, <2>3
    <2> QED BY <2>4 DEF first, second
  <1> QED BY <1>1, <1>2, <1>3, <1>5

\* HandleTurn's preamble appends the user's message.
LEMMA OpenedType ==
  ASSUME NEW conv \in Conversation, nextMsg \in Nat \ {0}, NEW before,
         before = IF conv.messages = <<>> THEN <<SystemPrompt>> ELSE conv.messages
  PROVE  /\ before \in Seq(Message)
         /\ Opened(conv) \in Conversation
         /\ Opened(conv).messages = Append(before, Msg(nextMsg, "user"))
  <1> DEFINE user == Msg(nextMsg, "user")
  <1>1. SystemPrompt \in Message /\ user \in Message
    BY SystemPromptPlain, MsgType DEF PlainMessage
  <1>2. before \in Seq(Message)
    <2>1. <<SystemPrompt>> \in Seq(Message) BY <1>1
    <2> QED BY <2>1, HistoryFields
  <1>3. Opened(conv) = [conv EXCEPT !.messages = before \o <<user>>]
    BY DEF Opened
  <1> HIDE DEF user
  <1>4. before \o <<user>> = Append(before, user) /\ Append(before, user) \in Seq(Message)
    BY <1>1, <1>2, AppendProperties, AppendIsConcat
  <1>5. /\ [conv EXCEPT !.messages = Append(before, user)] \in Conversation
        /\ [conv EXCEPT !.messages = Append(before, user)].messages = Append(before, user)
    BY <1>4, WithMessagesType
  <1> QED BY <1>2, <1>3, <1>4, <1>5 DEF user

\* A turn starts in a conversation that has the shape of one.
LEMMA StartTurnShape ==
  ASSUME Shape, NEW k \in Keys, NEW heartbeat \in BOOLEAN, NEW conv \in Conversation,
         disk' \in [Paths -> Conversation \cup {NotLoaded}],
         StartTurn(k, heartbeat, conv)
  PROVE  /\ Shape'
         /\ turn'.key = k /\ turn'.heartbeat = heartbeat
         /\ turn'.empties = 0 /\ turn'.hadToolCalls = FALSE
  <1>1. nextMsg \in Nat \ {0} BY DEF Shape
  <1>2. Opened(conv) \in Conversation BY <1>1, OpenedType
  <1>3. convs' = [convs EXCEPT ![k] = Opened(conv)] BY DEF StartTurn
  <1>4. convs' \in [Keys -> Conversation \cup {NotLoaded}] /\ convs'[k] = Opened(conv)
    BY <1>2, <1>3, ConvUpdate
  <1>5. /\ turn' \in Turn /\ turn'.key = k /\ turn'.heartbeat = heartbeat
        /\ turn'.empties = 0 /\ turn'.hadToolCalls = FALSE
    <2>1. PreTurnLen(conv) \in Nat BY HistoryFields DEF PreTurnLen
    <2>2. Known(conv.messages) \in SUBSET Nat BY HistoryFields, KnownType
    <2>3. turn' = [Idle EXCEPT !.key = k, !.heartbeat = heartbeat,
                               !.preTurnLen = PreTurnLen(conv), !.spare = TRUE,
                               !.older = Known(conv.messages)]
      BY DEF StartTurn
    <2>4. Idle \in Turn /\ Idle.empties = 0 /\ Idle.hadToolCalls = FALSE
      BY IdleType DEF Idle
    <2> QED BY <2>1, <2>2, <2>3, <2>4 DEF Turn
  <1>6. pc' = "compact" /\ nextMsg' = nextMsg + 1 BY DEF StartTurn
  <1>7. nextMsg' \in Nat \ {0} BY <1>1, <1>6
  <1>8. pc' \in PCs /\ pc' # "tools" BY <1>6 DEF PCs
  <1>9. Conv' \in Conversation BY <1>2, <1>4, <1>5 DEF Conv
  <1> QED BY <1>4, <1>5, <1>7, <1>8, <1>9 DEF Shape

\* A conversation's file is one of the files.
LEMMA PathOf == ASSUME NEW k \in Keys PROVE HistoryPath(k) \in Paths
  BY DEF Paths

\* Store.Get returns a history.
LEMMA GetType ==
  ASSUME Shape, NEW k \in Keys, NEW conv \in Get(k)
  PROVE  conv \in Conversation
  <1>1. EmptyConversation \in Conversation BY EmptyConversationType
  <1>2. disk[HistoryPath(k)] \in Conversation \cup {NotLoaded} BY PathOf DEF Shape
  <1>3. convs[k] \in Conversation \cup {NotLoaded} BY DEF Shape
  <1> QED BY <1>1, <1>2, <1>3 DEF Get, LoadHistory

\* Removing a file, or failing to, leaves histories on disk.
LEMMA RemoveFileType ==
  ASSUME Shape, NEW k \in Keys, RemoveFile(k)
  PROVE  disk' \in [Paths -> Conversation \cup {NotLoaded}]
  BY DEF RemoveFile, Shape

\* Finish, whether or not it injects a message.
LEMMA FinishShape ==
  ASSUME Shape, pc = "chat", NEW conv \in Conversation, NEW pruned \in BOOLEAN,
         Finish(conv, pruned)
  PROVE  /\ Shape' /\ disk' = disk /\ turn'.key = turn.key
         /\ turn'.heartbeat = turn.heartbeat
         /\ \/ /\ turn'.empties = turn.empties
               /\ turn'.hadToolCalls = turn.hadToolCalls
               /\ turn'.emptyRetries = turn.emptyRetries
            \/ turn'.empties = 0 /\ turn'.hadToolCalls = FALSE
         /\ \/ Conv'.messages = Append(conv.messages, Msg(nextMsg, "assistant"))
            \/ Conv'.messages = Append(Append(conv.messages, Msg(nextMsg, "assistant")),
                                       Msg(nextMsg + 1, "user"))
         /\ pc' \in {"save", "compact"}
         /\ convs' = [convs EXCEPT ![turn.key] = Conv']
  <1> DEFINE one == Append(conv.messages, Msg(nextMsg, "assistant"))
             two == Append(one, Msg(nextMsg + 1, "user"))
             said == [conv EXCEPT !.messages = one]
             asked == [said EXCEPT !.messages = two]
  <1>1. nextMsg \in Nat \ {0} /\ turn \in Turn /\ turn.key \in Keys
    BY DEF Shape, Turn
  <1>2. Msg(nextMsg, "assistant") \in Message /\ Msg(nextMsg + 1, "user") \in Message
    BY <1>1, MsgType DEF PlainMessage
  <1>3. one \in Seq(Message) /\ two \in Seq(Message)
    BY <1>2, HistoryFields, TwoAppends
  <1> HIDE DEF one, two
  <1>4. said \in Conversation /\ said.messages = one BY <1>3, WithMessagesType
  <1> HIDE DEF said
  <1>5. asked \in Conversation /\ asked.messages = two BY <1>3, <1>4, WithMessagesType
  <1>6. disk' = disk BY DEF Finish
  <1>7. CASE /\ convs' = [convs EXCEPT ![turn.key] = said]
             /\ turn' = [turn EXCEPT !.pruned = @ \/ pruned]
             /\ nextMsg' = nextMsg + 1
             /\ pc' = "save"
    <2>1. turn' \in Turn /\ turn'.key = turn.key /\ turn'.heartbeat = turn.heartbeat
          /\ turn'.empties = turn.empties /\ turn'.hadToolCalls = turn.hadToolCalls
          /\ turn'.emptyRetries = turn.emptyRetries
      BY <1>1, <1>7 DEF Turn
    <2>2. convs' \in [Keys -> Conversation \cup {NotLoaded}] /\ convs'[turn.key] = said
      BY <1>1, <1>4, <1>7, ConvUpdate
    <2>3. Conv' = said BY <2>1, <2>2 DEF Conv
    <2>4. nextMsg' \in Nat \ {0} /\ pc' \in PCs /\ pc' # "tools"
      BY <1>1, <1>7 DEF PCs
    <2>5. disk' \in [Paths -> Conversation \cup {NotLoaded}] BY <1>6 DEF Shape
    <2>6. Shape' BY <1>4, <2>1, <2>2, <2>3, <2>4, <2>5 DEF Shape
    <2> QED BY <1>4, <1>6, <1>7, <2>1, <2>3, <2>6 DEF one
  <1>8. CASE /\ convs' = [convs EXCEPT ![turn.key] = asked]
             /\ turn' = [turn EXCEPT !.pruned = @ \/ pruned, !.hadToolCalls = FALSE,
                                     !.emptyRetries = 0, !.injections = @ + 1,
                                     !.spare = TRUE, !.empties = 0]
             /\ nextMsg' = nextMsg + 2
             /\ pc' = "compact"
    <2>1. turn' \in Turn /\ turn'.key = turn.key /\ turn'.heartbeat = turn.heartbeat
          /\ turn'.empties = 0 /\ turn'.hadToolCalls = FALSE
      <3>1. turn' = [turn EXCEPT !.pruned = turn.pruned \/ pruned, !.hadToolCalls = FALSE,
                                 !.emptyRetries = 0, !.injections = turn.injections + 1,
                                 !.spare = TRUE, !.empties = 0]
        BY <1>8
      <3>2. (turn.pruned \/ pruned) \in BOOLEAN /\ turn.injections + 1 \in Nat
        BY <1>1 DEF Turn
      <3> QED BY <1>1, <3>1, <3>2, Zenon DEF Turn
    <2>2. convs' \in [Keys -> Conversation \cup {NotLoaded}] /\ convs'[turn.key] = asked
      <3> HIDE DEF asked
      <3> QED BY <1>1, <1>5, <1>8, ConvUpdate
    <2>3. Conv' = asked BY <2>1, <2>2 DEF Conv
    <2>4. nextMsg' \in Nat \ {0} /\ pc' \in PCs /\ pc' # "tools"
      BY <1>1, <1>8 DEF PCs
    <2>5. disk' \in [Paths -> Conversation \cup {NotLoaded}] BY <1>6 DEF Shape
    <2>6. Shape' BY <1>5, <2>1, <2>2, <2>3, <2>4, <2>5 DEF Shape
    <2> QED BY <1>5, <1>6, <1>8, <2>1, <2>3, <2>6 DEF one, two
  <1>9. said.messages = one /\ asked = [said EXCEPT !.messages = Append(@, Msg(nextMsg + 1, "user"))]
    BY <1>4 DEF two
  <1> QED BY <1>7, <1>8, <1>9 DEF Finish, said, one

\* A conversation of the turn, and a turn, that the step may leave.
LEMMA ShapeOfStep ==
  ASSUME Shape, disk' = disk, nextMsg' \in Nat \ {0}, pc' \in PCs, turn' \in Turn,
         turn'.key = turn.key, NEW conv \in Conversation,
         convs' = [convs EXCEPT ![turn.key] = conv],
         pc' = "tools" => /\ turn'.pending > 0
                          /\ \E i \in DOMAIN conv.messages : conv.messages[i].calls > 0
  PROVE  Shape' /\ Conv' = conv
  <1>1. turn.key \in Keys BY DEF Shape, Turn
  <1>2. convs' \in [Keys -> Conversation \cup {NotLoaded}] /\ convs'[turn.key] = conv
    BY <1>1, ConvUpdate
  <1>3. Conv' = conv BY <1>2 DEF Conv
  <1> QED BY <1>2, <1>3 DEF Shape

\* The initial state has the shape.
LEMMA InitShape == Init => Shape
  <1> SUFFICES ASSUME Init PROVE Shape OBVIOUS
  <1>1. turn \in Turn BY IdleType DEF Init
  <1>2. pc \in PCs /\ pc # "tools" /\ pc = "idle" BY DEF Init, PCs
  <1> QED BY <1>1, <1>2 DEF Init, Shape

\* An assistant message with tool calls: what the step does.
LEMMA ChatCallsToolsShape ==
  ASSUME Shape, NEW n \in 1 .. MaxCalls, ChatCallsTools(n)
  PROVE  /\ Shape'
         /\ pc' = "tools" /\ disk' = disk /\ convs' = [convs EXCEPT ![turn.key] = Conv']
         /\ turn'.key = turn.key /\ turn'.heartbeat = turn.heartbeat
         /\ turn'.pending = n /\ turn'.empties = 0 /\ turn'.emptyRetries = 0
         /\ Conv'.messages = Append(Conv.messages,
                                [Msg(nextMsg, "assistant") EXCEPT !.calls = n])
  <1> DEFINE m == [Msg(nextMsg, "assistant") EXCEPT !.calls = n]
             new == Append(Conv.messages, m)
  <1>1. /\ nextMsg \in Nat \ {0} /\ turn \in Turn /\ Conv \in Conversation /\ n \in Nat \ {0}
        /\ pc' = "tools" /\ disk' = disk /\ nextMsg' = nextMsg + 1
    BY AgentTurnAssumption DEF Shape, ChatCallsTools, AgentTurnAssumption
  <1>2. m \in Message /\ m.calls = n
    <2>1. Msg(nextMsg, "assistant") \in Message BY <1>1, MsgType DEF PlainMessage
    <2> QED BY <1>1, <2>1 DEF Message
  <1>3. PICK conv \in Measured(Conv) :
            convs' = [convs EXCEPT ![turn.key] = [conv EXCEPT !.messages = Append(@, m)]]
    BY DEF ChatCallsTools
  <1> HIDE DEF m
  <1>4. conv \in Conversation /\ conv.messages = Conv.messages BY <1>1, MeasuredType
  <1>5. Conv.messages \in Seq(Message) /\ Len(Conv.messages) \in Nat
    BY <1>1, HistoryFields
  <1>6. /\ new \in Seq(Message) /\ DOMAIN new = 1 .. Len(Conv.messages) + 1
        /\ new[Len(Conv.messages) + 1] = m
    <2>1. new \in Seq(Message) /\ Len(new) = Len(Conv.messages) + 1
          /\ new[Len(Conv.messages) + 1] = m
      BY <1>2, <1>5, AppendProperties
    <2>2. DOMAIN new = 1 .. Len(new) BY <2>1, LenProperties
    <2> QED BY <2>1, <2>2
  <1> HIDE DEF new
  <1>7. /\ [conv EXCEPT !.messages = new] \in Conversation
        /\ [conv EXCEPT !.messages = new].messages = new
    BY <1>4, <1>6, WithMessagesType
  <1>8. convs' = [convs EXCEPT ![turn.key] = [conv EXCEPT !.messages = new]]
    BY <1>3, <1>4 DEF new
  <1>9. \E i \in DOMAIN new : new[i].calls > 0
    <2>1. Len(Conv.messages) + 1 \in DOMAIN new BY <1>5, <1>6
    <2> QED BY <1>1, <1>2, <1>6, <2>1
  <1>10. /\ turn' \in Turn /\ turn'.key = turn.key /\ turn'.heartbeat = turn.heartbeat
         /\ turn'.pending = n /\ turn'.empties = 0 /\ turn'.emptyRetries = 0
    <2>1. turn' = [turn EXCEPT !.hadToolCalls = TRUE, !.emptyRetries = 0,
                               !.chats = turn.chats + 1, !.pending = n, !.spare = TRUE,
                               !.empties = 0]
      BY DEF ChatCallsTools
    <2>2. turn.chats + 1 \in Nat /\ n \in Nat BY <1>1 DEF Turn
    <2> QED BY <1>1, <2>1, <2>2, Zenon DEF Turn
  <1>11. nextMsg' \in Nat \ {0} /\ pc' \in PCs BY <1>1 DEF PCs
  <1> DEFINE next == [conv EXCEPT !.messages = new]
  <1> HIDE DEF next
  <1>12. next \in Conversation /\ next.messages = new /\ convs' = [convs EXCEPT ![turn.key] = next]
    BY <1>7, <1>8 DEF next
  <1>13. turn'.pending > 0 BY <1>1, <1>10
  <1>14. Shape' /\ Conv' = next
    BY <1>1, <1>9, <1>10, <1>11, <1>12, <1>13, ShapeOfStep
  <1> QED BY <1>1, <1>10, <1>12, <1>14 DEF new, m

\* One tool message: what the step does.
LEMMA RunToolShape ==
  ASSUME Shape, NEW size \in ToolTokens, RunTool(size),
         NEW m, m = [id |-> nextMsg, role |-> "tool", calls |-> 0,
                     answers |-> Conv.messages[Max({i \in DOMAIN Conv.messages :
                                     Conv.messages[i].calls > 0})].id,
                     covers |-> {}, tokens |-> size]
  PROVE  /\ Shape' /\ m \in Message
         /\ pc = "tools" /\ pc' = (IF turn.pending = 1 THEN "compact" ELSE "tools")
         /\ disk' = disk /\ convs' = [convs EXCEPT ![turn.key] = Conv']
         /\ turn.pending \in Nat \ {0} /\ turn'.pending = turn.pending - 1
         /\ turn'.key = turn.key /\ turn'.heartbeat = turn.heartbeat
         /\ turn'.empties = turn.empties /\ turn'.emptyRetries = turn.emptyRetries
         /\ turn'.hadToolCalls = turn.hadToolCalls
         /\ Conv'.messages = Append(Conv.messages, m)
  <1> DEFINE ms == Conv.messages
             T == {i \in DOMAIN ms : ms[i].calls > 0}
             new == Append(ms, m)
             next == [Conv EXCEPT !.messages = new]
  <1>1. /\ nextMsg \in Nat \ {0} /\ turn \in Turn /\ pc = "tools" /\ turn.pending > 0
        /\ convs \in [Keys -> Conversation \cup {NotLoaded}]
        /\ pc' = (IF turn.pending = 1 THEN "compact" ELSE "tools")
        /\ disk' = disk /\ nextMsg' = nextMsg + 1
        /\ turn' = [turn EXCEPT !.pending = @ - 1]
    BY DEF Shape, RunTool
  <1>2. Conv \in Conversation /\ T # {} BY <1>1 DEF Shape
  <1>3. ms \in Seq(Message) BY <1>2, HistoryFields
  <1> HIDE DEF ms
  <1>4. /\ Len(ms) \in Nat /\ DOMAIN ms = 1 .. Len(ms)
        /\ \A i \in 1 .. Len(ms) : ms[i] \in Message
    BY <1>3, MessagesOf
  <1>5. Max(T) \in 1 .. Len(ms)
    <2>1. T \in SUBSET (0 .. Len(ms)) /\ T \subseteq 1 .. Len(ms) BY <1>4
    <2> HIDE DEF T
    <2>2. Max(T) \in T BY <1>2, <1>4, <2>1, Greatest
    <2> QED BY <2>1, <2>2
  <1>6. ms[Max(T)].id \in Nat
    <2>1. \A x \in Message : x.id \in Nat BY DEF Message
    <2> HIDE DEF T
    <2> QED BY <1>4, <1>5, <2>1
  <1>7. m \in Message
    <2> DEFINE answers == ms[Max(T)].id
    <2>1. m = [id |-> nextMsg, role |-> "tool", calls |-> 0, answers |-> answers,
               covers |-> {}, tokens |-> size]
      BY DEF ms
    <2>2. answers \in Nat BY <1>6
    <2> HIDE DEF answers
    <2>3. "tool" \in Roles BY RolesAre
    <2>4. size \in Nat BY AgentTurnAssumption DEF AgentTurnAssumption
    <2> QED BY <1>1, <2>1, <2>2, <2>3, <2>4 DEF Message
  <1>8. /\ new \in Seq(Message) /\ Len(new) = Len(ms) + 1
        /\ \A i \in 1 .. Len(ms) : new[i] = ms[i]
    BY <1>3, <1>7, AppendProperties
  <1> HIDE DEF new
  <1>9. next \in Conversation /\ next.messages = new BY <1>2, <1>8, WithMessagesType
  <1>10. convs' = [convs EXCEPT ![turn.key] = next]
    <2>1. convs' = [convs EXCEPT ![turn.key].messages = new]
      BY DEF RunTool, WithMessages, ms, new
    <2>2. turn.key \in Keys BY <1>1 DEF Turn
    <2> QED BY <1>1, <2>1, <2>2 DEF Conv
  <1>11. turn.pending \in Nat \ {0} BY <1>1 DEF Turn
  <1>12. /\ turn' \in Turn /\ turn'.pending = turn.pending - 1
         /\ turn'.key = turn.key /\ turn'.heartbeat = turn.heartbeat
         /\ turn'.empties = turn.empties /\ turn'.emptyRetries = turn.emptyRetries
         /\ turn'.hadToolCalls = turn.hadToolCalls
    BY <1>1, <1>11 DEF Turn
  <1>13. pc' = "tools" => turn'.pending > 0 BY <1>1, <1>11, <1>12
  <1>14. \E i \in DOMAIN new : new[i].calls > 0
    <2>1. PICK i \in DOMAIN ms : ms[i].calls > 0 BY <1>2
    <2>2. DOMAIN new = 1 .. Len(new) BY <1>8, LenProperties
    <2>3. i \in DOMAIN new /\ new[i] = ms[i] BY <1>4, <1>8, <2>2
    <2> QED BY <2>1, <2>3
  <1>15. nextMsg' \in Nat \ {0} /\ pc' \in PCs BY <1>1 DEF PCs
  <1> HIDE DEF next
  <1>16. Shape' /\ Conv' = next
    BY <1>1, <1>9, <1>10, <1>12, <1>13, <1>14, <1>15, ShapeOfStep
  <1> QED BY <1>1, <1>7, <1>9, <1>10, <1>11, <1>12, <1>16 DEF new, ms

\* A compaction in the loop: what the step does.
LEMMA CompactHistoryShape ==
  ASSUME Shape, CompactHistory
  PROVE  /\ Shape' /\ Conv \in Conversation /\ Compactable(Conv.messages)
         /\ pc = "compact" /\ pc' = "chat"
         /\ disk' = disk /\ convs' = [convs EXCEPT ![turn.key] = Conv']
         /\ turn'.key = turn.key /\ turn'.heartbeat = turn.heartbeat
         /\ turn'.empties = turn.empties /\ turn'.hadToolCalls = FALSE
         /\ Conv'.messages = Compact(Conv.messages, Conv.summary)
  <1> DEFINE next == Compacted(Conv)
  <1>1. /\ nextMsg \in Nat \ {0} /\ turn \in Turn /\ pc = "compact"
        /\ Compactable(Conv.messages)
        /\ pc' = "chat" /\ disk' = disk /\ nextMsg' = nextMsg
        /\ turn' = [turn EXCEPT !.hadToolCalls = FALSE, !.emptyRetries = 0, !.spare = FALSE]
    BY DEF Shape, CompactHistory, ResetAfterCompaction
  <1>2. Conv \in Conversation BY <1>1 DEF Shape
  <1>3. next \in Conversation /\ next.messages = Compact(Conv.messages, Conv.summary)
    BY <1>1, <1>2, CompactedType
  <1>4. convs' = [convs EXCEPT ![turn.key] = next]
    BY DEF CompactHistory, Conv
  <1>5. /\ turn' \in Turn /\ turn'.key = turn.key /\ turn'.heartbeat = turn.heartbeat
        /\ turn'.empties = turn.empties /\ turn'.hadToolCalls = FALSE
    BY <1>1 DEF Turn
  <1>6. nextMsg' \in Nat \ {0} /\ pc' \in PCs /\ pc' # "tools" BY <1>1 DEF PCs
  <1> HIDE DEF next
  <1>7. Shape' /\ Conv' = next BY <1>1, <1>3, <1>4, <1>5, <1>6, ShapeOfStep
  <1> QED BY <1>1, <1>2, <1>3, <1>4, <1>5, <1>7

\* The recovery prompt: what the step does.
LEMMA ChatEmptyRetryShape ==
  ASSUME Shape, ChatEmptyRetry
  PROVE  /\ Shape' /\ pc = "chat" /\ pc' = "compact"
         /\ disk' = disk /\ convs' = [convs EXCEPT ![turn.key] = Conv']
         /\ turn.hadToolCalls /\ turn.emptyRetries < MaxEmptyRetries
         /\ turn'.key = turn.key /\ turn'.heartbeat = turn.heartbeat
         /\ turn'.empties = turn.empties + 1
         /\ turn'.emptyRetries = turn.emptyRetries + 1
         /\ Conv'.messages = Append(Append(Conv.messages, Msg(nextMsg, "assistant")),
                                    Msg(nextMsg + 1, "user"))
  <1> DEFINE new == Append(Append(Conv.messages, Msg(nextMsg, "assistant")),
                           Msg(nextMsg + 1, "user"))
  <1>1. /\ nextMsg \in Nat \ {0} /\ turn \in Turn /\ pc = "chat"
        /\ turn.hadToolCalls /\ turn.emptyRetries < MaxEmptyRetries
        /\ pc' = "compact" /\ disk' = disk /\ nextMsg' = nextMsg + 2
        /\ turn' = [turn EXCEPT !.emptyRetries = turn.emptyRetries + 1, !.spare = TRUE,
                                !.empties = turn.empties + 1]
    BY DEF Shape, ChatEmptyRetry
  <1>2. Conv \in Conversation BY <1>1 DEF Shape
  <1>3. PICK conv \in Measured(Conv) :
            convs' = [convs EXCEPT ![turn.key] = [conv EXCEPT !.messages =
                         @ \o <<Msg(nextMsg, "assistant"), Msg(nextMsg + 1, "user")>>]]
    BY DEF ChatEmptyRetry
  <1>4. conv \in Conversation /\ conv.messages = Conv.messages BY <1>2, MeasuredType
  <1>5. Msg(nextMsg, "assistant") \in Message /\ Msg(nextMsg + 1, "user") \in Message
    BY <1>1, MsgType DEF PlainMessage
  <1>6. /\ new = Conv.messages \o <<Msg(nextMsg, "assistant"), Msg(nextMsg + 1, "user")>>
        /\ new \in Seq(Message)
    BY <1>2, <1>5, HistoryFields, TwoAppends
  <1> HIDE DEF new
  <1> DEFINE next == [conv EXCEPT !.messages = new]
  <1>7. next \in Conversation /\ next.messages = new BY <1>4, <1>6, WithMessagesType
  <1>8. convs' = [convs EXCEPT ![turn.key] = next] BY <1>3, <1>4, <1>6
  <1> HIDE DEF next
  <1>9. /\ turn' \in Turn /\ turn'.key = turn.key /\ turn'.heartbeat = turn.heartbeat
        /\ turn'.empties = turn.empties + 1
        /\ turn'.emptyRetries = turn.emptyRetries + 1
    <2>1. turn.emptyRetries + 1 \in Nat /\ turn.empties + 1 \in Nat BY <1>1 DEF Turn
    <2> QED BY <1>1, <2>1, Zenon DEF Turn
  <1>10. nextMsg' \in Nat \ {0} /\ pc' \in PCs /\ pc' # "tools" BY <1>1 DEF PCs
  <1>11. Shape' /\ Conv' = next BY <1>1, <1>7, <1>8, <1>9, <1>10, ShapeOfStep
  <1> QED BY <1>1, <1>7, <1>8, <1>9, <1>11 DEF new

\* A delivered reply finishes a history with the messages there were.
LEMMA ChatRepliesShape ==
  ASSUME Shape, ChatReplies
  PROVE  \E conv \in Conversation : conv.messages = Conv.messages /\ Finish(conv, FALSE)
  <1>1. pc = "chat" BY DEF ChatReplies
  <1>2. Conv \in Conversation BY <1>1 DEF Shape
  <1>3. PICK conv \in Measured(Conv) : Finish(conv, FALSE) BY DEF ChatReplies
  <1>4. conv \in Conversation /\ conv.messages = Conv.messages BY <1>2, MeasuredType
  <1> QED BY <1>3, <1>4

\* A HEARTBEAT_OK finishes a history, pruned as it may be.
LEMMA ChatAcknowledgesShape ==
  ASSUME Shape, ChatAcknowledges
  PROVE  \E conv \in Conversation : Finish(conv, TRUE)
  <1>1. pc = "chat" /\ turn \in Turn BY DEF ChatAcknowledges, Shape
  <1>2. Conv \in Conversation BY <1>1 DEF Shape
  <1>3. PICK conv \in Measured(Conv) :
            Finish([conv EXCEPT !.messages = Pruned(@)], TRUE)
    BY DEF ChatAcknowledges
  <1>4. conv \in Conversation BY <1>2, MeasuredType
  <1>5. Pruned(conv.messages) \in Seq(Message) BY <1>1, <1>4, HistoryFields, PrunedType
  <1> DEFINE next == [conv EXCEPT !.messages = Pruned(conv.messages)]
  <1>6. next \in Conversation BY <1>4, <1>5, WithMessagesType
  <1>7. Finish(next, TRUE) BY <1>3
  <1> QED BY <1>6, <1>7

\* A reply that is not delivered: what the step does.
LEMMA ChatReplyFailsShape ==
  ASSUME Shape, ChatReplyFails
  PROVE  /\ Shape' /\ Conv'.messages = Conv.messages
         /\ pc = "chat" /\ pc' = "save" /\ disk' = disk
         /\ convs' = [convs EXCEPT ![turn.key] = Conv'] /\ turn' = turn
  <1>1. pc = "chat" /\ pc' = "save" /\ disk' = disk /\ turn' = turn /\ nextMsg' = nextMsg
    BY DEF ChatReplyFails
  <1>2. Conv \in Conversation /\ turn \in Turn /\ nextMsg \in Nat \ {0} BY <1>1 DEF Shape
  <1>3. PICK conv \in Measured(Conv) : convs' = [convs EXCEPT ![turn.key] = conv]
    BY DEF ChatReplyFails
  <1>4. conv \in Conversation /\ conv.messages = Conv.messages BY <1>2, MeasuredType
  <1>5. turn' \in Turn /\ turn'.key = turn.key BY <1>1, <1>2
  <1>6. nextMsg' \in Nat \ {0} /\ pc' \in PCs /\ pc' # "tools" BY <1>1, <1>2 DEF PCs
  <1>7. Shape' /\ Conv' = conv BY <1>1, <1>3, <1>4, <1>5, <1>6, ShapeOfStep
  <1> QED BY <1>1, <1>3, <1>4, <1>7

\* Steps that only move on: KeepHistory, and a Chat that fails in some way.
OnlyMoves ==
    /\ pc \in {"compact", "chat"} /\ pc' \in {"chat", "compact", "save", "panicked"}
    /\ convs' = convs /\ disk' = disk /\ turn' = turn /\ nextMsg' = nextMsg

\* Such a step leaves the conversation of the turn.
LEMMA OnlyMovesShape ==
  ASSUME Shape, OnlyMoves
  PROVE  Shape' /\ Conv' = Conv
  <1>1. pc # "idle" /\ pc' \in PCs /\ pc' # "tools" BY DEF OnlyMoves, PCs
  <1>2. Conv' = Conv BY DEF OnlyMoves, Conv
  <1> QED BY <1>1, <1>2 DEF OnlyMoves, Shape

\* The end of a turn, of a reset and of the process.
LEMMA IdleShape ==
  ASSUME Shape, pc' = "idle", turn' \in Turn, nextMsg' = nextMsg,
         convs' \in [Keys -> Conversation \cup {NotLoaded}],
         disk' \in [Paths -> Conversation \cup {NotLoaded}]
  PROVE  Shape'
  <1>1. pc' \in PCs /\ pc' # "tools" BY DEF PCs
  <1> QED BY <1>1 DEF Shape

\* The end of a turn and a restart keep the shape.
LEMMA SaveShape ==
  ASSUME Shape, Save \/ SaveFails \/ Restart
  PROVE  Shape' /\ turn' = Idle
  <1>1. turn' = Idle /\ turn' \in Turn /\ pc' = "idle" /\ nextMsg' = nextMsg
    BY IdleType DEF Save, SaveFails, Restart
  <1>2. convs' \in [Keys -> Conversation \cup {NotLoaded}]
    BY DEF Save, SaveFails, Restart, Shape
  <1>3. disk' \in [Paths -> Conversation \cup {NotLoaded}]
    <2>1. CASE Save
      <3>1. pc # "idle" BY <2>1 DEF Save
      <3>2. Conv \in Conversation /\ turn.key \in Keys BY <3>1 DEF Shape, Turn
      <3> QED BY <2>1, <3>2, PathOf DEF Save, Shape
    <2>2. CASE SaveFails \/ Restart BY <2>2 DEF SaveFails, Restart, Shape
    <2> QED BY <2>1, <2>2
  <1> QED BY <1>1, <1>2, <1>3, IdleShape

\* So does a reset alone.
LEMMA ReceiveResetOnlyShape ==
  ASSUME Shape, NEW k \in Keys, ReceiveResetOnly(k)
  PROVE  Shape' /\ turn' = turn
  <1>1. turn' \in Turn /\ turn' = turn /\ pc' = "idle" /\ nextMsg' = nextMsg
    BY DEF ReceiveResetOnly, Shape
  <1>2. convs' \in [Keys -> Conversation \cup {NotLoaded}]
    BY EmptyConversationType DEF ReceiveResetOnly, Shape
  <1>3. disk' \in [Paths -> Conversation \cup {NotLoaded}]
    BY RemoveFileType DEF ReceiveResetOnly
  <1> QED BY <1>1, <1>2, <1>3, IdleShape

\* Receive and ReceiveResetWithBody: a turn starts in a conversation.
LEMMA TurnStarts ==
  ASSUME Shape, NEW k \in Keys, NEW heartbeat \in BOOLEAN,
         Receive(k, heartbeat) \/ ReceiveResetWithBody(k)
  PROVE  \E conv \in Conversation, h \in BOOLEAN :
             /\ StartTurn(k, h, conv)
             /\ disk' \in [Paths -> Conversation \cup {NotLoaded}]
             /\ h => k \in HeartbeatKeys
             /\ \/ conv \in Get(k) /\ disk' = disk
                \/ conv = EmptyConversation /\ RemoveFile(k)
  <1>1. CASE Receive(k, heartbeat)
    <2>1. PICK conv \in Get(k) : StartTurn(k, heartbeat, conv) BY <1>1 DEF Receive
    <2>2. conv \in Conversation BY GetType
    <2>3. disk' = disk /\ disk \in [Paths -> Conversation \cup {NotLoaded}]
          /\ (heartbeat => k \in HeartbeatKeys)
      BY <1>1 DEF Receive, Shape
    <2> QED BY <2>1, <2>2, <2>3
  <1>2. CASE ReceiveResetWithBody(k)
    <2>1. StartTurn(k, FALSE, EmptyConversation) /\ RemoveFile(k)
      BY <1>2 DEF ReceiveResetWithBody
    <2>2. EmptyConversation \in Conversation BY EmptyConversationType
    <2> QED BY <2>1, <2>2, RemoveFileType
  <1> QED BY <1>1, <1>2

\* The cases of a step, for every proof about one.
LEMMA StepCases ==
  ASSUME [Next]_vars
  PROVE  \/ \E k \in Keys, heartbeat \in BOOLEAN :
                Receive(k, heartbeat) \/ ReceiveResetWithBody(k)
         \/ \E k \in Keys : ReceiveResetOnly(k)
         \/ OnlyMoves
         \/ CompactHistory
         \/ \E n \in 1 .. MaxCalls : ChatCallsTools(n)
         \/ ChatEmptyRetry
         \/ ChatReplies
         \/ ChatReplyFails
         \/ ChatAcknowledges
         \/ \E size \in ToolTokens : RunTool(size)
         \/ Save \/ SaveFails \/ Restart
         \/ UNCHANGED vars
  <1>1. KeepHistory \/ ChatRateLimited \/ ChatFails \/ ChatAcknowledgesPanics => OnlyMoves
    BY DEF KeepHistory, ChatRateLimited, ChatFails, ChatAcknowledgesPanics, OnlyMoves
  <1> QED BY <1>1 DEF Next, Chat

\* Every step keeps the shape.
LEMMA ShapeStep == Shape /\ [Next]_vars => Shape'
  <1> SUFFICES ASSUME Shape, [Next]_vars PROVE Shape' OBVIOUS
  <1>1. CASE \E k \in Keys, heartbeat \in BOOLEAN :
                 Receive(k, heartbeat) \/ ReceiveResetWithBody(k)
    BY <1>1, TurnStarts, StartTurnShape
  <1>2. CASE \E k \in Keys : ReceiveResetOnly(k) BY <1>2, ReceiveResetOnlyShape
  <1>3. CASE OnlyMoves BY <1>3, OnlyMovesShape
  <1>4. CASE CompactHistory BY <1>4, CompactHistoryShape
  <1>5. CASE \E n \in 1 .. MaxCalls : ChatCallsTools(n) BY <1>5, ChatCallsToolsShape
  <1>6. CASE ChatEmptyRetry BY <1>6, ChatEmptyRetryShape
  <1>7. CASE ChatReplies
    <2>1. pc = "chat" BY <1>7 DEF ChatReplies
    <2> QED BY <1>7, <2>1, ChatRepliesShape, FinishShape
  <1>8. CASE ChatReplyFails BY <1>8, ChatReplyFailsShape
  <1>9. CASE ChatAcknowledges
    <2>1. pc = "chat" BY <1>9 DEF ChatAcknowledges
    <2> QED BY <1>9, <2>1, ChatAcknowledgesShape, FinishShape
  <1>10. CASE \E size \in ToolTokens : RunTool(size) BY <1>10, RunToolShape
  <1>11. CASE Save \/ SaveFails \/ Restart BY <1>11, SaveShape
  <1>12. CASE UNCHANGED vars BY <1>12 DEF vars, Shape, Conv
  <1> QED BY <1>1, <1>2, <1>3, <1>4, <1>5, <1>6, <1>7, <1>8, <1>9, <1>10, <1>11,
             <1>12, StepCases

\* The state stays in its sets, whatever is compacted, pruned, lost or
\* measured: the estimate of any history is a number (agentLoop, Store).
THEOREM StateShape == Spec => []TypeOK
  <1>1. Init => Shape BY InitShape
  <1>2. Shape /\ [Next]_vars => Shape' BY ShapeStep
  <1>3. Shape => TypeOK BY DEF Shape, TypeOK
  <1> QED BY <1>1, <1>2, <1>3, PTL DEF Spec

-----------------------------------------------------------------------------
(* The recovery prompts.                                                   *)

(***************************************************************************)
(* While tools were called, the code's counter is the number of empty      *)
(* replies since; when it is reset, hadToolCalls is reset with it, so that *)
(* no further prompt is sent before a tool call starts the count anew.     *)
(***************************************************************************)
RetriesCounted ==
    /\ turn.empties <= MaxEmptyRetries
    /\ turn.hadToolCalls => turn.empties = turn.emptyRetries

\* Every step keeps the count.
LEMMA RetriesStep == Shape /\ RetriesCounted /\ [Next]_vars => RetriesCounted'
  <1> SUFFICES ASSUME Shape, RetriesCounted, [Next]_vars PROVE RetriesCounted' OBVIOUS
  <1>1. /\ turn \in Turn /\ turn.empties \in Nat /\ turn.emptyRetries \in Nat
        /\ MaxEmptyRetries \in Nat
    BY AgentTurnAssumption DEF Shape, Turn, AgentTurnAssumption
  <1>2. ASSUME turn'.empties = 0, turn'.hadToolCalls = FALSE PROVE RetriesCounted'
    BY <1>1, <1>2 DEF RetriesCounted
  <1>3. ASSUME turn' = turn PROVE RetriesCounted'
    BY <1>3 DEF RetriesCounted
  <1>4. ASSUME turn'.empties = turn.empties, turn'.hadToolCalls = turn.hadToolCalls,
               turn'.emptyRetries = turn.emptyRetries
        PROVE  RetriesCounted'
    BY <1>4 DEF RetriesCounted
  <1>5. CASE \E k \in Keys, heartbeat \in BOOLEAN :
                 Receive(k, heartbeat) \/ ReceiveResetWithBody(k)
    BY <1>2, <1>5, TurnStarts, StartTurnShape
  <1>6. CASE \E k \in Keys : ReceiveResetOnly(k) BY <1>3, <1>6, ReceiveResetOnlyShape
  <1>7. CASE OnlyMoves BY <1>3, <1>7 DEF OnlyMoves
  <1>8. CASE CompactHistory
    <2>1. turn'.empties = turn.empties /\ turn'.hadToolCalls = FALSE
      BY <1>8, CompactHistoryShape
    <2> QED BY <2>1 DEF RetriesCounted
  <1>9. CASE \E n \in 1 .. MaxCalls : ChatCallsTools(n)
    <2>1. turn'.empties = 0 /\ turn'.emptyRetries = 0 BY <1>9, ChatCallsToolsShape
    <2> QED BY <1>1, <2>1 DEF RetriesCounted
  <1>10. CASE ChatEmptyRetry
    <2>1. /\ turn.hadToolCalls /\ turn.emptyRetries < MaxEmptyRetries
          /\ turn'.empties = turn.empties + 1
          /\ turn'.emptyRetries = turn.emptyRetries + 1
      BY <1>10, ChatEmptyRetryShape
    <2>2. turn.empties = turn.emptyRetries BY <2>1 DEF RetriesCounted
    <2>3. turn'.empties = turn'.emptyRetries /\ turn'.empties <= MaxEmptyRetries
      BY <1>1, <2>1, <2>2
    <2> QED BY <2>3 DEF RetriesCounted
  <1>11. CASE ChatReplies
    <2>1. pc = "chat" BY <1>11 DEF ChatReplies
    <2> QED BY <1>2, <1>4, <1>11, <2>1, ChatRepliesShape, FinishShape
  <1>12. CASE ChatReplyFails BY <1>3, <1>12, ChatReplyFailsShape
  <1>13. CASE ChatAcknowledges
    <2>1. pc = "chat" BY <1>13 DEF ChatAcknowledges
    <2> QED BY <1>2, <1>4, <1>13, <2>1, ChatAcknowledgesShape, FinishShape
  <1>14. CASE \E size \in ToolTokens : RunTool(size)
    BY <1>4, <1>14, RunToolShape
  <1>15. CASE Save \/ SaveFails \/ Restart
    <2>1. turn' = Idle BY <1>15, SaveShape
    <2>2. turn'.empties = 0 /\ turn'.hadToolCalls = FALSE BY <2>1 DEF Idle
    <2> QED BY <1>2, <2>2
  <1>16. CASE UNCHANGED vars BY <1>3, <1>16 DEF vars
  <1> QED BY <1>5, <1>6, <1>7, <1>8, <1>9, <1>10, <1>11, <1>12, <1>13, <1>14, <1>15,
             <1>16, StepCases

\* Whatever is compacted, rate limited, injected or pruned in between, a
\* model that keeps answering with nothing is asked again at most
\* maxEmptyRetries times in a row (agentLoop's emptyRetries).
THEOREM RecoveryBounded == Spec => []RecoveryPromptsBounded
  <1>1. Init => Shape /\ RetriesCounted
    <2> SUFFICES ASSUME Init PROVE Shape /\ RetriesCounted OBVIOUS
    <2>1. turn = Idle /\ MaxEmptyRetries \in Nat
      BY AgentTurnAssumption DEF Init, AgentTurnAssumption
    <2>2. turn.empties = 0 /\ turn.emptyRetries = 0 BY <2>1 DEF Idle
    <2> QED BY <2>1, <2>2, InitShape DEF RetriesCounted
  <1>2. (Shape /\ RetriesCounted) /\ [Next]_vars => (Shape /\ RetriesCounted)'
    BY ShapeStep, RetriesStep
  <1>3. RetriesCounted => RecoveryPromptsBounded
    BY DEF RetriesCounted, RecoveryPromptsBounded
  <1> QED BY <1>1, <1>2, <1>3, PTL DEF Spec

-----------------------------------------------------------------------------
(* Well-formed requests, where no heartbeat prunes a conversation.         *)

Kept(c) ==
    /\ CallsAnswered(c.messages)
    /\ c.messages # <<>> => c.messages[1] = SystemPrompt

\* What a request may be made of.
Sendable(ms) == CallsAnswered(ms) /\ ms # <<>> /\ ms[1] = SystemPrompt

\* What a history is while the tools of its last message run.
AwaitsTools(ms, pending) ==
    PartlyAnswered(ms, pending) /\ ms # <<>> /\ ms[1] = SystemPrompt

(***************************************************************************)
(* Every history at rest, in memory and on disk, is kept well; the one of  *)
(* the turn is sendable, or has as many calls left as the turn says.       *)
(***************************************************************************)
WellKept ==
    /\ ~turn.heartbeat
    /\ \A k \in Keys : convs[k] # NotLoaded /\ (pc = "idle" \/ k # turn.key)
                           => Kept(convs[k])
    /\ \A p \in Paths : disk[p] # NotLoaded => Kept(disk[p])
    /\ pc \notin {"idle", "tools"} => Sendable(Conv.messages)
    /\ pc = "tools" => AwaitsTools(Conv.messages, turn.pending)

\* A fresh conversation is kept well.
LEMMA EmptyKept == Kept(EmptyConversation)
  <1> DEFINE none == <<>>
  <1>1. none \in Seq(Message) /\ Len(none) = 0 BY EmptySeq
  <1> HIDE DEF none
  <1>2. \A i \in 1 .. Len(none) : AnsweredAt(none, i) BY <1>1
  <1>3. CallsAnswered(none) BY <1>1, <1>2, CallsAnsweredAt
  <1> QED BY <1>3, EmptyConversationType DEF Kept, none

\* Appending to a history leaves its first message.
LEMMA AppendFirst ==
  ASSUME NEW ms \in Seq(Message), ms # <<>>, NEW m \in Message
  PROVE  Append(ms, m) # <<>> /\ Append(ms, m)[1] = ms[1]
  <1>1. Len(ms) \in Nat \ {0} BY EmptySeq
  <1>2. Len(Append(ms, m)) = Len(ms) + 1 /\ Append(ms, m)[1] = ms[1]
    BY <1>1, AppendProperties
  <1>3. Append(ms, m) # <<>> BY AppendProperties
  <1> QED BY <1>2, <1>3

\* A plain message leaves a sendable history sendable.
LEMMA SendableAppend ==
  ASSUME NEW ms \in Seq(Message), Sendable(ms), NEW m, PlainMessage(m)
  PROVE  Append(ms, m) \in Seq(Message) /\ Sendable(Append(ms, m))
  <1>1. Append(ms, m) \in Seq(Message) /\ CallsAnswered(Append(ms, m))
    BY AppendPlain DEF Sendable
  <1>2. Append(ms, m) # <<>> /\ Append(ms, m)[1] = SystemPrompt
    BY AppendFirst DEF Sendable, PlainMessage
  <1> QED BY <1>1, <1>2 DEF Sendable

\* HandleTurn's preamble makes a well-kept history sendable.
LEMMA OpenedSendable ==
  ASSUME NEW conv \in Conversation, Kept(conv), nextMsg \in Nat \ {0}
  PROVE  Sendable(Opened(conv).messages)
  <1> DEFINE before == IF conv.messages = <<>> THEN <<SystemPrompt>> ELSE conv.messages
             user == Msg(nextMsg, "user")
  <1>1. before \in Seq(Message) /\ Opened(conv).messages = Append(before, user)
    <2> HIDE DEF before
    <2>1. before = IF conv.messages = <<>> THEN <<SystemPrompt>> ELSE conv.messages
      BY DEF before
    <2> QED BY <2>1, OpenedType
  <1>2. PlainMessage(user) BY MsgType
  <1>3. Sendable(before)
    <2>1. CASE conv.messages = <<>>
      <3> DEFINE none == <<>>
      <3>1. none \in Seq(Message) /\ CallsAnswered(none)
        BY EmptyKept, EmptyConversationType, EmptySeq DEF Kept
      <3>2. PlainMessage(SystemPrompt) /\ SystemPrompt \in Message
        BY SystemPromptPlain DEF PlainMessage
      <3>3. CallsAnswered(Append(none, SystemPrompt))
        <4> HIDE DEF none
        <4> QED BY <3>1, <3>2, AppendPlain
      <3>4. Append(none, SystemPrompt) = <<SystemPrompt>> OBVIOUS
      <3>5. <<SystemPrompt>> # <<>> /\ <<SystemPrompt>>[1] = SystemPrompt OBVIOUS
      <3> QED BY <2>1, <3>3, <3>4, <3>5 DEF Sendable
    <2>2. CASE conv.messages # <<>> BY <2>2 DEF Kept, Sendable
    <2> QED BY <2>1, <2>2
  <1> HIDE DEF before, user
  <1> QED BY <1>1, <1>2, <1>3, SendableAppend

\* A compaction leaves a sendable history sendable.
LEMMA CompactSendable ==
  ASSUME NEW ms \in Seq(Message), Sendable(ms), Compactable(ms),
         NEW summary \in SUBSET Nat
  PROVE  Sendable(Compact(ms, summary))
  <1> DEFINE kept == Compact(ms, summary)
  <1>1. PlainFirst(ms)
    <2>1. PlainMessage(SystemPrompt) /\ ms[1] = SystemPrompt
      BY SystemPromptPlain DEF Sendable
    <2> QED BY <2>1 DEF PlainFirst, PlainMessage
  <1>2. CallsAnswered(kept) BY <1>1, CompactKeepsAnswers DEF Sendable
  <1>3. /\ kept \in Seq(Message) /\ kept[1] = SystemPrompt
        /\ Len(kept) = Len(ms) - CutOf(ms) + 3
    BY CompactShape DEF Sendable
  <1>4. Len(ms) \in Nat /\ CutOf(ms) \in 3 .. Len(ms) BY MessagesOf, SummarizeType
  <1> HIDE DEF kept
  <1>5. kept # <<>>
    <2>1. Len(kept) > 0 BY <1>3, <1>4
    <2>2. Len(<<>>) = 0 BY EmptySeq
    <2> QED BY <2>1, <2>2
  <1> QED BY <1>2, <1>3, <1>5 DEF Sendable, kept

\* A step of the turn, which touches no conversation and no file but its own.
LEMMA WellKeptTurnStep ==
  ASSUME Shape, WellKept, pc # "idle", pc' # "idle", disk' = disk,
         convs' = [convs EXCEPT ![turn.key] = Conv'],
         turn'.key = turn.key, turn'.heartbeat = turn.heartbeat,
         pc' # "tools" => Sendable(Conv'.messages),
         pc' = "tools" => AwaitsTools(Conv'.messages, turn'.pending)
  PROVE  WellKept'
  <1>1. \A k \in Keys : k # turn.key => convs'[k] = convs[k] BY DEF Shape
  <1> QED BY <1>1 DEF WellKept

\* A turn starts with a sendable history, in memory or from its file.
LEMMA StartsWellKept ==
  ASSUME HeartbeatKeys = {}, Shape, WellKept, NEW k \in Keys, NEW heartbeat \in BOOLEAN,
         Receive(k, heartbeat) \/ ReceiveResetWithBody(k)
  PROVE  WellKept'
  <1>1. PICK conv \in Conversation, h \in BOOLEAN :
            /\ StartTurn(k, h, conv)
            /\ h => k \in HeartbeatKeys
            /\ \/ conv \in Get(k) /\ disk' = disk
               \/ conv = EmptyConversation /\ RemoveFile(k)
    BY TurnStarts
  <1>2. pc = "idle" BY DEF Receive, ReceiveResetWithBody
  <1>3. /\ nextMsg \in Nat \ {0} /\ convs \in [Keys -> Conversation \cup {NotLoaded}]
        /\ disk \in [Paths -> Conversation \cup {NotLoaded}]
    BY DEF Shape
  <1>4. Kept(conv)
    <2>1. CASE conv = EmptyConversation BY <2>1, EmptyKept
    <2>2. CASE conv \in Get(k) /\ conv # EmptyConversation
      <3>1. CASE convs[k] # NotLoaded
        <4>1. conv = convs[k] BY <2>2, <3>1 DEF Get
        <4> QED BY <1>2, <3>1, <4>1 DEF WellKept
      <3>2. CASE convs[k] = NotLoaded
        <4>1. conv = disk[HistoryPath(k)] /\ disk[HistoryPath(k)] # NotLoaded
          BY <2>2, <3>2 DEF Get, LoadHistory
        <4> QED BY <4>1, PathOf DEF WellKept
      <3> QED BY <3>1, <3>2
    <2> QED BY <1>1, <2>1, <2>2
  <1>5. Sendable(Opened(conv).messages) BY <1>3, <1>4, OpenedSendable
  <1>6. disk' \in [Paths -> Conversation \cup {NotLoaded}]
    BY <1>1, <1>3, RemoveFileType
  <1>7. turn'.key = k /\ turn'.heartbeat = h BY <1>1, <1>6, StartTurnShape
  <1>8. convs' = [convs EXCEPT ![k] = Opened(conv)] /\ pc' = "compact"
    BY <1>1 DEF StartTurn
  <1>9. ~turn'.heartbeat BY <1>1, <1>7
  <1>10. Conv' = Opened(conv) BY <1>3, <1>7, <1>8 DEF Conv
  <1>11. \A j \in Keys : convs'[j] # NotLoaded /\ (pc' = "idle" \/ j # turn'.key)
                           => Kept(convs'[j])
    BY <1>2, <1>3, <1>7, <1>8 DEF WellKept
  <1>12. \A p \in Paths : disk'[p] # NotLoaded => Kept(disk'[p])
    BY <1>1, <1>3 DEF WellKept, RemoveFile
  <1> QED BY <1>5, <1>8, <1>9, <1>10, <1>11, <1>12 DEF WellKept

\* Steps after which the turn is over.
LEMMA EndsWellKept ==
  ASSUME Shape, WellKept, Save \/ SaveFails \/ Restart
  PROVE  WellKept'
  <1>1. turn' = Idle /\ pc' = "idle" BY DEF Save, SaveFails, Restart
  <1>2. ~turn'.heartbeat BY <1>1, IdleType
  <1>3. CASE Save \/ SaveFails
    <2>1. pc = "save" /\ convs' = convs BY <1>3 DEF Save, SaveFails
    <2>2. Kept(Conv) BY <2>1 DEF WellKept, Kept, Sendable
    <2>3. \A k \in Keys : convs'[k] # NotLoaded => Kept(convs'[k])
      <3> SUFFICES ASSUME NEW k \in Keys, convs'[k] # NotLoaded PROVE Kept(convs'[k])
        OBVIOUS
      <3>1. CASE k = turn.key BY <2>1, <2>2, <3>1 DEF Conv
      <3>2. CASE k # turn.key BY <2>1, <3>2 DEF WellKept
      <3> QED BY <3>1, <3>2
    <2>4. \A p \in Paths : disk'[p] # NotLoaded => Kept(disk'[p])
      BY <1>3, <2>2 DEF Save, SaveFails, WellKept, Shape
    <2> QED BY <1>1, <1>2, <2>3, <2>4 DEF WellKept
  <1>4. CASE Restart
    <2>1. \A k \in Keys : convs'[k] = NotLoaded BY <1>4 DEF Restart
    <2>2. disk' = disk BY <1>4 DEF Restart
    <2> QED BY <1>1, <1>2, <2>1, <2>2 DEF WellKept
  <1> QED BY <1>3, <1>4

\* Every step keeps the histories well where no heartbeat prunes.
LEMMA WellKeptStep ==
  ASSUME HeartbeatKeys = {}, Shape, WellKept, [Next]_vars
  PROVE  WellKept'
  <1>1. CASE \E k \in Keys, heartbeat \in BOOLEAN :
                 Receive(k, heartbeat) \/ ReceiveResetWithBody(k)
    BY <1>1, StartsWellKept
  <1>2. CASE \E k \in Keys : ReceiveResetOnly(k)
    <2>1. PICK k \in Keys : ReceiveResetOnly(k) BY <1>2
    <2>2. /\ pc = "idle" /\ pc' = "idle" /\ turn' = turn
          /\ convs' = [convs EXCEPT ![k] = EmptyConversation] /\ RemoveFile(k)
      BY <2>1 DEF ReceiveResetOnly
    <2>3. \A j \in Keys : convs'[j] # NotLoaded => Kept(convs'[j])
      BY <2>2, EmptyKept DEF WellKept, Shape
    <2>4. \A p \in Paths : disk'[p] # NotLoaded => Kept(disk'[p])
      BY <2>2 DEF WellKept, RemoveFile, Shape
    <2> QED BY <2>2, <2>3, <2>4 DEF WellKept
  <1>3. CASE OnlyMoves
    <2>1. Sendable(Conv.messages) BY <1>3 DEF OnlyMoves, WellKept
    <2>2. Conv' = Conv BY <1>3, OnlyMovesShape
    <2> QED BY <1>3, <2>1, <2>2 DEF OnlyMoves, WellKept
  <1>4. CASE CompactHistory
    <2>1. /\ pc = "compact" /\ pc' = "chat" /\ Conv \in Conversation
          /\ Compactable(Conv.messages) /\ disk' = disk
          /\ convs' = [convs EXCEPT ![turn.key] = Conv']
          /\ turn'.key = turn.key /\ turn'.heartbeat = turn.heartbeat
          /\ Conv'.messages = Compact(Conv.messages, Conv.summary)
      BY <1>4, CompactHistoryShape
    <2>2. Sendable(Conv.messages) BY <2>1 DEF WellKept
    <2>3. Sendable(Conv'.messages) BY <2>1, <2>2, CompactSendable, HistoryFields
    <2> QED BY <2>1, <2>3, WellKeptTurnStep
  <1>5. CASE \E n \in 1 .. MaxCalls : ChatCallsTools(n)
    <2>1. PICK n \in 1 .. MaxCalls : ChatCallsTools(n) BY <1>5
    <2> DEFINE m == [Msg(nextMsg, "assistant") EXCEPT !.calls = n]
    <2>2. /\ pc' = "tools" /\ disk' = disk /\ convs' = [convs EXCEPT ![turn.key] = Conv']
          /\ turn'.key = turn.key /\ turn'.heartbeat = turn.heartbeat
          /\ turn'.pending = n /\ Conv'.messages = Append(Conv.messages, m)
      BY <2>1, ChatCallsToolsShape
    <2>3. /\ pc = "chat" /\ nextMsg \in Nat /\ n \in Nat \ {0} /\ Conv \in Conversation
      BY <2>1, AgentTurnAssumption DEF ChatCallsTools, Shape, AgentTurnAssumption
    <2>4. m \in Message /\ m.role = "assistant" /\ m.calls = n
      <3>1. Msg(nextMsg, "assistant") \in Message /\ Msg(nextMsg, "assistant").role = "assistant"
        BY <2>3, MsgType DEF PlainMessage
      <3> QED BY <2>3, <3>1 DEF Message
    <2> HIDE DEF m
    <2>5. Sendable(Conv.messages) /\ Conv.messages \in Seq(Message)
      BY <2>3, HistoryFields DEF WellKept
    <2>6. PartlyAnswered(Append(Conv.messages, m), n)
      BY <2>3, <2>4, <2>5, AskingTools DEF Sendable
    <2>7. AwaitsTools(Conv'.messages, turn'.pending)
      BY <2>2, <2>4, <2>5, <2>6, AppendFirst DEF Sendable, AwaitsTools
    <2> QED BY <2>2, <2>3, <2>7, WellKeptTurnStep
  <1>6. CASE ChatEmptyRetry
    <2>1. /\ pc = "chat" /\ pc' = "compact"
          /\ disk' = disk /\ convs' = [convs EXCEPT ![turn.key] = Conv']
          /\ turn'.key = turn.key /\ turn'.heartbeat = turn.heartbeat
          /\ Conv'.messages = Append(Append(Conv.messages, Msg(nextMsg, "assistant")),
                                     Msg(nextMsg + 1, "user"))
      BY <1>6, ChatEmptyRetryShape
    <2>2. /\ nextMsg \in Nat /\ nextMsg + 1 \in Nat /\ Sendable(Conv.messages)
          /\ Conv.messages \in Seq(Message)
      BY <2>1, HistoryFields DEF Shape, WellKept
    <2>3. /\ PlainMessage(Msg(nextMsg, "assistant"))
          /\ PlainMessage(Msg(nextMsg + 1, "user"))
      BY <2>2, MsgType
    <2>4. Sendable(Append(Append(Conv.messages, Msg(nextMsg, "assistant")),
                          Msg(nextMsg + 1, "user")))
      BY <2>2, <2>3, SendableAppend
    <2> QED BY <2>1, <2>4, WellKeptTurnStep
  <1>7. CASE ChatReplies
    <2>1. pc = "chat" BY <1>7 DEF ChatReplies
    <2>2. PICK conv \in Conversation : conv.messages = Conv.messages /\ Finish(conv, FALSE)
      BY <1>7, ChatRepliesShape
    <2>3. /\ nextMsg \in Nat /\ nextMsg + 1 \in Nat /\ Sendable(conv.messages)
          /\ conv.messages \in Seq(Message)
      BY <2>1, <2>2, HistoryFields DEF Shape, WellKept
    <2>4. /\ Sendable(Append(conv.messages, Msg(nextMsg, "assistant")))
          /\ Sendable(Append(Append(conv.messages, Msg(nextMsg, "assistant")),
                             Msg(nextMsg + 1, "user")))
      BY <2>3, MsgType, SendableAppend
    <2>5. /\ disk' = disk /\ turn'.key = turn.key /\ turn'.heartbeat = turn.heartbeat
          /\ \/ Conv'.messages = Append(conv.messages, Msg(nextMsg, "assistant"))
             \/ Conv'.messages = Append(Append(conv.messages, Msg(nextMsg, "assistant")),
                                        Msg(nextMsg + 1, "user"))
          /\ pc' \in {"save", "compact"}
          /\ convs' = [convs EXCEPT ![turn.key] = Conv']
      BY <2>1, <2>2, FinishShape
    <2> QED BY <2>1, <2>4, <2>5, WellKeptTurnStep
  <1>8. CASE ChatReplyFails
    <2>1. /\ Conv'.messages = Conv.messages
          /\ pc = "chat" /\ pc' = "save" /\ disk' = disk
          /\ convs' = [convs EXCEPT ![turn.key] = Conv'] /\ turn' = turn
      BY <1>8, ChatReplyFailsShape
    <2>2. Sendable(Conv.messages) BY <2>1 DEF WellKept
    <2> QED BY <2>1, <2>2, WellKeptTurnStep
  <1>9. CASE ChatAcknowledges BY <1>9 DEF ChatAcknowledges, WellKept
  <1>10. CASE \E size \in ToolTokens : RunTool(size)
    <2>1. PICK size \in ToolTokens : RunTool(size) BY <1>10
    <2> DEFINE asked == Conv.messages[Max({i \in DOMAIN Conv.messages :
                                               Conv.messages[i].calls > 0})].id
    <2>2. PICK m : m = [id |-> nextMsg, role |-> "tool", calls |-> 0,
                        answers |-> asked, covers |-> {}, tokens |-> size]
      OBVIOUS
    <2>3. /\ m \in Message
          /\ pc = "tools" /\ pc' = (IF turn.pending = 1 THEN "compact" ELSE "tools")
          /\ disk' = disk /\ convs' = [convs EXCEPT ![turn.key] = Conv']
          /\ turn.pending \in Nat \ {0} /\ turn'.pending = turn.pending - 1
          /\ turn'.key = turn.key /\ turn'.heartbeat = turn.heartbeat
          /\ Conv'.messages = Append(Conv.messages, m)
      BY <2>1, <2>2, RunToolShape
    <2>4. m.role = "tool" /\ m.calls = 0 /\ m.answers = asked BY <2>2
    <2>5. /\ AwaitsTools(Conv.messages, turn.pending) /\ Conv.messages \in Seq(Message)
      BY <2>3, HistoryFields DEF Shape, WellKept
    <2>6. /\ Append(Conv.messages, m) \in Seq(Message)
          /\ PartlyAnswered(Append(Conv.messages, m), turn.pending - 1)
      BY <2>3, <2>4, <2>5, AnsweringTool DEF AwaitsTools
    <2>7. AwaitsTools(Conv'.messages, turn'.pending)
      BY <2>3, <2>5, <2>6, AppendFirst DEF AwaitsTools
    <2>8. turn.pending = 1 => Sendable(Conv'.messages)
      <3> SUFFICES ASSUME turn.pending = 1 PROVE Sendable(Conv'.messages) OBVIOUS
      <3>1. turn.pending - 1 = 0 OBVIOUS
      <3>2. CallsAnswered(Append(Conv.messages, m)) BY <2>6, <3>1, AllToolsAnswered
      <3> QED BY <2>3, <2>7, <3>2 DEF AwaitsTools, Sendable
    <2> QED BY <2>3, <2>7, <2>8, WellKeptTurnStep
  <1>11. CASE Save \/ SaveFails \/ Restart BY <1>11, EndsWellKept
  <1>12. CASE UNCHANGED vars BY <1>12 DEF vars, WellKept, Conv
  <1> QED BY <1>1, <1>2, <1>3, <1>4, <1>5, <1>6, <1>7, <1>8, <1>9, <1>10, <1>11,
             <1>12, StepCases

\* So they are well kept in every state.
LEMMA WellKeptAlways ==
  ASSUME HeartbeatKeys = {}
  PROVE  Spec => [](Shape /\ WellKept)
  <1>1. Init => Shape /\ WellKept
    <2> SUFFICES ASSUME Init PROVE Shape /\ WellKept OBVIOUS
    <2>1. Shape BY InitShape
    <2>2. pc = "idle" /\ turn = Idle /\ ~turn.heartbeat BY IdleType DEF Init
    <2>3. \A k \in Keys : convs[k] = NotLoaded BY DEF Init
    <2>4. \A p \in Paths : disk[p] = NotLoaded BY DEF Init
    <2> QED BY <2>1, <2>2, <2>3, <2>4 DEF WellKept
  <1>2. (Shape /\ WellKept) /\ [Next]_vars => (Shape /\ WellKept)'
    BY ShapeStep, WellKeptStep
  <1> QED BY <1>1, <1>2, PTL DEF Spec

\* Where no heartbeat prunes, what is sent to the model, and what is on disk,
\* has every tool call answered and no stray tool message, whatever was
\* compacted, injected, failed or lost (agentLoop, Compact, Store).
THEOREM WellFormedWithoutHeartbeats ==
  ASSUME HeartbeatKeys = {}
  PROVE  Spec => []RequestsWellFormed
  <1>1. WellKept => RequestsWellFormed
    BY DEF WellKept, RequestsWellFormed, Sendable, Kept
  <1> QED BY <1>1, WellKeptAlways, PTL

\* There, every request starts with the system prompt, however often the
\* history behind it was compacted (HandleTurn, Compact).
THEOREM PromptFirstWithoutHeartbeats ==
  ASSUME HeartbeatKeys = {}
  PROVE  Spec => []SystemPromptFirst
  <1>1. WellKept => SystemPromptFirst
    BY DEF WellKept, SystemPromptFirst, Sendable
  <1> QED BY <1>1, WellKeptAlways, PTL

-----------------------------------------------------------------------------
(* What a step of a turn does to its conversation.                         *)

\* `new' is `ms' with more messages behind it, which speak for `ids'.
Extends(ms, new, ids) ==
    /\ Len(ms) <= Len(new)
    /\ \A i \in 1 .. Len(ms) : new[i] = ms[i]
    /\ \A i \in Len(ms) + 1 .. Len(new) : Says(new[i]) \subseteq ids

\* The ids a step gives away.
Created == nextMsg .. nextMsg' - 1

\* The usage is still the one of `conv', or was measured on its messages.
CarriesUsage(conv, next) ==
    \/ next.usage = conv.usage /\ next.usageIndex = conv.usageIndex
    \/ next.usage.prompt = conv.messages /\ next.usageIndex = Len(conv.messages)

SameTurn ==
    /\ pc # "idle" /\ pc' # "idle" /\ disk' = disk
    /\ convs' = [convs EXCEPT ![turn.key] = Conv']
    /\ turn'.key = turn.key /\ turn'.heartbeat = turn.heartbeat
    /\ turn'.preTurnLen = turn.preTurnLen /\ turn'.older = turn.older

(***************************************************************************)
(* Every step of a turn but a compaction and a prune adds messages of its  *)
(* own to the conversation of the turn, or none.                           *)
(***************************************************************************)
TurnGrows ==
    /\ SameTurn
    /\ Extends(Conv.messages, Conv'.messages, Created)
    /\ Conv'.summary = Conv.summary
    /\ CarriesUsage(Conv, Conv')

\* The loop's messages speak for themselves, the system prompt for none.
LEMMA MsgSays ==
  /\ \A id \in Nat, role \in Roles, n \in Nat :
        Says([Msg(id, role) EXCEPT !.calls = n]) \subseteq {id}
  /\ \A id \in Nat, role \in Roles : Says(Msg(id, role)) \subseteq {id}
  /\ Says(SystemPrompt) = {}
  /\ \A id, role, n, a, size :
        Says([id |-> id, role |-> role, calls |-> n, answers |-> a, covers |-> {},
              tokens |-> size]) \subseteq {id}
  BY DEF Says, Msg, SystemPrompt

\* What the loop appends are messages that speak for themselves.
LEMMA LoopMessages ==
  ASSUME NEW id \in Nat, NEW role \in {"system", "user", "assistant"}
  PROVE  Msg(id, role) \in Message /\ Says(Msg(id, role)) \subseteq {id}
  <1>1. role \in Roles BY RolesAre
  <1> QED BY <1>1, MsgType, MsgSays DEF PlainMessage

\* A history extends itself.
LEMMA ExtendsItself ==
  ASSUME NEW ms \in Seq(Message), NEW ids
  PROVE  Extends(ms, ms, ids)
  <1>1. PICK n \in Nat : n = Len(ms) BY LenProperties
  <1> QED BY <1>1 DEF Extends

\* One message more, and another one.
LEMMA ExtendsByOne ==
  ASSUME NEW ids, NEW ms \in Seq(Message), NEW new \in Seq(Message), NEW m \in Message,
         Extends(ms, new, ids), Says(m) \subseteq ids
  PROVE  Append(new, m) \in Seq(Message) /\ Extends(ms, Append(new, m), ids)
  <1>1. PICK k \in Nat : k = Len(ms) BY LenProperties
  <1>2. PICK n \in Nat : n = Len(new) BY LenProperties
  <1>3. PICK more \in Seq(Message) :
          /\ more = Append(new, m) /\ Len(more) = n + 1
          /\ \A i \in 1 .. n : more[i] = new[i]
          /\ more[n + 1] = m
    BY <1>2, AppendProperties
  <1>4. /\ k <= n /\ \A i \in 1 .. k : new[i] = ms[i]
        /\ \A i \in k + 1 .. n : Says(new[i]) \subseteq ids
    BY <1>1, <1>2 DEF Extends
  <1>5. \A i \in 1 .. k : more[i] = ms[i] BY <1>3, <1>4
  <1>6. \A i \in k + 1 .. n + 1 : Says(more[i]) \subseteq ids
    <2> SUFFICES ASSUME NEW i \in k + 1 .. n + 1 PROVE Says(more[i]) \subseteq ids OBVIOUS
    <2>1. CASE i = n + 1 BY <2>1, <1>3
    <2>2. CASE i # n + 1
      <3>1. i \in k + 1 .. n /\ i \in 1 .. n BY <2>2
      <3> QED BY <3>1, <1>3, <1>4
    <2> QED BY <2>1, <2>2
  <1>7. k <= n + 1 BY <1>4
  <1> QED BY <1>1, <1>3, <1>5, <1>6, <1>7 DEF Extends

\* What Chat measures leaves the rest of the conversation.
LEMMA MeasuredCarries ==
  ASSUME NEW conv \in Conversation, NEW measured \in Measured(conv)
  PROVE  measured.summary = conv.summary /\ CarriesUsage(conv, measured)
  <1> DEFINE usage == [total |-> TokensFrom(conv.messages, 1) + 1, prompt |-> conv.messages]
  <1>1. measured = conv
          \/ measured = [conv EXCEPT !.usage = usage, !.usageIndex = Len(conv.messages)]
    BY DEF Measured
  <1>2. usage.prompt = conv.messages OBVIOUS
  <1> HIDE DEF usage
  <1>3. \/ measured = conv
        \/ /\ measured.usage = usage /\ measured.usageIndex = Len(conv.messages)
           /\ measured.summary = conv.summary
    BY <1>1 DEF Conversation
  <1> QED BY <1>2, <1>3 DEF CarriesUsage

\* Finish adds messages to the conversation it is given.
LEMMA FinishGrows ==
  ASSUME Shape, pc = "chat", NEW conv \in Conversation, NEW pruned \in BOOLEAN,
         Finish(conv, pruned)
  PROVE  /\ SameTurn
         /\ Extends(conv.messages, Conv'.messages, Created)
         /\ Conv'.summary = conv.summary /\ Conv'.usage = conv.usage
         /\ Conv'.usageIndex = conv.usageIndex
  <1> DEFINE one == Append(conv.messages, Msg(nextMsg, "assistant"))
             two == Append(one, Msg(nextMsg + 1, "user"))
  <1>1. nextMsg \in Nat \ {0} /\ turn \in Turn /\ turn.key \in Keys
    BY DEF Shape, Turn
  <1>2. /\ disk' = disk /\ pc' \in {"save", "compact"}
        /\ convs' = [convs EXCEPT ![turn.key] = Conv']
        /\ turn'.key = turn.key /\ turn'.heartbeat = turn.heartbeat
    BY FinishShape
  <1>3. turn'.preTurnLen = turn.preTurnLen /\ turn'.older = turn.older
    BY <1>1, Zenon DEF Finish, Turn
  <1>4. SameTurn BY <1>2, <1>3 DEF SameTurn
  <1>5. /\ Msg(nextMsg, "assistant") \in Message /\ Msg(nextMsg + 1, "user") \in Message
        /\ Says(Msg(nextMsg, "assistant")) \subseteq {nextMsg}
        /\ Says(Msg(nextMsg + 1, "user")) \subseteq {nextMsg + 1}
    BY <1>1, LoopMessages
  <1>6. \/ nextMsg' = nextMsg + 1 /\ convs' = [convs EXCEPT ![turn.key] = [conv EXCEPT !.messages = one]]
        \/ nextMsg' = nextMsg + 2 /\ convs' = [convs EXCEPT ![turn.key] = [conv EXCEPT !.messages = two]]
    <2>1. conv.messages \in Seq(Message) BY HistoryFields
    <2>2. [conv EXCEPT !.messages = one].messages = one BY DEF Conversation
    <2>3. [[conv EXCEPT !.messages = one] EXCEPT !.messages = two] = [conv EXCEPT !.messages = two]
      BY DEF Conversation
    <2> HIDE DEF two
    <2>4. two = Append(one, Msg(nextMsg + 1, "user")) BY DEF two
    <2> HIDE DEF one
    <2>5. [conv EXCEPT !.messages = Append(@, Msg(nextMsg, "assistant"))] = [conv EXCEPT !.messages = one]
      BY DEF one
    <2>6. [[conv EXCEPT !.messages = one] EXCEPT !.messages = Append(@, Msg(nextMsg + 1, "user"))]
            = [conv EXCEPT !.messages = two]
      BY <2>2, <2>3, <2>4
    <2> QED BY <2>5, <2>6 DEF Finish
  <1>7. conv.messages \in Seq(Message) /\ Extends(conv.messages, conv.messages, Created)
    BY HistoryFields, ExtendsItself
  <1>8. CASE nextMsg' = nextMsg + 1 /\ convs' = [convs EXCEPT ![turn.key] = [conv EXCEPT !.messages = one]]
    <2>1. Created = {nextMsg} BY <1>1, <1>8 DEF Created
    <2>2. one \in Seq(Message) /\ Extends(conv.messages, one, Created)
      BY <2>1, <1>5, <1>7, ExtendsByOne
    <2> HIDE DEF one
    <2>3. Conv' = [conv EXCEPT !.messages = one] BY <1>1, <1>2, <1>8 DEF Conv, Shape
    <2> QED BY <2>2, <2>3, <1>4 DEF Conversation
  <1>9. CASE nextMsg' = nextMsg + 2 /\ convs' = [convs EXCEPT ![turn.key] = [conv EXCEPT !.messages = two]]
    <2>1. Created = {nextMsg, nextMsg + 1} BY <1>1, <1>9 DEF Created
    <2>2. one \in Seq(Message) /\ Extends(conv.messages, one, Created)
      BY <2>1, <1>5, <1>7, ExtendsByOne
    <2>3. two \in Seq(Message) /\ Extends(conv.messages, two, Created)
      <3> HIDE DEF one
      <3> QED BY <2>1, <2>2, <1>5, <1>7, ExtendsByOne
    <2> HIDE DEF two
    <2>4. Conv' = [conv EXCEPT !.messages = two] BY <1>1, <1>2, <1>9 DEF Conv, Shape
    <2> QED BY <2>3, <2>4, <1>4 DEF Conversation
  <1> QED BY <1>6, <1>8, <1>9

\* A step of the turn that takes its conversation, its usage measured or not,
\* and puts other messages into it.
LEMMA ChatGrows ==
  ASSUME Shape, pc # "idle", NEW conv \in Measured(Conv), NEW new \in Seq(Message),
         convs' = [convs EXCEPT ![turn.key] = [conv EXCEPT !.messages = new]],
         Extends(Conv.messages, new, Created),
         disk' = disk, pc' # "idle", turn'.key = turn.key, turn'.heartbeat = turn.heartbeat,
         turn'.preTurnLen = turn.preTurnLen, turn'.older = turn.older
  PROVE  TurnGrows
  <1>0. PICK next : next = [conv EXCEPT !.messages = new] OBVIOUS
  <1>1. Conv \in Conversation /\ turn.key \in Keys BY DEF Shape, Turn
  <1>2. /\ next.messages = new /\ next.summary = Conv.summary /\ CarriesUsage(Conv, next)
    <2>1. conv \in Conversation BY <1>1, MeasuredType
    <2>2. /\ next.messages = new /\ next.summary = conv.summary
          /\ next.usage = conv.usage /\ next.usageIndex = conv.usageIndex
      BY <2>1, <1>0 DEF Conversation
    <2>3. conv.summary = Conv.summary /\ CarriesUsage(Conv, conv) BY <1>1, MeasuredCarries
    <2> QED BY <2>2, <2>3 DEF CarriesUsage
  <1>3. convs' = [convs EXCEPT ![turn.key] = next] BY <1>0
  <1>4. Conv' = next BY <1>1, <1>3 DEF Conv, Shape
  <1>5. SameTurn BY <1>3, <1>4 DEF SameTurn
  <1>6. Extends(Conv.messages, Conv'.messages, Created) BY <1>2, <1>4
  <1>7. Conv'.summary = Conv.summary /\ CarriesUsage(Conv, Conv') BY <1>2, <1>4
  <1> QED BY <1>5, <1>6, <1>7 DEF TurnGrows

\* So do all the steps of a turn that neither compact nor prune.
LEMMA TurnStepGrows ==
  ASSUME Shape,
         \/ OnlyMoves \/ ChatEmptyRetry \/ ChatReplies \/ ChatReplyFails
         \/ \E n \in 1 .. MaxCalls : ChatCallsTools(n)
         \/ \E size \in ToolTokens : RunTool(size)
  PROVE  TurnGrows
  <1>1. /\ turn \in Turn /\ turn.key \in Keys /\ nextMsg \in Nat \ {0}
        /\ convs \in [Keys -> Conversation \cup {NotLoaded}]
    BY DEF Shape, Turn
  <1>2. ASSUME pc # "idle"
        PROVE  /\ Conv \in Conversation /\ Conv.messages \in Seq(Message)
               /\ Extends(Conv.messages, Conv.messages, Created)
               /\ Conv \in Measured(Conv)
               /\ \A conv \in Measured(Conv) :
                     conv \in Conversation /\ conv.messages = Conv.messages
    <2>1. Conv \in Conversation BY <1>2 DEF Shape
    <2>2. Conv.messages \in Seq(Message) BY <2>1, HistoryFields
    <2>3. Conv \in Measured(Conv) BY DEF Measured
    <2> QED BY <2>1, <2>2, <2>3, ExtendsItself, MeasuredType
  <1>3. CASE OnlyMoves
    <2>1. /\ pc # "idle" /\ pc' # "idle" /\ convs' = convs /\ disk' = disk
          /\ turn' = turn /\ nextMsg' = nextMsg
      BY <1>3 DEF OnlyMoves
    <2>2. [Conv EXCEPT !.messages = Conv.messages] = Conv BY <2>1, <1>2 DEF Conversation
    <2>3. convs' = [convs EXCEPT ![turn.key] = [Conv EXCEPT !.messages = Conv.messages]]
      BY <2>1, <2>2, <1>1 DEF Conv
    <2> QED BY <2>1, <2>3, <1>2, ChatGrows
  <1>4. CASE ChatReplyFails
    <2>1. PICK conv \in Measured(Conv) : convs' = [convs EXCEPT ![turn.key] = conv]
      BY <1>4 DEF ChatReplyFails
    <2>2. pc # "idle" /\ pc' # "idle" /\ disk' = disk /\ turn' = turn
      BY <1>4 DEF ChatReplyFails
    <2>3. [conv EXCEPT !.messages = Conv.messages] = conv BY <2>2, <1>2 DEF Conversation
    <2> QED BY <2>1, <2>2, <2>3, <1>2, ChatGrows
  <1>5. CASE \E n \in 1 .. MaxCalls : ChatCallsTools(n)
    <2>1. PICK n \in 1 .. MaxCalls : ChatCallsTools(n) BY <1>5
    <2> DEFINE m == [Msg(nextMsg, "assistant") EXCEPT !.calls = n]
    <2>2. PICK conv \in Measured(Conv) :
             convs' = [convs EXCEPT ![turn.key] = [conv EXCEPT !.messages = Append(@, m)]]
      BY <2>1 DEF ChatCallsTools
    <2>3. /\ pc # "idle" /\ pc' # "idle" /\ disk' = disk /\ nextMsg' = nextMsg + 1
      BY <2>1 DEF ChatCallsTools
    <2>4. /\ turn'.key = turn.key /\ turn'.heartbeat = turn.heartbeat
          /\ turn'.preTurnLen = turn.preTurnLen /\ turn'.older = turn.older
      BY <2>1, <1>1, Zenon DEF ChatCallsTools, Turn
    <2>5. m \in Message /\ Says(m) \subseteq {nextMsg}
      <3>1. n \in Nat BY AgentTurnAssumption DEF AgentTurnAssumption
      <3>2. "assistant" \in Roles BY RolesAre
      <3>3. Msg(nextMsg, "assistant") \in Message BY <1>1, LoopMessages
      <3> QED BY <1>1, <3>1, <3>2, <3>3, MsgSays DEF Message
    <2> HIDE DEF m
    <2>6. Created = {nextMsg} BY <1>1, <2>3 DEF Created
    <2>7. /\ Append(Conv.messages, m) \in Seq(Message)
          /\ Extends(Conv.messages, Append(Conv.messages, m), Created)
      BY <1>2, <2>3, <2>5, <2>6, ExtendsByOne
    <2>8. convs' = [convs EXCEPT ![turn.key] = [conv EXCEPT !.messages = Append(Conv.messages, m)]]
      BY <1>2, <2>2, <2>3
    <2> QED BY <2>3, <2>4, <2>7, <2>8, ChatGrows
  <1>6. CASE ChatEmptyRetry
    <2> DEFINE one == Append(Conv.messages, Msg(nextMsg, "assistant"))
               two == Append(one, Msg(nextMsg + 1, "user"))
    <2>1. PICK conv \in Measured(Conv) :
            convs' = [convs EXCEPT ![turn.key] = [conv EXCEPT !.messages =
                         @ \o <<Msg(nextMsg, "assistant"), Msg(nextMsg + 1, "user")>>]]
      BY <1>6 DEF ChatEmptyRetry
    <2>2. /\ pc # "idle" /\ pc' # "idle" /\ disk' = disk /\ nextMsg' = nextMsg + 2
      BY <1>6 DEF ChatEmptyRetry
    <2>3. /\ turn'.key = turn.key /\ turn'.heartbeat = turn.heartbeat
          /\ turn'.preTurnLen = turn.preTurnLen /\ turn'.older = turn.older
      BY <1>6, <1>1, Zenon DEF ChatEmptyRetry, Turn
    <2>4. /\ Msg(nextMsg, "assistant") \in Message /\ Msg(nextMsg + 1, "user") \in Message
          /\ Says(Msg(nextMsg, "assistant")) \subseteq {nextMsg}
          /\ Says(Msg(nextMsg + 1, "user")) \subseteq {nextMsg + 1}
      BY <1>1, LoopMessages
    <2>5. two = Conv.messages \o <<Msg(nextMsg, "assistant"), Msg(nextMsg + 1, "user")>>
      BY <1>2, <2>2, <2>4, TwoAppends
    <2>6. Created = {nextMsg, nextMsg + 1} BY <1>1, <2>2 DEF Created
    <2>7. one \in Seq(Message) /\ Extends(Conv.messages, one, Created)
      BY <1>2, <2>2, <2>4, <2>6, ExtendsByOne
    <2>8. two \in Seq(Message) /\ Extends(Conv.messages, two, Created)
      <3> HIDE DEF one
      <3> QED BY <1>2, <2>2, <2>4, <2>6, <2>7, ExtendsByOne
    <2> HIDE DEF two
    <2>9. convs' = [convs EXCEPT ![turn.key] = [conv EXCEPT !.messages = two]]
      BY <1>2, <2>1, <2>2, <2>5
    <2> QED BY <2>2, <2>3, <2>8, <2>9, ChatGrows
  <1>7. CASE ChatReplies
    <2>1. pc = "chat" BY <1>7 DEF ChatReplies
    <2>2. PICK conv \in Measured(Conv) : Finish(conv, FALSE) BY <1>7 DEF ChatReplies
    <2>3. conv \in Conversation /\ conv.messages = Conv.messages BY <1>2, <2>1
    <2>4. /\ SameTurn
          /\ Extends(conv.messages, Conv'.messages, Created)
          /\ Conv'.summary = conv.summary /\ Conv'.usage = conv.usage
          /\ Conv'.usageIndex = conv.usageIndex
      BY <2>1, <2>2, <2>3, FinishGrows
    <2>5. conv.summary = Conv.summary /\ CarriesUsage(Conv, conv)
      BY <1>2, <2>1, MeasuredCarries
    <2> QED BY <2>3, <2>4, <2>5 DEF TurnGrows, CarriesUsage
  <1>8. CASE \E size \in ToolTokens : RunTool(size)
    <2>1. PICK size \in ToolTokens : RunTool(size) BY <1>8
    <2> DEFINE asked == Conv.messages[Max({i \in DOMAIN Conv.messages :
                                               Conv.messages[i].calls > 0})].id
    <2>2. PICK m : m = [id |-> nextMsg, role |-> "tool", calls |-> 0,
                        answers |-> asked, covers |-> {}, tokens |-> size]
      OBVIOUS
    <2>3. m \in Message BY <2>1, <2>2, RunToolShape
    <2>4. Says(m) \subseteq {nextMsg} BY <2>2, MsgSays
    <2>5. convs' = [convs EXCEPT ![turn.key].messages = Append(Conv.messages, m)]
      BY <2>1, <2>2 DEF RunTool, WithMessages
    <2> HIDE DEF asked
    <2>6. /\ pc = "tools" /\ pc' \in {"compact", "tools"} /\ disk' = disk
          /\ nextMsg' = nextMsg + 1 /\ turn' = [turn EXCEPT !.pending = @ - 1]
      BY <2>1 DEF RunTool
    <2>7. /\ turn'.key = turn.key /\ turn'.heartbeat = turn.heartbeat
          /\ turn'.preTurnLen = turn.preTurnLen /\ turn'.older = turn.older
      BY <2>6, <1>1 DEF Turn
    <2>8. Created = {nextMsg} BY <1>1, <2>6 DEF Created
    <2>9. /\ Append(Conv.messages, m) \in Seq(Message)
          /\ Extends(Conv.messages, Append(Conv.messages, m), Created)
      BY <1>2, <2>3, <2>4, <2>6, <2>8, ExtendsByOne
    <2>10. convs' = [convs EXCEPT ![turn.key] = [Conv EXCEPT !.messages = Append(Conv.messages, m)]]
      BY <2>5, <1>1 DEF Conv
    <2> QED BY <1>2, <2>6, <2>7, <2>9, <2>10, ChatGrows
  <1> QED BY <1>3, <1>4, <1>5, <1>6, <1>7, <1>8

-----------------------------------------------------------------------------
(* What a pruned turn takes with it.                                       *)

\* What the first n messages of a history know of.
KnownUpTo(ms, n) == UNION {Says(ms[i]) : i \in {j \in DOMAIN ms : j <= n}}

(***************************************************************************)
(* During a turn, what the conversation knew before it is known to the     *)
(* messages before preTurnLen: a compaction brings them to the front.      *)
(***************************************************************************)
OlderKept == pc # "idle" => turn.older \subseteq KnownUpTo(Conv.messages, turn.preTurnLen)

\* More messages at the end know no less at the front.
LEMMA ExtendsKnows ==
  ASSUME NEW ms \in Seq(Message), NEW new \in Seq(Message), NEW ids, NEW n \in Nat,
         Extends(ms, new, ids)
  PROVE  KnownUpTo(ms, n) \subseteq KnownUpTo(new, n)
  <1>1. DOMAIN ms = 1 .. Len(ms) /\ DOMAIN new = 1 .. Len(new)
        /\ Len(ms) \in Nat /\ Len(new) \in Nat
    BY MessagesOf
  <1>2. \A i \in DOMAIN ms : i \in DOMAIN new /\ new[i] = ms[i] BY <1>1 DEF Extends
  <1> QED BY <1>2 DEF KnownUpTo

\* A compaction moves nothing backwards, and the summary, behind the first
\* message, speaks for what it stands for.
LEMMA CompactKnows ==
  ASSUME NEW ms \in Seq(Message), NEW summary \in SUBSET Nat, Compactable(ms), NEW n \in Nat
  PROVE  KnownUpTo(ms, n) \subseteq KnownUpTo(Compact(ms, summary), n)
  <1>1. PICK kept \in Seq(Message), cut \in Nat :
          /\ kept = Compact(ms, summary) /\ cut = CutOf(ms)
          /\ Len(kept) = Len(ms) - cut + 3 /\ cut \in 3 .. Len(ms)
          /\ kept[1] = ms[1]
          /\ kept[2] = SyntheticSummaryMessage(Summarize(ms, summary))
          /\ \A i \in 3 .. Len(kept) : kept[i] = ms[cut + i - 3]
    <2>1. PICK cut : cut = CutOf(ms) OBVIOUS
    <2>2. PICK kept : kept = Compact(ms, summary) OBVIOUS
    <2>3. cut \in 3 .. Len(ms) BY <2>1, SummarizeType
    <2>4. cut \in Nat
      <3>1. PICK l \in Nat : l = Len(ms) BY LenProperties
      <3> QED BY <3>1, <2>3
    <2>5. /\ kept \in Seq(Message)
          /\ Len(kept) = Len(ms) - cut + 3
          /\ kept[1] = ms[1]
          /\ kept[2] = SyntheticSummaryMessage(Summarize(ms, summary))
          /\ \A i \in 3 .. Len(kept) : kept[i] = ms[cut + i - 3]
      BY <2>1, <2>2, CompactShape
    <2> QED BY <2>1, <2>2, <2>3, <2>4, <2>5
  <1>2. PICK l \in Nat : l = Len(ms) /\ DOMAIN ms = 1 .. l /\ DOMAIN kept = 1 .. l - cut + 3
    BY <1>1, MessagesOf
  <1> SUFFICES ASSUME NEW i \in DOMAIN ms, i <= n, NEW id \in Says(ms[i])
               PROVE  id \in KnownUpTo(kept, n)
    BY <1>1 DEF KnownUpTo
  <1>3. CASE i = 1
    <2>1. 1 \in DOMAIN kept /\ 1 <= n BY <1>1, <1>2, <1>3
    <2> QED BY <2>1, <1>1, <1>3 DEF KnownUpTo
  <1>4. CASE i \in 2 .. cut - 1
    <2>1. id \in Known(SubSeq(ms, 2, cut - 1))
      <3>1. PICK dropped \in Seq(Message) :
               /\ dropped = SubSeq(ms, 2, cut - 1) /\ Len(dropped) = cut - 2
               /\ \A j \in 1 .. cut - 2 : dropped[j] = ms[j + 1]
        <4>1. \A j \in 2 .. cut - 1 : ms[j] \in Message BY <1>1, <1>2, MessagesOf
        <4>2. /\ SubSeq(ms, 2, cut - 1) \in Seq(Message)
              /\ Len(SubSeq(ms, 2, cut - 1)) = cut - 2
              /\ \A j \in 1 .. cut - 2 : SubSeq(ms, 2, cut - 1)[j] = ms[2 + j - 1]
          BY <1>1, <4>1, SubSeqProperties
        <4>3. \A j \in 1 .. cut - 2 : 2 + j - 1 = j + 1 OBVIOUS
        <4> QED BY <4>2, <4>3
      <3>2. i - 1 \in DOMAIN dropped /\ dropped[i - 1] = ms[i]
        <4>1. DOMAIN dropped = 1 .. cut - 2 BY <3>1, MessagesOf
        <4>2. i - 1 \in 1 .. cut - 2 /\ (i - 1) + 1 = i BY <1>1, <1>4
        <4> QED BY <3>1, <4>1, <4>2
      <3> QED BY <3>1, <3>2 DEF Known
    <2>2. id \in Says(kept[2])
      BY <2>1, <1>1 DEF Says, SyntheticSummaryMessage, Summarize
    <2>3. 2 \in DOMAIN kept /\ 2 <= n BY <1>1, <1>2, <1>4
    <2> QED BY <2>2, <2>3 DEF KnownUpTo
  <1>5. CASE i >= cut
    <2>1. PICK j \in DOMAIN kept : j = i - cut + 3 /\ j <= i BY <1>1, <1>2, <1>5
    <2>2. kept[j] = ms[i]
      <3>1. j \in 3 .. Len(kept) /\ cut + j - 3 = i BY <2>1, <1>1, <1>2, <1>5
      <3> QED BY <3>1, <1>1
    <2>3. j <= n BY <2>1, <1>2
    <2> QED BY <2>2, <2>3 DEF KnownUpTo
  <1> QED BY <1>2, <1>3, <1>4, <1>5, <1>1

\* A prune takes nothing before preTurnLen.
LEMMA PrunedKnows ==
  ASSUME NEW ms \in Seq(Message), turn \in Turn
  PROVE  KnownUpTo(ms, turn.preTurnLen) \subseteq KnownUpTo(Pruned(ms), turn.preTurnLen)
  <1>1. PICK n \in Nat : n = turn.preTurnLen BY DEF Turn
  <1>2. PICK l \in Nat : l = Len(ms) /\ DOMAIN ms = 1 .. l BY MessagesOf
  <1>3. CASE n <= l
    <2>1. \A i \in 1 .. n : ms[i] \in Message BY <1>2, <1>3, MessagesOf
    <2>2. PICK short \in Seq(Message) :
            /\ short = SubSeq(ms, 1, n) /\ Len(short) = n
            /\ \A i \in 1 .. n : short[i] = ms[i]
      <3>1. PICK short : short = SubSeq(ms, 1, n) OBVIOUS
      <3>2. /\ short \in Seq(Message)
            /\ Len(short) = IF 1 <= n THEN n - 1 + 1 ELSE 0
            /\ \A i \in 1 .. n - 1 + 1 : short[i] = ms[1 + i - 1]
        BY <2>1, <3>1, SubSeqProperties
      <3>3. Len(short) = n BY <3>2
      <3>4. \A i \in 1 .. n : short[i] = ms[i]
        <4> TAKE i \in 1 .. n
        <4>1. i \in 1 .. n - 1 + 1 /\ 1 + i - 1 = i OBVIOUS
        <4> QED BY <3>2, <4>1
      <3> QED BY <3>1, <3>2, <3>3, <3>4
    <2>3. Pruned(ms) = short BY <1>1, <1>2, <1>3, <2>2 DEF Pruned
    <2>4. DOMAIN short = 1 .. n BY <2>2, MessagesOf
    <2>5. \A i \in DOMAIN ms : i <= n => i \in DOMAIN short /\ short[i] = ms[i]
      BY <1>2, <2>2, <2>4
    <2> QED BY <1>1, <2>3, <2>5 DEF KnownUpTo
  <1>4. CASE ~(n <= l)
    <2> DEFINE zeros == [i \in 1 .. n - l |-> ZeroMessage]
    <2>1. zeros \in Seq(Message)
      <3>1. n - l \in Nat BY <1>4
      <3>2. zeros \in [1 .. n - l -> Message] BY ZeroMessageType
      <3> HIDE DEF zeros
      <3> QED BY <3>1, <3>2, SeqDef
    <2>2. Pruned(ms) = ms \o zeros BY <1>1, <1>2, <1>4 DEF Pruned
    <2> HIDE DEF zeros
    <2>3. PICK long \in Seq(Message) :
            /\ long = ms \o zeros /\ Len(long) = l + Len(zeros)
            /\ \A i \in 1 .. l : long[i] = ms[i]
      <3>1. PICK z \in Nat : z = Len(zeros) BY <2>1, LenProperties
      <3>2. PICK long : long = ms \o zeros OBVIOUS
      <3>3. /\ long \in Seq(Message) /\ Len(long) = l + z
            /\ \A i \in 1 .. l + z : long[i] = IF i <= l THEN ms[i] ELSE zeros[i - l]
        BY <1>2, <2>1, <3>1, <3>2, ConcatProperties
      <3>4. \A i \in 1 .. l : long[i] = ms[i] BY <3>3
      <3> QED BY <3>1, <3>2, <3>3, <3>4
    <2>4. \A i \in DOMAIN ms : i \in DOMAIN long
      <3>1. PICK z \in Nat : z = Len(zeros) BY <2>1, LenProperties
      <3>2. DOMAIN long = 1 .. l + z BY <2>3, <3>1, MessagesOf
      <3> QED BY <3>2, <1>2
    <2> QED BY <1>2, <2>2, <2>3, <2>4 DEF KnownUpTo
  <1> QED BY <1>3, <1>4

\* Every step keeps what the turn found.
LEMMA OlderStep == Shape /\ OlderKept /\ [Next]_vars => OlderKept'
  <1> SUFFICES ASSUME Shape, OlderKept, [Next]_vars, pc' # "idle"
               PROVE  turn'.older \subseteq KnownUpTo(Conv'.messages, turn'.preTurnLen)
    BY DEF OlderKept
  <1>1. turn \in Turn /\ turn.preTurnLen \in Nat /\ nextMsg \in Nat \ {0}
    BY DEF Shape, Turn
  <1>2. Shape' BY ShapeStep
  <1>3. Conv'.messages \in Seq(Message) BY <1>2, HistoryFields DEF Shape
  <1>4. pc # "idle" =>
          Conv \in Conversation /\ turn.older \subseteq KnownUpTo(Conv.messages, turn.preTurnLen)
    BY DEF Shape, OlderKept
  <1>5. CASE \E k \in Keys, heartbeat \in BOOLEAN :
                 Receive(k, heartbeat) \/ ReceiveResetWithBody(k)
    <2>1. PICK k \in Keys, conv \in Conversation, h \in BOOLEAN :
            StartTurn(k, h, conv) /\ disk' \in [Paths -> Conversation \cup {NotLoaded}]
      BY <1>5, TurnStarts
    <2>2. turn'.older = Known(conv.messages) /\ turn'.preTurnLen = Len(conv.messages)
      BY <2>1, Zenon, IdleType DEF StartTurn, PreTurnLen, Turn
    <2>3. Conv' = Opened(conv)
      <3>1. turn'.key = k BY <2>1, StartTurnShape
      <3>2. convs' = [convs EXCEPT ![k] = Opened(conv)] BY <2>1 DEF StartTurn
      <3> QED BY <3>1, <3>2 DEF Conv, Shape
    <2>4. PICK before \in Seq(Message) :
            /\ before = IF conv.messages = <<>> THEN <<SystemPrompt>> ELSE conv.messages
            /\ Opened(conv).messages = Append(before, Msg(nextMsg, "user"))
      <3>1. PICK b : b = IF conv.messages = <<>> THEN <<SystemPrompt>> ELSE conv.messages
        OBVIOUS
      <3> QED BY <3>1, <1>1, OpenedType
    <2>5. conv.messages \in Seq(Message) BY HistoryFields
    <2>6. CASE conv.messages = <<>>
      <3>1. Known(<<>>) = {} BY DEF Known
      <3> QED BY <2>2, <2>6, <3>1
    <2>7. CASE conv.messages # <<>>
      <3>1. Msg(nextMsg, "user") \in Message BY <1>1, LoopMessages
      <3>2. Extends(conv.messages, Conv'.messages, Says(Msg(nextMsg, "user")))
        BY <2>3, <2>4, <2>5, <2>7, <3>1, ExtendsItself, ExtendsByOne
      <3>3. Len(conv.messages) \in Nat BY <2>5, MessagesOf
      <3>4. KnownUpTo(conv.messages, Len(conv.messages))
              \subseteq KnownUpTo(Conv'.messages, Len(conv.messages))
        BY <1>3, <2>5, <3>2, <3>3, ExtendsKnows
      <3>5. Known(conv.messages) = KnownUpTo(conv.messages, Len(conv.messages))
        BY <2>5, MessagesOf DEF Known, KnownUpTo
      <3> QED BY <2>2, <3>4, <3>5
    <2> QED BY <2>6, <2>7
  <1>6. CASE \E k \in Keys : ReceiveResetOnly(k) BY <1>6 DEF ReceiveResetOnly
  <1>7. CASE TurnGrows
    <2>1. /\ pc # "idle" /\ turn'.older = turn.older /\ turn'.preTurnLen = turn.preTurnLen
          /\ Extends(Conv.messages, Conv'.messages, Created)
      BY <1>7 DEF TurnGrows, SameTurn
    <2>2. Conv.messages \in Seq(Message) BY <1>4, <2>1, HistoryFields
    <2> QED BY <2>1, <2>2, <1>1, <1>3, <1>4, ExtendsKnows
  <1>8. CASE CompactHistory
    <2>1. /\ Conv \in Conversation /\ Compactable(Conv.messages) /\ pc = "compact"
          /\ Conv'.messages = Compact(Conv.messages, Conv.summary)
      BY <1>8, CompactHistoryShape
    <2>2. turn'.older = turn.older /\ turn'.preTurnLen = turn.preTurnLen
      BY <1>8, <1>1 DEF CompactHistory, ResetAfterCompaction, Turn
    <2>3. Conv.messages \in Seq(Message) /\ Conv.summary \in SUBSET Nat
      BY <2>1, HistoryFields
    <2> QED BY <2>1, <2>2, <2>3, <1>1, <1>4, CompactKnows
  <1>9. CASE ChatAcknowledges
    <2>1. pc = "chat" BY <1>9 DEF ChatAcknowledges
    <2>2. PICK conv \in Measured(Conv) :
             Finish([conv EXCEPT !.messages = Pruned(conv.messages)], TRUE)
      BY <1>9 DEF ChatAcknowledges
    <2>3. conv \in Conversation /\ conv.messages = Conv.messages BY <1>4, <2>1, MeasuredType
    <2>4. Pruned(Conv.messages) \in Seq(Message) /\ Conv.messages \in Seq(Message)
      BY <1>1, <1>4, <2>1, HistoryFields, PrunedType
    <2>5. PICK next \in Conversation : Finish(next, TRUE) /\ next.messages = Pruned(Conv.messages)
      BY <2>2, <2>3, <2>4, WithMessagesType
    <2>6. SameTurn /\ Extends(next.messages, Conv'.messages, Created)
      BY <2>1, <2>5, FinishGrows
    <2>7. /\ KnownUpTo(Conv.messages, turn.preTurnLen)
                \subseteq KnownUpTo(next.messages, turn.preTurnLen)
          /\ KnownUpTo(next.messages, turn.preTurnLen)
                \subseteq KnownUpTo(Conv'.messages, turn.preTurnLen)
      BY <2>4, <2>5, <2>6, <1>1, <1>3, PrunedKnows, ExtendsKnows
    <2> QED BY <2>1, <2>6, <2>7, <1>4 DEF SameTurn
  <1>10. CASE Save \/ SaveFails \/ Restart BY <1>10 DEF Save, SaveFails, Restart
  <1>11. CASE UNCHANGED vars BY <1>11, <1>4 DEF vars, Conv
  <1> QED BY <1>5, <1>6, <1>7, <1>8, <1>9, <1>10, <1>11, StepCases, TurnStepGrows

\* A turn that is pruned takes nothing with it that the conversation knew
\* before the turn, not even after compactions, for every window, cut, fault
\* and set of heartbeat keys (process: conv.Messages[:preTurnLen]).
THEOREM PruneSparesOlder == Spec => []PruneKeepsOlderHistory
  <1>1. Init => Shape /\ OlderKept
    <2>1. Init => OlderKept BY DEF Init, OlderKept
    <2> QED BY <2>1, InitShape
  <1>2. (Shape /\ OlderKept) /\ [Next]_vars => (Shape /\ OlderKept)'
    BY ShapeStep, OlderStep
  <1>3. OlderKept => PruneKeepsOlderHistory
    <2>1. KnownUpTo(Conv.messages, turn.preTurnLen) \subseteq Known(Conv.messages)
      BY DEF KnownUpTo, Known
    <2> QED BY <2>1 DEF OlderKept, PruneKeepsOlderHistory
  <1> QED BY <1>1, <1>2, <1>3, PTL DEF Spec

-----------------------------------------------------------------------------
(* What a conversation counts and owes, where no heartbeat prunes it.      *)

\* The usage was measured on the first usageIndex messages.
Covers(conv) ==
    \/ conv.usage = NoUsage
    \/ /\ conv.usageIndex = Len(conv.usage.prompt)
       /\ conv.usageIndex <= Len(conv.messages)
       /\ \A i \in 1 .. conv.usageIndex : conv.messages[i] = conv.usage.prompt[i]

\* What was summarized is in the messages: the next summary includes it.
Owns(conv) == conv.summary \subseteq Known(conv.messages)

Whole(conv) == Covers(conv) /\ Owns(conv)

AllWhole ==
    /\ \A k \in Keys : convs[k] # NotLoaded => Whole(convs[k])
    /\ \A p \in Paths : disk[p] # NotLoaded => Whole(disk[p])

\* A fresh conversation counts nothing and owes nothing.
LEMMA EmptyWhole == Whole(EmptyConversation)
  BY DEF EmptyConversation, Whole, Covers, Owns

\* An extended history knows what it knew, and the ids that were added.
LEMMA ExtendedKnown ==
  ASSUME NEW ms \in Seq(Message), NEW new \in Seq(Message), NEW ids, Extends(ms, new, ids)
  PROVE  Known(ms) \subseteq Known(new) /\ Known(new) \ Known(ms) \subseteq ids
  <1>1. PICK k \in Nat : k = Len(ms) /\ DOMAIN ms = 1 .. k BY MessagesOf
  <1>2. PICK n \in Nat : n = Len(new) /\ DOMAIN new = 1 .. n BY MessagesOf
  <1>3. /\ k <= n /\ \A i \in 1 .. k : new[i] = ms[i]
        /\ \A i \in k + 1 .. n : Says(new[i]) \subseteq ids
    BY <1>1, <1>2 DEF Extends
  <1>4. Known(ms) \subseteq Known(new)
    <2>1. \A i \in 1 .. k : i \in 1 .. n /\ new[i] = ms[i] BY <1>3
    <2> QED BY <2>1, <1>1, <1>2 DEF Known
  <1>5. \A i \in 1 .. n : Says(new[i]) \subseteq ids \/ (i \in 1 .. k /\ new[i] = ms[i])
    <2> TAKE i \in 1 .. n
    <2>1. i \in 1 .. k \/ i \in k + 1 .. n BY <1>3
    <2> QED BY <2>1, <1>3
  <1> QED BY <1>1, <1>2, <1>4, <1>5 DEF Known

\* A conversation that grew still counts and owes what it did.
LEMMA GrownWhole ==
  ASSUME NEW conv \in Conversation, NEW next \in Conversation, NEW ids, Whole(conv),
         Extends(conv.messages, next.messages, ids),
         next.summary = conv.summary, CarriesUsage(conv, next)
  PROVE  Whole(next)
  <1>1. conv.messages \in Seq(Message) /\ next.messages \in Seq(Message) BY HistoryFields
  <1>2. Owns(next) BY <1>1, ExtendedKnown DEF Whole, Owns
  <1>3. PICK k \in Nat : k = Len(conv.messages) BY <1>1, LenProperties
  <1>4. PICK n \in Nat : n = Len(next.messages) BY <1>1, LenProperties
  <1>5. k <= n /\ \A i \in 1 .. k : next.messages[i] = conv.messages[i]
    BY <1>3, <1>4 DEF Extends
  <1>6. CASE next.usage = conv.usage /\ next.usageIndex = conv.usageIndex
    <2>1. ASSUME conv.usage = NoUsage PROVE Covers(next) BY <2>1, <1>6 DEF Covers
    <2>2. ASSUME conv.usage # NoUsage PROVE Covers(next)
      <3>1. PICK u \in Nat : u = conv.usageIndex BY DEF Conversation
      <3>2. /\ u = Len(conv.usage.prompt) /\ u <= k
            /\ \A i \in 1 .. u : conv.messages[i] = conv.usage.prompt[i]
        BY <2>2, <3>1, <1>3 DEF Whole, Covers
      <3>3. u <= n BY <3>2, <1>5
      <3>4. \A i \in 1 .. u : next.messages[i] = conv.usage.prompt[i]
        <4>1. \A i \in 1 .. u : i \in 1 .. k BY <3>2
        <4> QED BY <4>1, <3>2, <1>5
      <3> QED BY <3>1, <3>2, <3>3, <3>4, <1>4, <1>6 DEF Covers
    <2>3. Covers(next) BY <2>1, <2>2
    <2> QED BY <2>3, <1>2 DEF Whole
  <1>7. CASE next.usage.prompt = conv.messages /\ next.usageIndex = Len(conv.messages)
    <2>1. Covers(next) BY <1>3, <1>4, <1>5, <1>7 DEF Covers
    <2> QED BY <2>1, <1>2 DEF Whole
  <1> QED BY <1>6, <1>7 DEF CarriesUsage

\* HandleTurn's preamble adds the user's message, and a prompt that says nothing.
LEMMA OpenedGrows ==
  ASSUME NEW conv \in Conversation, nextMsg \in Nat \ {0}
  PROVE  /\ Opened(conv) \in Conversation
         /\ Extends(conv.messages, Opened(conv).messages, {nextMsg})
         /\ Opened(conv).summary = conv.summary /\ CarriesUsage(conv, Opened(conv))
  <1>1. PICK before : before = IF conv.messages = <<>> THEN <<SystemPrompt>> ELSE conv.messages
    OBVIOUS
  <1>2. /\ before \in Seq(Message) /\ Opened(conv) \in Conversation
        /\ Opened(conv).messages = Append(before, Msg(nextMsg, "user"))
    BY <1>1, OpenedType
  <1>3. /\ Opened(conv).summary = conv.summary /\ Opened(conv).usage = conv.usage
        /\ Opened(conv).usageIndex = conv.usageIndex
    BY DEF Opened, Conversation
  <1>4. conv.messages \in Seq(Message) BY HistoryFields
  <1>5. Extends(conv.messages, before, {nextMsg})
    <2>1. CASE conv.messages = <<>>
      <3>1. PICK one : one = <<SystemPrompt>> OBVIOUS
      <3>2. Len(one) = 1 /\ one[1] = SystemPrompt BY <3>1
      <3>3. Says(one[1]) \subseteq {nextMsg} BY <3>2, MsgSays
      <3>4. Len(<<>>) = 0 OBVIOUS
      <3> QED BY <2>1, <1>1, <3>1, <3>2, <3>3, <3>4 DEF Extends
    <2>2. CASE conv.messages # <<>> BY <2>2, <1>1, <1>4, ExtendsItself
    <2> QED BY <2>1, <2>2
  <1>6. Msg(nextMsg, "user") \in Message /\ Says(Msg(nextMsg, "user")) \subseteq {nextMsg}
    BY LoopMessages
  <1>7. Extends(conv.messages, Opened(conv).messages, {nextMsg})
    BY <1>2, <1>4, <1>5, <1>6, ExtendsByOne
  <1> QED BY <1>2, <1>3, <1>7 DEF CarriesUsage

\* A compaction resets the count, and knows what was known, in the summary or
\* in the tail.
LEMMA CompactedKnown ==
  ASSUME NEW ms \in Seq(Message), NEW summary \in SUBSET Nat, Compactable(ms),
         summary \subseteq Known(ms)
  PROVE  /\ Known(Compact(ms, summary)) = Known(ms)
         /\ Summarize(ms, summary) \subseteq Known(Compact(ms, summary))
  <1>1. PICK cut : cut = CutOf(ms) OBVIOUS
  <1>2. PICK kept : kept = Compact(ms, summary) OBVIOUS
  <1>3. PICK l \in Nat : l = Len(ms) /\ DOMAIN ms = 1 .. l BY MessagesOf
  <1>4. cut \in 3 .. l /\ cut \in Nat
    <2>1. cut \in 3 .. l BY <1>1, <1>3, SummarizeType
    <2> QED BY <2>1
  <1>5. /\ kept \in Seq(Message) /\ Len(kept) = l - cut + 3 /\ kept[1] = ms[1]
        /\ kept[2] = SyntheticSummaryMessage(Summarize(ms, summary))
        /\ \A i \in 3 .. Len(kept) : kept[i] = ms[cut + i - 3]
    BY <1>1, <1>2, <1>3, CompactShape
  <1>6. DOMAIN kept = 1 .. l - cut + 3 BY <1>5, MessagesOf
  <1>7. Says(kept[2]) = Summarize(ms, summary)
    BY <1>5 DEF Says, SyntheticSummaryMessage
  <1>8. Summarize(ms, summary) \subseteq Known(kept)
    <2>1. 2 \in DOMAIN kept BY <1>4, <1>6
    <2> QED BY <2>1, <1>7 DEF Known
  <1>9. Known(ms) \subseteq Known(kept)
    <2>1. KnownUpTo(ms, l) \subseteq KnownUpTo(kept, l) BY <1>2, CompactKnows
    <2>2. Known(ms) \subseteq KnownUpTo(ms, l) BY <1>3 DEF Known, KnownUpTo
    <2>3. KnownUpTo(kept, l) \subseteq Known(kept) BY DEF Known, KnownUpTo
    <2> QED BY <2>1, <2>2, <2>3
  <1>10. Known(kept) \subseteq Known(ms)
    <2> SUFFICES ASSUME NEW i \in DOMAIN kept, NEW id \in Says(kept[i]) PROVE id \in Known(ms)
      BY DEF Known
    <2>1. CASE i = 1
      <3>1. 1 \in DOMAIN ms BY <1>3, <1>4
      <3> QED BY <3>1, <2>1, <1>5 DEF Known
    <2>2. CASE i = 2
      <3>1. id \in summary \/ id \in Known(SubSeq(ms, 2, cut - 1))
        BY <2>2, <1>1, <1>7 DEF Summarize
      <3>2. ASSUME id \in Known(SubSeq(ms, 2, cut - 1)) PROVE id \in Known(ms)
        <4>1. PICK dropped : dropped = SubSeq(ms, 2, cut - 1) OBVIOUS
        <4>2. \A j \in 2 .. cut - 1 : ms[j] \in Message BY <1>3, <1>4, MessagesOf
        <4>3. /\ dropped \in Seq(Message)
              /\ Len(dropped) = IF 2 <= cut - 1 THEN cut - 1 - 2 + 1 ELSE 0
              /\ \A j \in 1 .. cut - 1 - 2 + 1 : dropped[j] = ms[2 + j - 1]
          BY <1>4, <4>1, <4>2, SubSeqProperties
        <4>4. DOMAIN dropped = 1 .. cut - 2 BY <4>3, <1>4, MessagesOf
        <4>5. PICK j \in DOMAIN dropped : id \in Says(dropped[j]) BY <3>2, <4>1 DEF Known
        <4>6. dropped[j] = ms[2 + j - 1] /\ 2 + j - 1 \in DOMAIN ms
          BY <4>3, <4>4, <1>3, <1>4
        <4> QED BY <4>5, <4>6 DEF Known
      <3> QED BY <3>1, <3>2
    <2>3. CASE i \in 3 .. Len(kept)
      <3>1. kept[i] = ms[cut + i - 3] BY <2>3, <1>5
      <3>2. cut + i - 3 \in 1 .. l BY <2>3, <1>4, <1>5
      <3> QED BY <3>1, <3>2, <1>3 DEF Known
    <2> QED BY <2>1, <2>2, <2>3, <1>4, <1>5, <1>6
  <1> QED BY <1>2, <1>8, <1>9, <1>10

\* A compacted conversation is whole.
LEMMA CompactedWhole ==
  ASSUME NEW conv \in Conversation, Whole(conv), Compactable(conv.messages)
  PROVE  Whole(Compacted(conv))
  <1>1. conv.messages \in Seq(Message) /\ conv.summary \in SUBSET Nat BY HistoryFields
  <1>2. Compacted(conv).messages = Compact(conv.messages, conv.summary) BY DEF Compacted
  <1>3. /\ Compacted(conv).summary = Summarize(conv.messages, conv.summary)
        /\ Compacted(conv).usage = NoUsage
    BY DEF Compacted
  <1>4. Summarize(conv.messages, conv.summary) \subseteq Known(Compact(conv.messages, conv.summary))
    BY <1>1, CompactedKnown DEF Whole, Owns
  <1> QED BY <1>2, <1>3, <1>4 DEF Whole, Covers, Owns

\* What a turn starts from is whole, as are the files a reset leaves.
LEMMA StartsWhole ==
  ASSUME Shape, AllWhole, NEW k \in Keys, NEW heartbeat \in BOOLEAN,
         Receive(k, heartbeat) \/ ReceiveResetWithBody(k)
  PROVE  AllWhole'
  <1>1. PICK conv \in Conversation, h \in BOOLEAN :
            /\ StartTurn(k, h, conv)
            /\ \/ conv \in Get(k) /\ disk' = disk
               \/ conv = EmptyConversation /\ RemoveFile(k)
    BY TurnStarts
  <1>2. /\ nextMsg \in Nat \ {0} /\ convs \in [Keys -> Conversation \cup {NotLoaded}]
        /\ disk \in [Paths -> Conversation \cup {NotLoaded}]
    BY DEF Shape
  <1>3. Whole(conv)
    <2>1. CASE conv = EmptyConversation BY <2>1, EmptyWhole
    <2>2. CASE conv \in Get(k) /\ conv # EmptyConversation
      <3>1. CASE convs[k] # NotLoaded
        <4>1. conv = convs[k] BY <2>2, <3>1 DEF Get
        <4> QED BY <3>1, <4>1 DEF AllWhole
      <3>2. CASE convs[k] = NotLoaded
        <4>1. conv = disk[HistoryPath(k)] /\ disk[HistoryPath(k)] # NotLoaded
          BY <2>2, <3>2 DEF Get, LoadHistory
        <4> QED BY <4>1, PathOf DEF AllWhole
      <3> QED BY <3>1, <3>2
    <2> QED BY <1>1, <2>1, <2>2
  <1>4. Whole(Opened(conv)) BY <1>2, <1>3, OpenedGrows, GrownWhole
  <1>5. convs' = [convs EXCEPT ![k] = Opened(conv)] BY <1>1 DEF StartTurn
  <1>6. \A j \in Keys : convs'[j] # NotLoaded => Whole(convs'[j])
    BY <1>2, <1>4, <1>5 DEF AllWhole
  <1>7. \A p \in Paths : disk'[p] # NotLoaded => Whole(disk'[p])
    BY <1>1, <1>2 DEF AllWhole, RemoveFile
  <1> QED BY <1>6, <1>7 DEF AllWhole

\* A step that sets the conversation of the turn to a whole one.
LEMMA WholeTurnStep ==
  ASSUME Shape, AllWhole, disk' = disk, convs' = [convs EXCEPT ![turn.key] = Conv'],
         Whole(Conv')
  PROVE  AllWhole'
  <1>1. convs \in [Keys -> Conversation \cup {NotLoaded}] /\ turn.key \in Keys
    BY DEF Shape, Turn
  <1>2. PICK next : next = Conv' OBVIOUS
  <1>3. \A k \in Keys : convs'[k] = IF k = turn.key THEN next ELSE convs[k]
    BY <1>1, <1>2
  <1>4. \A k \in Keys : convs'[k] # NotLoaded => Whole(convs'[k])
    BY <1>2, <1>3 DEF AllWhole
  <1>5. \A p \in Paths : disk'[p] # NotLoaded => Whole(disk'[p]) BY DEF AllWhole
  <1> QED BY <1>4, <1>5 DEF AllWhole

\* Every step that does not prune leaves the conversations whole.
LEMMA WholeStep ==
  ASSUME Shape, ~turn.heartbeat, AllWhole, [Next]_vars
  PROVE  AllWhole'
  <1>1. Shape' BY ShapeStep
  <1>2. /\ convs \in [Keys -> Conversation \cup {NotLoaded}] /\ turn.key \in Keys
        /\ disk \in [Paths -> Conversation \cup {NotLoaded}]
    BY DEF Shape, Turn
  <1>3. pc # "idle" => Conv \in Conversation /\ Whole(Conv)
    <2> SUFFICES ASSUME pc # "idle" PROVE Conv \in Conversation /\ Whole(Conv) OBVIOUS
    <2>1. Conv \in Conversation BY DEF Shape
    <2>2. Conv # NotLoaded BY <2>1, AgentTurnAssumption DEF AgentTurnAssumption
    <2> QED BY <1>2, <2>1, <2>2 DEF AllWhole, Conv
  <1>4. CASE \E k \in Keys, heartbeat \in BOOLEAN :
                 Receive(k, heartbeat) \/ ReceiveResetWithBody(k)
    BY <1>4, StartsWhole
  <1>5. CASE \E k \in Keys : ReceiveResetOnly(k)
    <2>1. PICK k \in Keys : convs' = [convs EXCEPT ![k] = EmptyConversation] /\ RemoveFile(k)
      BY <1>5 DEF ReceiveResetOnly
    <2>2. \A j \in Keys : convs'[j] # NotLoaded => Whole(convs'[j])
      BY <1>2, <2>1, EmptyWhole DEF AllWhole
    <2>3. \A p \in Paths : disk'[p] # NotLoaded => Whole(disk'[p])
      BY <1>2, <2>1 DEF AllWhole, RemoveFile
    <2> QED BY <2>2, <2>3 DEF AllWhole
  <1>6. CASE TurnGrows
    <2>1. /\ pc # "idle" /\ pc' # "idle" /\ disk' = disk
          /\ convs' = [convs EXCEPT ![turn.key] = Conv']
          /\ Extends(Conv.messages, Conv'.messages, Created)
          /\ Conv'.summary = Conv.summary /\ CarriesUsage(Conv, Conv')
      BY <1>6 DEF TurnGrows, SameTurn
    <2>2. Conv' \in Conversation BY <1>1, <2>1 DEF Shape
    <2>3. Whole(Conv') BY <1>3, <2>1, <2>2, GrownWhole
    <2> QED BY <2>1, <2>3, WholeTurnStep
  <1>7. CASE CompactHistory
    <2>1. /\ pc = "compact" /\ disk' = disk
          /\ convs' = [convs EXCEPT ![turn.key] = Conv'] /\ Compactable(Conv.messages)
          /\ turn'.key = turn.key
      BY <1>7, CompactHistoryShape
    <2>2. convs' = [convs EXCEPT ![turn.key] = Compacted(Conv)]
      BY <1>7 DEF CompactHistory, Conv
    <2>3. Conv' = Compacted(Conv) BY <1>2, <2>1, <2>2 DEF Conv
    <2>4. Whole(Conv') BY <1>3, <2>1, <2>3, CompactedWhole
    <2> QED BY <2>1, <2>4, WholeTurnStep
  <1>8. CASE ChatAcknowledges BY <1>8 DEF ChatAcknowledges
  <1>9. CASE Save
    <2>1. /\ Whole(Conv) /\ convs' = convs
          /\ disk' = [disk EXCEPT ![HistoryPath(turn.key)] = Conv]
      BY <1>3, <1>9 DEF Save
    <2> QED BY <1>2, <2>1 DEF AllWhole
  <1>10. CASE SaveFails BY <1>10 DEF SaveFails, AllWhole
  <1>11. CASE Restart
    <2>1. disk' = disk /\ \A k \in Keys : convs'[k] = NotLoaded BY <1>11 DEF Restart
    <2> QED BY <2>1 DEF AllWhole
  <1>12. CASE UNCHANGED vars BY <1>12 DEF vars, AllWhole
  <1> QED BY <1>4, <1>5, <1>6, <1>7, <1>8, <1>9, <1>10, <1>11, <1>12, StepCases,
             TurnStepGrows

\* So they are whole in every state.
LEMMA WholeAlways ==
  ASSUME HeartbeatKeys = {}
  PROVE  Spec => [](Shape /\ AllWhole)
  <1>1. Init => AllWhole BY DEF Init, AllWhole
  <1>2. Shape /\ WellKept /\ AllWhole /\ [Next]_vars => AllWhole'
    BY WholeStep DEF WellKept
  <1> QED BY <1>1, <1>2, WellKeptAlways, PTL DEF Spec

\* Where no heartbeat prunes, the usage a conversation keeps was measured on
\* the very prefix that EstimateContextTokens lets it stand for, through every
\* compaction, reset, hydration, failed turn and crash (agentLoop, Store).
THEOREM UsageCoversWithoutHeartbeats ==
  ASSUME HeartbeatKeys = {}
  PROVE  Spec => []UsageCoversPrefix
  <1>1. Shape /\ AllWhole => UsageCoversPrefix
    <2> SUFFICES ASSUME Shape, AllWhole, NEW k \in Keys,
                        convs[k] # NotLoaded, convs[k].usage # NoUsage
                 PROVE  SubSeq(convs[k].messages, 1, convs[k].usageIndex)
                          = convs[k].usage.prompt
      BY DEF UsageCoversPrefix
    <2>1. PICK conv \in Conversation : conv = convs[k] BY DEF Shape
    <2>2. PICK prompt \in Seq(Message) : prompt = conv.usage.prompt
      BY <2>1 DEF Conversation, Usage
    <2>3. PICK ms \in Seq(Message) : ms = conv.messages BY HistoryFields
    <2>4. PICK u \in Nat : u = conv.usageIndex BY DEF Conversation
    <2>5. /\ u = Len(prompt) /\ u <= Len(ms)
          /\ \A i \in 1 .. u : ms[i] = prompt[i]
      BY <2>1, <2>2, <2>3, <2>4 DEF AllWhole, Whole, Covers
    <2>6. PICK prefix : prefix = SubSeq(ms, 1, u) OBVIOUS
    <2>7. \A i \in 1 .. u : ms[i] \in Message BY <2>5, MessagesOf
    <2>8. /\ prefix \in Seq(Message)
          /\ Len(prefix) = IF 1 <= u THEN u - 1 + 1 ELSE 0
          /\ \A i \in 1 .. u - 1 + 1 : prefix[i] = ms[1 + i - 1]
      BY <2>4, <2>6, <2>7, SubSeqProperties
    <2>9. Len(prefix) = u /\ \A i \in 1 .. u : prefix[i] = ms[i] BY <2>4, <2>8
    <2>10. prefix = prompt BY <2>5, <2>8, <2>9, SeqEqual
    <2> QED BY <2>1, <2>2, <2>3, <2>4, <2>6, <2>10
  <1> QED BY <1>1, WholeAlways, PTL


-----------------------------------------------------------------------------
(* What a conversation remembers: the refinement of ConversationMemory,    *)
(* where no heartbeat prunes, no file error is swallowed, and every thread *)
(* has a file of its own.                                                  *)

OwnFiles == \A j, k \in Keys : HistoryPath(j) = HistoryPath(k) => j = k

\* Two functions on Keys that differ at one key at most.
LEMMA OnlyAt ==
  ASSUME NEW f, NEW g, f = [j \in Keys |-> f[j]], g = [j \in Keys |-> g[j]],
         NEW k \in Keys, \A j \in Keys : j # k => g[j] = f[j]
  PROVE  g = [f EXCEPT ![k] = g[k]]
  OBVIOUS

\* What is remembered, key by key.
LEMMA RecallAt ==
  /\ Recall = [k \in Keys |-> Recall[k]] /\ OnFile = [k \in Keys |-> OnFile[k]]
  /\ \A k \in Keys : /\ convs[k] # NotLoaded => Recall[k] = Known(convs[k].messages)
                     /\ convs[k] = NotLoaded => Recall[k] = OnFile[k]
                     /\ disk[HistoryPath(k)] = NotLoaded => OnFile[k] = {}
                     /\ disk[HistoryPath(k)] # NotLoaded =>
                          OnFile[k] = Known(disk[HistoryPath(k)].messages)
  BY DEF Recall, OnFile, KnownTo

\* What is remembered, or on file, changes at one key at most.
LEMMA RecallOnly ==
  ASSUME NEW k \in Keys
  PROVE  /\ (\A j \in Keys : j # k => Recall'[j] = Recall[j])
               => Recall' = [Recall EXCEPT ![k] = Recall'[k]]
         /\ (\A j \in Keys : j # k => OnFile'[j] = OnFile[j])
               => OnFile' = [OnFile EXCEPT ![k] = OnFile'[k]]
  <1>1. PICK f : f = Recall OBVIOUS
  <1>2. PICK g : g = Recall' OBVIOUS
  <1>3. f = [j \in Keys |-> f[j]] /\ g = [j \in Keys |-> g[j]] BY <1>1, <1>2 DEF Recall
  <1>4. PICK d : d = OnFile OBVIOUS
  <1>5. PICK e : e = OnFile' OBVIOUS
  <1>6. d = [j \in Keys |-> d[j]] /\ e = [j \in Keys |-> e[j]] BY <1>4, <1>5 DEF OnFile
  <1>7. (\A j \in Keys : j # k => g[j] = f[j]) => g = [f EXCEPT ![k] = g[k]]
    BY <1>3, OnlyAt
  <1>8. (\A j \in Keys : j # k => e[j] = d[j]) => e = [d EXCEPT ![k] = e[k]]
    BY <1>6, OnlyAt
  <1> QED BY <1>1, <1>2, <1>4, <1>5, <1>7, <1>8

\* The numbers below a larger bound.
LEMMA FurtherNumbers ==
  ASSUME NEW n \in Nat, NEW m \in Nat, n <= m
  PROVE  1 .. n - 1 \subseteq 1 .. m - 1 /\ (n >= 1 => (1 .. m - 1) \ (1 .. n - 1) = n .. m - 1)
  <1>1. \A i : i \in 1 .. n - 1 => i \in 1 .. m - 1 OBVIOUS
  <1>2. ASSUME n >= 1 PROVE \A i : i \in (1 .. m - 1) \ (1 .. n - 1) <=> i \in n .. m - 1
    BY <1>2
  <1> QED BY <1>1, <1>2

\* Ids are given away once, in order.
LEMMA UsedGrows ==
  ASSUME Shape, [Next]_vars
  PROVE  Used \subseteq Used' /\ Used' \ Used = Created
  <1>1. nextMsg \in Nat \ {0} BY DEF Shape
  <1>2. nextMsg' = nextMsg \/ nextMsg' = nextMsg + 1 \/ nextMsg' = nextMsg + 2
    <2>1. CASE \E k \in Keys, heartbeat \in BOOLEAN :
                   Receive(k, heartbeat) \/ ReceiveResetWithBody(k)
      BY <2>1 DEF Receive, ReceiveResetWithBody, StartTurn
    <2>2. CASE (\E k \in Keys : ReceiveResetOnly(k)) \/ OnlyMoves \/ CompactHistory
      BY <2>2 DEF ReceiveResetOnly, OnlyMoves, CompactHistory
    <2>3. CASE \E n \in 1 .. MaxCalls : ChatCallsTools(n) BY <2>3 DEF ChatCallsTools
    <2>4. CASE ChatEmptyRetry BY <2>4 DEF ChatEmptyRetry
    <2>5. CASE ChatReplies \/ ChatAcknowledges
      BY <2>5, Zenon DEF ChatReplies, ChatAcknowledges, Finish
    <2>6. CASE \E size \in ToolTokens : RunTool(size) BY <2>6, Zenon DEF RunTool
    <2>7. CASE ChatReplyFails \/ Save \/ SaveFails \/ Restart \/ UNCHANGED vars
      BY <2>7 DEF ChatReplyFails, Save, SaveFails, Restart, vars
    <2> QED BY <2>1, <2>2, <2>3, <2>4, <2>5, <2>6, <2>7, StepCases
  <1>3. PICK n \in Nat \ {0}, m \in Nat \ {0} : n = nextMsg /\ m = nextMsg' /\ n <= m
    BY <1>1, <1>2
  <1>4. 1 .. n - 1 \subseteq 1 .. m - 1 /\ (1 .. m - 1) \ (1 .. n - 1) = n .. m - 1
    <2>1. n \in Nat /\ m \in Nat /\ n <= m /\ n >= 1 BY <1>3
    <2> QED BY Zenon, <2>1, FurtherNumbers
  <1> QED BY <1>3, <1>4 DEF Used, Created

\* The conversation of a turn is loaded.
LEMMA TurnLoaded ==
  ASSUME Shape, pc # "idle"
  PROVE  /\ turn.key \in Keys /\ Conv \in Conversation /\ Conv # NotLoaded
         /\ convs[turn.key] = Conv
  BY AgentTurnAssumption DEF Shape, Turn, AgentTurnAssumption, Conv

\* A message that starts a turn joins what the conversation knows, or what is
\* left of it after a reset.
LEMMA StartRemembers ==
  ASSUME Faults = {}, OwnFiles, Shape, NEW k \in Keys, NEW heartbeat \in BOOLEAN,
         Receive(k, heartbeat) \/ ReceiveResetWithBody(k), [Next]_vars
  PROVE  Memory!Learn(k) \/ Memory!Forget(k)
  <1>1. PICK conv \in Conversation, h \in BOOLEAN :
            /\ StartTurn(k, h, conv)
            /\ \/ conv \in Get(k) /\ disk' = disk
               \/ conv = EmptyConversation /\ RemoveFile(k)
    BY TurnStarts
  <1>2. /\ nextMsg \in Nat \ {0} /\ convs \in [Keys -> Conversation \cup {NotLoaded}]
        /\ disk \in [Paths -> Conversation \cup {NotLoaded}]
        /\ NotLoaded \notin Conversation
    BY AgentTurnAssumption DEF Shape, AgentTurnAssumption
  <1>3. nextMsg' = nextMsg + 1 /\ convs' = [convs EXCEPT ![k] = Opened(conv)]
    BY <1>1 DEF StartTurn
  <1>4. /\ Opened(conv) \in Conversation /\ Opened(conv).messages \in Seq(Message)
        /\ conv.messages \in Seq(Message)
        /\ Extends(conv.messages, Opened(conv).messages, {nextMsg})
    BY <1>2, OpenedGrows, HistoryFields
  <1>5. PICK next \in Conversation : next = Opened(conv) BY <1>4
  <1>6. \A j \in Keys : convs'[j] = IF j = k THEN next ELSE convs[j] BY <1>2, <1>3, <1>5
  <1>7. Recall'[k] = Known(next.messages)
    <2>1. convs'[k] = next /\ next # NotLoaded BY <1>2, <1>6
    <2> QED BY <2>1 DEF Recall, KnownTo
  <1>8. Known(conv.messages) \subseteq Recall'[k]
        /\ Recall'[k] \ Known(conv.messages) \subseteq {nextMsg}
    BY <1>4, <1>5, <1>7, ExtendedKnown
  <1>9. Used \subseteq Used' /\ Used' \ Used = {nextMsg}
    BY <1>2, <1>3, UsedGrows DEF Created
  <1>10. CASE conv \in Get(k) /\ disk' = disk
    <2>1. OnFile' = OnFile BY <1>10 DEF OnFile
    <2>2. Recall[k] = Known(conv.messages)
      <3>1. CASE convs[k] # NotLoaded BY <1>10, <3>1, RecallAt DEF Get
      <3>2. CASE convs[k] = NotLoaded /\ disk[HistoryPath(k)] # NotLoaded
        BY <1>10, <3>2, RecallAt DEF Get, LoadHistory
      <3>3. CASE convs[k] = NotLoaded /\ disk[HistoryPath(k)] = NotLoaded
        <4>1. conv.messages = <<>>
          BY <1>10, <3>3, EmptyConversationType DEF Get, LoadHistory
        <4>2. Known(<<>>) = {} BY DEF Known
        <4> QED BY <3>3, <4>1, <4>2, RecallAt
      <3> QED BY <3>1, <3>2, <3>3
    <2>3. \A j \in Keys : j # k => Recall'[j] = Recall[j]
      BY <1>6, <1>10 DEF Recall
    <2>4. Recall' = [Recall EXCEPT ![k] = Recall'[k]] BY <2>3, RecallOnly
    <2> QED BY <1>8, <1>9, <2>1, <2>2, <2>4 DEF Memory!Learn
  <1>11. CASE conv = EmptyConversation /\ RemoveFile(k)
    <2>1. Recall'[k] \subseteq {nextMsg}
      <3>1. Known(<<>>) = {} BY DEF Known
      <3> QED BY <1>8, <1>11, <3>1, EmptyConversationType
    <2>2. disk' = [disk EXCEPT ![HistoryPath(k)] = NotLoaded] BY <1>11 DEF RemoveFile
    <2>3. /\ disk'[HistoryPath(k)] = NotLoaded
          /\ \A j \in Keys : j # k => disk'[HistoryPath(j)] = disk[HistoryPath(j)]
      BY <1>2, <2>2, PathOf DEF OwnFiles
    <2>4. OnFile'[k] = {} /\ \A j \in Keys : j # k => OnFile'[j] = OnFile[j]
      BY <2>3 DEF OnFile, KnownTo
    <2>5. \A j \in Keys : j # k => Recall'[j] = Recall[j]
      BY <1>6, <2>3 DEF Recall
    <2>6. OnFile' = [OnFile EXCEPT ![k] = {}] BY <2>4, RecallOnly
    <2>7. Recall' = [Recall EXCEPT ![k] = Recall'[k]] BY <2>5, RecallOnly
    <2> QED BY <1>9, <2>1, <2>6, <2>7 DEF Memory!Forget
  <1> QED BY <1>1, <1>10, <1>11

\* Every step maps to a step of ConversationMemory, or to none.
LEMMA MemoryStep ==
  ASSUME Faults = {}, OwnFiles, Shape, ~turn.heartbeat, AllWhole, [Next]_vars
  PROVE  [Memory!Next]_(Memory!vars)
  <1>1. /\ nextMsg \in Nat \ {0} /\ convs \in [Keys -> Conversation \cup {NotLoaded}]
        /\ disk \in [Paths -> Conversation \cup {NotLoaded}]
        /\ NotLoaded \notin Conversation /\ Shape'
    BY AgentTurnAssumption, ShapeStep DEF Shape, AgentTurnAssumption
  <1>2. CASE \E k \in Keys, heartbeat \in BOOLEAN :
                 Receive(k, heartbeat) \/ ReceiveResetWithBody(k)
    <2>1. \E k \in Keys : Memory!Learn(k) \/ Memory!Forget(k) BY <1>2, StartRemembers
    <2> QED BY <2>1 DEF Memory!Next
  <1>3. CASE \E k \in Keys : ReceiveResetOnly(k)
    <2>1. PICK k \in Keys : ReceiveResetOnly(k) BY <1>3
    <2>2. /\ convs' = [convs EXCEPT ![k] = EmptyConversation] /\ nextMsg' = nextMsg
          /\ disk' = [disk EXCEPT ![HistoryPath(k)] = NotLoaded]
      BY <2>1 DEF ReceiveResetOnly, RemoveFile
    <2>3. \A j \in Keys : convs'[j] = IF j = k THEN EmptyConversation ELSE convs[j]
      BY <1>1, <2>2
    <2>4. /\ disk'[HistoryPath(k)] = NotLoaded
          /\ \A j \in Keys : j # k => disk'[HistoryPath(j)] = disk[HistoryPath(j)]
      BY <1>1, <2>2, PathOf DEF OwnFiles
    <2>5. Recall'[k] = {}
      <3>1. Known(<<>>) = {} BY DEF Known
      <3>2. EmptyConversation # NotLoaded BY <1>1, EmptyConversationType
      <3> QED BY <2>3, <3>1, <3>2, EmptyConversationType DEF Recall, KnownTo
    <2>6. OnFile'[k] = {} /\ \A j \in Keys : j # k => OnFile'[j] = OnFile[j]
      BY <2>4 DEF OnFile, KnownTo
    <2>7. \A j \in Keys : j # k => Recall'[j] = Recall[j]
      BY <2>3, <2>4 DEF Recall
    <2>8. /\ OnFile' = [OnFile EXCEPT ![k] = {}]
          /\ Recall' = [Recall EXCEPT ![k] = Recall'[k]]
      BY <2>6, <2>7, RecallOnly
    <2>9. Used' = Used BY <2>2 DEF Used
    <2> QED BY <2>5, <2>8, <2>9 DEF Memory!Next, Memory!Forget
  <1>4. CASE TurnGrows
    <2>1. /\ pc # "idle" /\ pc' # "idle" /\ disk' = disk
          /\ convs' = [convs EXCEPT ![turn.key] = Conv']
          /\ Extends(Conv.messages, Conv'.messages, Created)
      BY <1>4 DEF TurnGrows, SameTurn
    <2>2. PICK k \in Keys : k = turn.key /\ Conv = convs[k] /\ Conv \in Conversation
      BY <2>1, TurnLoaded
    <2>3. PICK next \in Conversation : next = Conv' BY <1>1, <2>1 DEF Shape
    <2>4. \A j \in Keys : convs'[j] = IF j = k THEN next ELSE convs[j]
      BY <1>1, <2>1, <2>2, <2>3
    <2>5. Recall[k] = Known(Conv.messages) /\ Recall'[k] = Known(next.messages)
      <3>1. convs[k] # NotLoaded /\ convs'[k] # NotLoaded /\ convs'[k] = next
        BY <1>1, <2>2, <2>4
      <3> QED BY <2>2, <3>1 DEF Recall, KnownTo
    <2>6. /\ Recall[k] \subseteq Recall'[k]
          /\ Recall'[k] \ Recall[k] \subseteq Created
      BY <2>1, <2>2, <2>3, <2>5, ExtendedKnown, HistoryFields
    <2>7. \A j \in Keys : j # k => Recall'[j] = Recall[j]
      BY <2>1, <2>4 DEF Recall
    <2>8. Recall' = [Recall EXCEPT ![k] = Recall'[k]] BY <2>7, RecallOnly
    <2>9. OnFile' = OnFile BY <2>1 DEF OnFile
    <2> QED BY <2>6, <2>8, <2>9, UsedGrows DEF Memory!Next, Memory!Learn
  <1>5. CASE CompactHistory
    <2>1. /\ pc = "compact" /\ disk' = disk /\ Compactable(Conv.messages)
          /\ convs' = [convs EXCEPT ![turn.key] = Conv']
          /\ Conv'.messages = Compact(Conv.messages, Conv.summary)
      BY <1>5, CompactHistoryShape
    <2>2. pc' # "idle" /\ nextMsg' = nextMsg BY <1>5 DEF CompactHistory
    <2>3. PICK k \in Keys : k = turn.key /\ Conv = convs[k] /\ Conv \in Conversation
      BY <2>1, TurnLoaded
    <2>4. PICK next \in Conversation : next = Conv' BY <1>1, <2>2 DEF Shape
    <2>5. \A j \in Keys : convs'[j] = IF j = k THEN next ELSE convs[j]
      BY <1>1, <2>1, <2>3, <2>4
    <2>6. Conv.summary \subseteq Known(Conv.messages)
      BY <1>1, <2>3 DEF AllWhole, Whole, Owns
    <2>7. Known(next.messages) = Known(Conv.messages)
      BY <2>1, <2>3, <2>4, <2>6, CompactedKnown, HistoryFields
    <2>8. \A j \in Keys : Recall'[j] = Recall[j]
      <3> TAKE j \in Keys
      <3>1. CASE j # k BY <2>1, <2>5, <3>1 DEF Recall
      <3>2. CASE j = k
        <4>1. convs[k] # NotLoaded /\ convs'[k] # NotLoaded /\ convs'[k] = next
          BY <1>1, <2>3, <2>5
        <4> QED BY <2>3, <2>7, <3>2, <4>1 DEF Recall, KnownTo
      <3> QED BY <3>1, <3>2
    <2>9. Recall' = Recall BY <2>8 DEF Recall
    <2>10. OnFile' = OnFile /\ Used' = Used BY <2>1, <2>2 DEF OnFile, Used
    <2> QED BY <2>9, <2>10 DEF Memory!vars
  <1>6. CASE ChatAcknowledges BY <1>6 DEF ChatAcknowledges
  <1>7. CASE Save
    <2>1. /\ pc = "save" /\ convs' = convs /\ nextMsg' = nextMsg
          /\ disk' = [disk EXCEPT ![HistoryPath(turn.key)] = Conv]
      BY <1>7 DEF Save
    <2>2. PICK k \in Keys :
            k = turn.key /\ Conv = convs[k] /\ Conv \in Conversation /\ Conv # NotLoaded
      BY <2>1, TurnLoaded
    <2>3. /\ disk'[HistoryPath(k)] = convs[k]
          /\ \A j \in Keys : j # k => disk'[HistoryPath(j)] = disk[HistoryPath(j)]
      BY <1>1, <2>1, <2>2, PathOf DEF OwnFiles
    <2>4. /\ OnFile'[k] = Recall[k] /\ Recall'[k] = Recall[k]
          /\ \A j \in Keys : j # k => OnFile'[j] = OnFile[j] /\ Recall'[j] = Recall[j]
      BY <2>1, <2>2, <2>3 DEF OnFile, Recall, KnownTo
    <2>5. OnFile' = [OnFile EXCEPT ![k] = Recall[k]] BY <2>4, RecallOnly
    <2>6. Recall' = Recall BY <2>4 DEF Recall
    <2>7. Used' = Used BY <2>1 DEF Used
    <2> QED BY <2>5, <2>6, <2>7 DEF Memory!Next, Memory!Persist
  <1>8. CASE SaveFails \/ UNCHANGED vars
    <2>1. convs' = convs /\ disk' = disk /\ nextMsg' = nextMsg
      BY <1>8 DEF SaveFails, vars
    <2> QED BY <2>1 DEF Memory!vars, Recall, OnFile, Used
  <1>9. CASE Restart
    <2>1. disk' = disk /\ nextMsg' = nextMsg /\ \A k \in Keys : convs'[k] = NotLoaded
      BY <1>9 DEF Restart
    <2>2. Recall' = OnFile BY <2>1 DEF Recall, OnFile
    <2>3. OnFile' = OnFile /\ Used' = Used BY <2>1 DEF OnFile, Used
    <2> QED BY <2>2, <2>3 DEF Memory!Next, Memory!Crash
  <1> QED BY <1>2, <1>3, <1>4, <1>5, <1>6, <1>7, <1>8, <1>9, StepCases, TurnStepGrows

\* Where no heartbeat prunes, no file error is swallowed and every thread has
\* a file of its own, the agent loop, the compactor and the store implement
\* ConversationMemory for any window, cut, crash and failed save: nothing is
\* forgotten before a reset or a crash, a crash brings back what the end of
\* some turn knew, and what was reset never returns (agentLoop, Compact, Store).
THEOREM HistoryIsRemembered ==
  ASSUME HeartbeatKeys = {}, Faults = {}, OwnFiles
  PROVE  Spec => RemembersItsHistory
  <1>1. Init => Memory!Init
    <2> SUFFICES ASSUME Init PROVE Memory!Init OBVIOUS
    <2>1. \A k \in Keys : convs[k] = NotLoaded /\ disk[HistoryPath(k)] = NotLoaded
      BY PathOf DEF Init
    <2>2. Used = {} BY DEF Init, Used
    <2> QED BY <2>1, <2>2 DEF Memory!Init, Recall, OnFile, KnownTo
  <1>2. Shape /\ WellKept /\ AllWhole /\ [Next]_vars => [Memory!Next]_(Memory!vars)
    BY MemoryStep DEF WellKept
  <1> QED BY <1>1, <1>2, WellKeptAlways, WholeAlways, PTL
          DEF Spec, RemembersItsHistory, Memory!Spec

=============================================================================
