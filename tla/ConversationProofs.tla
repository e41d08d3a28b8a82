-------------------------- MODULE ConversationProofs --------------------------
(***************************************************************************)
(* Proofs about Conversation for any context, threshold, messages,         *)
(* summaries and number of compactions.                                    *)
(*                                                                         *)
(* The estimate of a conversation is a sum over its messages, defined by   *)
(* recursion on their number.  SumsExist and SumsAgree say what is needed  *)
(* of it: the sums are defined, and equal where the messages count the     *)
(* same.  An estimate is compared with one of another conversation in two  *)
(* places.  The status message that the agent appends after a compaction   *)
(* makes every message one older, which changes nothing for startup        *)
(* messages and the summary (StatusIsFree); and the budget was made from   *)
(* the same conversation with an empty summary (WithinBudgetFits).         *)
(***************************************************************************)
EXTENDS Conversation, FiniteSetTheorems, WellFoundedInduction, TLAPS

-----------------------------------------------------------------------------
(* Induction and sums over the positions of a sequence.                     *)

\* A nonempty set of naturals has a smallest element, from the subset order on
\* the finite set of what is not above one of them.
LEMMA SmallestExists ==
  ASSUME NEW n \in Nat, NEW S, S \subseteq 0 .. n, S # {}
  PROVE  \E i \in S : \A j \in S : i <= j
  <1> DEFINE Less(i) == {j \in S : j < i}
             T == {Less(i) : i \in S}
  <1>1. IsFiniteSet(S) /\ S \subseteq Nat
    <2>1. IsFiniteSet(0 .. n)
      BY FS_Interval
    <2>2. IsFiniteSet(S)
      BY <2>1, FS_Subset, S \in SUBSET (0 .. n)
    <2>3. QED
      BY <2>2
  <1>2. T \subseteq FiniteSubsetsOf(S) /\ T # {}
    <2>1. T \subseteq SUBSET S /\ T # {}
      OBVIOUS
    <2> HIDE DEF T
    <2>2. QED
      BY <1>1, <2>1, FS_FiniteSubsetsOfFinite
  <1>3. PICK U \in T : \A V \in T : <<V, U>> \notin StrictSubsetOrdering(S)
    <2> HIDE DEF T
    <2>1. QED
      BY <1>1, <1>2, FS_StrictSubsetOrderingWellFounded, WFMin
  <1>4. PICK i \in S : U = Less(i)
    OBVIOUS
  <1>5. ASSUME NEW j \in S, j < i PROVE FALSE
    <2>1. j \in U /\ j \notin Less(j)
      <3>1. j \in Nat
        BY <1>1
      <3>2. ~(j < j)
        BY <3>1
      <3>3. QED
        BY <1>4, <1>5, <3>2
    <2>2. Less(j) \subseteq U
      <3>1. \A k \in S : k < j => k < i
        BY <1>1, <1>5
      <3>2. QED
        BY <1>4, <3>1
    <2>3. Less(j) \in T /\ <<Less(j), U>> \in StrictSubsetOrdering(S)
      BY <2>1, <2>2, <1>4 DEF StrictSubsetOrdering
    <2>4. QED
      BY <2>3, <1>3
  <1>6. QED
    BY <1>5

\* Induction, with the numbers it is for as a set.
LEMMA UpTo ==
  ASSUME NEW n \in Nat, NEW S, 0 \in S, \A k \in 0 .. n - 1 : k \in S => k + 1 \in S
  PROVE  0 .. n \subseteq S
  <1> SUFFICES ASSUME (0 .. n) \ S # {} PROVE FALSE
    OBVIOUS
  <1>1. PICK i \in (0 .. n) \ S : \A j \in (0 .. n) \ S : i <= j
    BY SmallestExists
  <1>2. i # 0 /\ i - 1 \in 0 .. n - 1 /\ i - 1 \in S
    BY <1>1
  <1>3. QED
    BY <1>1, <1>2

\* f[k] is the sum of the terms of t up to k, for all k up to n.
SumsOf(f, t, n) == \A k \in 0 .. n : f[k] = IF k = 0 THEN 0 ELSE f[k - 1] + t[k]

\* Sums exist.
LEMMA SumsExist ==
  ASSUME NEW n \in Nat, NEW t \in [1 .. n -> Nat]
  PROVE  \E f \in [0 .. n -> Nat] : SumsOf(f, t, n)
  <1> DEFINE S == {m \in 0 .. n : \E f \in [0 .. m -> Nat] : SumsOf(f, t, m)}
  <1>1. 0 \in S
    <2> DEFINE g == [k \in 0 .. 0 |-> 0]
    <2>1. g \in [0 .. 0 -> Nat] /\ SumsOf(g, t, 0)
      BY DEF SumsOf
    <2> HIDE DEF g
    <2>2. QED
      BY <2>1
  <1>2. ASSUME NEW m \in 0 .. n - 1, m \in S PROVE m + 1 \in S
    <2>1. PICK f \in [0 .. m -> Nat] : SumsOf(f, t, m)
      BY <1>2
    <2> DEFINE g == [k \in 0 .. m + 1 |-> IF k <= m THEN f[k] ELSE f[m] + t[m + 1]]
    <2>2. g \in [0 .. m + 1 -> Nat]
      OBVIOUS
    <2>3. SumsOf(g, t, m + 1)
      <3> SUFFICES ASSUME NEW k \in 0 .. m + 1
                   PROVE  g[k] = IF k = 0 THEN 0 ELSE g[k - 1] + t[k]
        BY DEF SumsOf
      <3>1. CASE k <= m
        BY <2>1, <3>1 DEF SumsOf
      <3>2. CASE k = m + 1
        BY <3>2
      <3>3. QED
        BY <3>1, <3>2
    <2>4. \E f_ \in [0 .. m + 1 -> Nat] : SumsOf(f_, t, m + 1)
      <3> HIDE DEF g
      <3>1. QED
        BY <2>2, <2>3
    <2>5. m + 1 \in 0 .. n
      OBVIOUS
    <2>6. QED
      BY <2>4, <2>5
  <1>3. 0 .. n \subseteq S
    <2> HIDE DEF S
    <2>1. QED
      BY <1>1, <1>2, UpTo
  <1>4. n \in S
    <2> HIDE DEF S
    <2>1. QED
      BY <1>3
  <1>5. QED
    BY <1>4

\* There is only one sum of the same terms.
LEMMA SumsAgree ==
  ASSUME NEW n \in Nat, NEW f, NEW g, NEW t, SumsOf(f, t, n), SumsOf(g, t, n)
  PROVE  f[n] = g[n]
  <1> DEFINE S == {k \in 0 .. n : f[k] = g[k]}
  <1>1. 0 \in S
    BY DEF SumsOf
  <1>2. ASSUME NEW k \in 0 .. n - 1, k \in S PROVE k + 1 \in S
    <2>1. k + 1 \in 1 .. n /\ (k + 1) - 1 = k /\ k + 1 # 0
      OBVIOUS
    <2>2. f[k + 1] = f[k] + t[k + 1] /\ g[k + 1] = g[k] + t[k + 1]
      BY <2>1 DEF SumsOf
    <2>3. QED
      BY <1>2, <2>1, <2>2
  <1>3. 0 .. n \subseteq S
    <2> HIDE DEF S
    <2>1. QED
      BY <1>1, <1>2, UpTo
  <1>4. QED
    BY <1>3

-----------------------------------------------------------------------------
(* Messages and their estimate.                                             *)

Kinds == BootKinds \cup {m.kind : m \in NewMessages}
                   \cup {"source", "draft", "feedback", "error", "compacted", "status"}
AnyMessage == Messages(Kinds, Rules)

\* What truncation leaves of a message has a size, and so a number of tokens.
LEMMA TokensAreNumbers ==
  ASSUME NEW msgs \in Seq(AnyMessage), NEW i \in 1 .. Len(msgs)
  PROVE  Tokens(msgs, i) \in Nat
  <1>1. msgs[i] \in [kind : Kinds, body : Nat, around : Nat, rules : Rules]
    <2>1. msgs[i] \in AnyMessage
      OBVIOUS
    <2>2. QED
      BY <2>1 DEF AnyMessage, Messages
  <1>2. \A severity : LET m == Cut(msgs[i], severity) IN m.body \in Nat /\ m.around \in Nat
    BY <1>1, SizesAssumption DEF Cut, Ellipsis
  <1>3. \A n \in Nat : CeilDiv(n, CharsPerToken) \in Nat
    BY DEF CeilDiv, CharsPerToken
  <1>4. \A severity : LET m == Cut(msgs[i], severity) IN m.body + m.around \in Nat
    BY <1>2
  <1>5. QED
    BY <1>3, <1>4 DEF Tokens

\* EstimateTokens is the sum it is meant to be.
Terms(msgs) == [k \in 1 .. Len(msgs) |-> Tokens(msgs, k)]
LEMMA SumsDefined ==
  ASSUME NEW msgs \in Seq(AnyMessage)
  PROVE  /\ TokenSums(msgs) \in [0 .. Len(msgs) -> Nat]
         /\ SumsOf(TokenSums(msgs), Terms(msgs), Len(msgs))
  <1> DEFINE n == Len(msgs)
             Def(f) == [k \in 0 .. n |-> IF k = 0 THEN 0 ELSE f[k - 1] + Tokens(msgs, k)]
  <1>1. n \in Nat /\ Terms(msgs) \in [1 .. n -> Nat]
    BY TokensAreNumbers DEF Terms
  <1>2. PICK f \in [0 .. n -> Nat] : SumsOf(f, Terms(msgs), n)
    <2> HIDE DEF n
    <2>1. QED
      BY <1>1, SumsExist
  <1>3. \A k \in 1 .. n : Terms(msgs)[k] = Tokens(msgs, k)
    BY DEF Terms
  <1>4. f = Def(f)
    <2>1. \A k \in 0 .. n : f[k] = Def(f)[k]
      BY <1>1, <1>2, <1>3 DEF SumsOf
    <2>2. QED
      BY <2>1
  <1>5. TokenSums(msgs) = CHOOSE g : g = Def(g)
    BY DEF TokenSums
  <1> DEFINE s == TokenSums(msgs)
  <1>6. s = Def(s)
    <2> HIDE DEF Def
    <2>1. QED
      BY <1>4, <1>5
  <1>7. SumsOf(s, Terms(msgs), n)
    <2>1. \A k \in 0 .. n : s[k] = Def(s)[k]
      BY <1>6
    <2>2. QED
      BY <1>1, <1>3, <2>1 DEF SumsOf
  <1>8. ASSUME NEW k \in 0 .. n PROVE s[k] = f[k]
    <2> HIDE DEF s, n
    <2>1. k \in Nat /\ SumsOf(s, Terms(msgs), k) /\ SumsOf(f, Terms(msgs), k)
      BY <1>1, <1>2, <1>7 DEF SumsOf
    <2>2. QED
      BY <2>1, SumsAgree
  <1>9. QED
    BY <1>2, <1>6, <1>7, <1>8

\* One message more.
LEMMA OneMore ==
  ASSUME NEW a \in Seq(AnyMessage), NEW m \in AnyMessage,
         NEW b \in Seq(AnyMessage), \A k \in 1 .. Len(a) : Tokens(Append(a, m), k) = Tokens(b, k),
         Len(b) >= Len(a)
  PROVE  EstimateTokens(Append(a, m)) = TokenSums(b)[Len(a)] + Tokens(Append(a, m), Len(a) + 1)
  <1> DEFINE c == Append(a, m)
             n == Len(a)
  <1>1. c \in Seq(AnyMessage) /\ Len(c) = n + 1 /\ n \in Nat
    OBVIOUS
  <1>2. SumsOf(TokenSums(c), Terms(c), n + 1) /\ SumsOf(TokenSums(b), Terms(b), n)
    <2>1. SumsOf(TokenSums(c), Terms(c), n + 1) /\ SumsOf(TokenSums(b), Terms(b), Len(b))
      BY <1>1, SumsDefined
    <2>2. QED
      BY <2>1 DEF SumsOf
  <1>3. \A k \in 1 .. n : Terms(c)[k] = Terms(b)[k]
    BY <1>1 DEF Terms
  <1>4. SumsOf(TokenSums(c), Terms(b), n)
    BY <1>1, <1>2, <1>3 DEF SumsOf
  <1>5. TokenSums(c)[n] = TokenSums(b)[n]
    <2> HIDE DEF c, n
    <2>1. QED
      BY <1>1, <1>2, <1>4, SumsAgree
  <1>6. TokenSums(c)[n + 1] = TokenSums(c)[n] + Terms(c)[n + 1]
    <2>1. n + 1 \in 0 .. n + 1 /\ n + 1 # 0 /\ (n + 1) - 1 = n
      BY <1>1
    <2>2. QED
      BY <1>2, <2>1 DEF SumsOf
  <1>7. Terms(c)[n + 1] = Tokens(c, n + 1)
    BY <1>1 DEF Terms
  <1>8. QED
    BY <1>1, <1>5, <1>6, <1>7 DEF EstimateTokens

-----------------------------------------------------------------------------
(* Truncation by age.                                                       *)

\* The rules that occur in what the tool itself writes, for the newest message,
\* and the default ones for a message of any age.
LEMMA Selected ==
  /\ \A d \in Nat : SelectTruncation(d, DEFAULT) = LIGHT
  /\ \A d \in Nat : SelectTruncation(d, NO_TRUNCATION) = NONE
  /\ SelectTruncation(0, NO_MESSAGE) = REMOVE
  /\ SelectTruncation(0, ERROR_RETRY) = LIGHT
  <1> DEFINE Applicable(d, rules) == {r \in rules : r.threshold >= 0 /\ d >= r.threshold}
             Best(d, rules) == CHOOSE r \in Applicable(d, rules) : \A o \in Applicable(d, rules) :
                                  r.threshold > o.threshold \/ (r.threshold = o.threshold /\ r.severity >= o.severity)
  <1>1. \A d, rules : SelectTruncation(d, rules) =
                        IF Applicable(d, rules) = {} THEN NONE ELSE Best(d, rules).severity
    BY DEF SelectTruncation
  <1>2. ASSUME NEW d, NEW rules, NEW severity \in Nat,
               Applicable(d, rules) = {[threshold |-> 0, severity |-> severity]}
        PROVE  SelectTruncation(d, rules) = severity
    <2>1. Best(d, rules) = [threshold |-> 0, severity |-> severity]
      BY <1>2
    <2>2. QED
      BY <1>1, <1>2, <2>1
  <1>3. ASSUME NEW d \in Nat PROVE SelectTruncation(d, DEFAULT) = LIGHT
    <2>1. Applicable(d, DEFAULT) = {[threshold |-> 0, severity |-> LIGHT]} /\ LIGHT \in Nat
      BY DEF DEFAULT, Truncation, LIGHT
    <2> HIDE DEF Applicable, Best
    <2>2. QED
      BY <1>2, <2>1
  <1>4. ASSUME NEW d \in Nat PROVE SelectTruncation(d, NO_TRUNCATION) = NONE
    <2>1. Applicable(d, NO_TRUNCATION) = {}
      BY DEF NO_TRUNCATION, Truncation
    <2>2. QED
      BY <1>1, <2>1
  <1>5. SelectTruncation(0, NO_MESSAGE) = REMOVE
    <2>1. Applicable(0, NO_MESSAGE) = {[threshold |-> 0, severity |-> REMOVE]} /\ REMOVE \in Nat
      BY DEF NO_MESSAGE, Truncation, REMOVE
    <2> HIDE DEF Applicable, Best
    <2>2. QED
      BY <1>2, <2>1
  <1>6. SelectTruncation(0, ERROR_RETRY) = LIGHT
    <2>1. Applicable(0, ERROR_RETRY) = {[threshold |-> 0, severity |-> LIGHT]} /\ LIGHT \in Nat
      BY SizesAssumption DEF ERROR_RETRY, Truncation, LIGHT
    <2> HIDE DEF Applicable, Best
    <2>2. QED
      BY <1>2, <2>1
  <1>7. QED
    BY <1>3, <1>4, <1>5, <1>6

\* A message with the default rules counts the same wherever it stands.
LEMMA AgeIsIrrelevant ==
  ASSUME NEW a \in Seq(AnyMessage), NEW b \in Seq(AnyMessage),
         NEW i \in 1 .. Len(a), i <= Len(b), a[i] = b[i], a[i].rules = DEFAULT
  PROVE  Tokens(a, i) = Tokens(b, i)
  <1>1. Len(a) - i \in Nat /\ Len(b) - i \in Nat
    OBVIOUS
  <1>2. Severity(a, i) = Severity(b, i)
    BY <1>1, Selected DEF Severity
  <1>3. QED
    BY <1>2 DEF Tokens

Plain == Messages(Kinds, {DEFAULT})
StatusMessage == Message("status", 1, 0, NO_MESSAGE)

LEMMA RulesOfMessages ==
  {DEFAULT, NO_TRUNCATION, NO_MESSAGE, ERROR_RETRY} \subseteq Rules
  BY SizesAssumption DEF DEFAULT, NO_TRUNCATION, NO_MESSAGE, ERROR_RETRY, Rules, Truncation, LIGHT, STUB, REMOVE

LEMMA PlainIsMessage ==
  /\ Plain \subseteq AnyMessage
  /\ \A p \in Seq(Plain) : p \in Seq(AnyMessage) /\ \A i \in 1 .. Len(p) : p[i].rules = DEFAULT
  /\ StatusMessage \in AnyMessage
  <1>1. Plain \subseteq AnyMessage
    BY RulesOfMessages DEF Plain, AnyMessage, Messages
  <1>2. ASSUME NEW p \in Seq(Plain) PROVE p \in Seq(AnyMessage) /\ \A i \in 1 .. Len(p) : p[i].rules = DEFAULT
    <2>1. \A i \in 1 .. Len(p) : p[i] \in Plain /\ p[i] \in AnyMessage
      BY <1>1
    <2>2. p \in Seq(AnyMessage)
      BY <2>1
    <2>3. \A m \in Plain : m.rules = DEFAULT
      BY DEF Plain, Messages
    <2>4. QED
      BY <2>1, <2>2, <2>3
  <1>3. StatusMessage \in AnyMessage
    <2>1. NO_MESSAGE \in Rules
      BY RulesOfMessages
    <2>2. QED
      BY <2>1 DEF StatusMessage, Message, AnyMessage, Messages, Kinds
  <1>4. QED
    BY <1>1, <1>2, <1>3

\* The status message costs nothing, also by making the others older.
LEMMA StatusIsFree ==
  ASSUME NEW p \in Seq(Plain)
  PROVE  EstimateTokens(Append(p, StatusMessage)) = EstimateTokens(p)
  <1> DEFINE q == Append(p, StatusMessage)
             n == Len(p)
  <1>1. p \in Seq(AnyMessage) /\ q \in Seq(AnyMessage) /\ n \in Nat /\ Len(q) = n + 1
    BY PlainIsMessage
  <1>2. \A k \in 1 .. n : q[k] = p[k] /\ p[k].rules = DEFAULT
    BY <1>1, PlainIsMessage
  <1>3. \A k \in 1 .. n : Tokens(q, k) = Tokens(p, k)
    <2> SUFFICES ASSUME NEW k \in 1 .. n PROVE Tokens(q, k) = Tokens(p, k)
      OBVIOUS
    <2>1. k \in 1 .. Len(q) /\ k <= Len(p) /\ q[k] = p[k] /\ q[k].rules = DEFAULT
      BY <1>1, <1>2
    <2> HIDE DEF q, n
    <2>2. QED
      BY <1>1, <2>1, AgeIsIrrelevant
  <1>4. Tokens(q, n + 1) = 0
    <2>1. q[n + 1] = StatusMessage /\ Len(q) - (n + 1) = 0
      BY <1>1
    <2>2. Severity(q, n + 1) = REMOVE
      BY <2>1, Selected DEF Severity, StatusMessage, Message
    <2>3. QED
      BY <2>2 DEF Tokens
  <1>5. TokenSums(p)[n] \in Nat
    BY <1>1, SumsDefined
  <1>6. EstimateTokens(q) = TokenSums(p)[n] + Tokens(q, n + 1)
    BY <1>1, <1>3, OneMore, PlainIsMessage
  <1>7. QED
    BY <1>4, <1>5, <1>6 DEF EstimateTokens

-----------------------------------------------------------------------------
(* The budget.                                                              *)

\* _bootstrap_prefix_len finds the bootstrap messages at the beginning.
LEMMA PrefixIs ==
  ASSUME NEW msgs \in Seq(AnyMessage)
  PROVE  /\ PrefixLen(msgs) \in 0 .. Len(msgs)
         /\ \A i \in 1 .. PrefixLen(msgs) : msgs[i].kind \in BootKinds
  <1> DEFINE IsPrefix(n) == /\ \A i \in 1 .. n : msgs[i].kind \in BootKinds
                            /\ n < Len(msgs) => msgs[n + 1].kind \notin BootKinds
             Other == {i \in 1 .. Len(msgs) : msgs[i].kind \notin BootKinds}
  <1>1. \E n \in 0 .. Len(msgs) : IsPrefix(n)
    <2>1. CASE Other = {}
      <3>1. IsPrefix(Len(msgs))
        BY <2>1
      <3>2. QED
        BY <3>1
    <2>2. CASE Other # {}
      <3>1. PICK i \in Other : \A j \in Other : i <= j
        <4>1. Len(msgs) \in Nat /\ Other \subseteq 0 .. Len(msgs)
          OBVIOUS
        <4> HIDE DEF Other
        <4>2. QED
          BY <2>2, <4>1, SmallestExists
      <3>2. i - 1 \in 0 .. Len(msgs) /\ IsPrefix(i - 1)
        BY <3>1
      <3>3. QED
        BY <3>2
    <2>3. QED
      BY <2>1, <2>2
  <1>2. PrefixLen(msgs) = CHOOSE n \in 0 .. Len(msgs) : IsPrefix(n)
    BY DEF PrefixLen
  <1>3. PrefixLen(msgs) \in 0 .. Len(msgs) /\ IsPrefix(PrefixLen(msgs))
    <2> HIDE DEF IsPrefix
    <2>1. QED
      BY <1>1, <1>2
  <1>4. QED
    BY <1>3

\* A conversation: what was there before the first cycle has the default rules.
Conversations == {msgs \in Seq(AnyMessage) : \A i \in 1 .. Len(msgs) :
                     msgs[i].kind \in BootKinds => msgs[i].rules = DEFAULT}

Sizes == [len : Nat, esc : Nat]

\* What compaction makes of a conversation has the default rules only.
LEMMA CandidateIsPlain ==
  ASSUME NEW msgs \in Conversations, NEW s \in Sizes
  PROVE  LET p == SubSeq(msgs, 1, PrefixLen(msgs))
         IN  /\ p \in Seq(Plain) /\ Len(p) = PrefixLen(msgs)
             /\ CompactedMessage(s) \in Plain /\ CompactedMessage(s).kind = "compacted"
             /\ Candidate(msgs, s) = Append(p, CompactedMessage(s))
             /\ Candidate(msgs, s) \in Seq(Plain)
  <1> DEFINE n == PrefixLen(msgs)
             p == SubSeq(msgs, 1, n)
  <1>1. msgs \in Seq(AnyMessage) /\ n \in 0 .. Len(msgs)
    BY PrefixIs DEF Conversations
  <1>2. \A i \in 1 .. n : msgs[i] \in AnyMessage /\ msgs[i].rules = DEFAULT
    BY <1>1, PrefixIs DEF Conversations
  <1>3. \A m \in AnyMessage : m.rules = DEFAULT => m \in Plain
    BY DEF AnyMessage, Plain, Messages
  <1>4. \A i \in 1 .. n : msgs[i] \in Plain
    BY <1>2, <1>3
  <1>5. p \in Seq(Plain) /\ Len(p) = n
    <2> HIDE DEF n
    <2>1. QED
      BY <1>1, <1>4
  <1>6. CompactedMessage(s) \in Plain /\ CompactedMessage(s).kind = "compacted"
    <2>1. s.len \in Nat /\ Overhead + s.esc \in Nat
      BY SizesAssumption DEF Sizes
    <2>2. QED
      BY <2>1 DEF CompactedMessage, Message, Plain, Messages, Kinds
  <1>7. QED
    BY <1>5, <1>6 DEF Candidate

\* The tokens of the message a summary comes in.
SummaryTokens(s) ==
    CeilDiv((IF s.len > LightMax THEN LightMax + Ellipsis ELSE s.len) + (Overhead + s.esc), CharsPerToken)

LEMMA CandidateEstimate ==
  ASSUME NEW msgs \in Conversations, NEW s \in Sizes
  PROVE  LET p == SubSeq(msgs, 1, PrefixLen(msgs))
         IN  /\ EstimateTokens(p) \in Nat /\ SummaryTokens(s) \in Nat
             /\ EstimateTokens(Candidate(msgs, s)) = EstimateTokens(p) + SummaryTokens(s)
  <1> DEFINE p == SubSeq(msgs, 1, PrefixLen(msgs))
             m == CompactedMessage(s)
             c == Append(p, m)
             n == Len(p)
  <1>1. /\ p \in Seq(Plain) /\ m \in Plain /\ c \in Seq(Plain) /\ m.kind = "compacted"
        /\ Candidate(msgs, s) = c
    BY CandidateIsPlain
  <1>2. /\ p \in Seq(AnyMessage) /\ m \in AnyMessage /\ c \in Seq(AnyMessage)
        /\ m.rules = DEFAULT
        /\ \A k \in 1 .. n : p[k].rules = DEFAULT
    BY <1>1, PlainIsMessage DEF Plain, Messages
  <1> HIDE DEF p, m
  <1>3. n \in Nat /\ Len(c) = n + 1 /\ c[n + 1] = m /\ \A k \in 1 .. n : c[k] = p[k]
    BY <1>2
  <1>4. \A k \in 1 .. n : Tokens(c, k) = Tokens(p, k)
    <2> SUFFICES ASSUME NEW k \in 1 .. n PROVE Tokens(c, k) = Tokens(p, k)
      OBVIOUS
    <2>1. k \in 1 .. Len(c) /\ k <= Len(p) /\ c[k] = p[k] /\ c[k].rules = DEFAULT
      BY <1>2, <1>3
    <2> HIDE DEF c, n
    <2>2. QED
      BY <1>2, <2>1, AgeIsIrrelevant
  <1>5. EstimateTokens(c) = EstimateTokens(p) + Tokens(c, n + 1)
    BY <1>2, <1>3, <1>4, OneMore DEF EstimateTokens
  <1>6. Severity(c, n + 1) = LIGHT
    BY <1>1, <1>2, <1>3, Selected DEF Severity
  <1>7. Tokens(c, n + 1) = SummaryTokens(s)
    <2>1. m = [kind |-> "compacted", body |-> s.len, around |-> Overhead + s.esc, rules |-> DEFAULT]
      BY DEF m, CompactedMessage, Message
    <2>2. Cut(m, LIGHT) = [m EXCEPT !.body = IF @ > LightMax THEN LightMax + Ellipsis ELSE @]
      BY DEF Cut, LIGHT, STUB, NONE
    <2>3. QED
      BY <1>3, <1>6, <2>1, <2>2 DEF Tokens, SummaryTokens, LIGHT, REMOVE
  <1>8. EstimateTokens(p) \in Nat
    BY <1>2, <1>3, SumsDefined DEF EstimateTokens
  <1>9. SummaryTokens(s) \in Nat
    <2>1. n + 1 \in 1 .. Len(c)
      BY <1>3
    <2> HIDE DEF c
    <2>2. Tokens(c, n + 1) \in Nat
      BY <1>2, <2>1, TokensAreNumbers
    <2>3. QED
      BY <1>7, <2>2
  <1>10. QED
    BY <1>1, <1>5, <1>7, <1>8, <1>9 DEF p

\* The budget is what is left of the target in characters.  A summary within it
\* takes the message it comes in no more tokens than are left: cut, its length
\* is at most three above a multiple of four that is smaller than the budget.
LEMMA SummaryWithin ==
  ASSUME NEW s \in Sizes, s.esc = 0, NEW room \in Int, s.len <= room * CharsPerToken
  PROVE  SummaryTokens(s) <= room + SummaryTokens(NoSummary)
  <1> DEFINE body == IF s.len > LightMax THEN LightMax + Ellipsis ELSE s.len
  <1>1. LightMax \in Nat /\ Overhead \in Nat /\ s.len \in Nat
    BY SizesAssumption DEF Sizes
  <1>2. body \in Nat /\ body <= room * 4
    <2>1. CASE s.len <= LightMax
      BY <1>1, <2>1 DEF CharsPerToken
    <2>2. CASE s.len > LightMax
      <3>1. LightMax % 4 = 0 /\ LightMax < room * 4
        BY <1>1, <2>2, LightAssumption DEF CharsPerToken
      <3>2. LightMax + 3 <= room * 4
        BY <1>1, <3>1
      <3>3. QED
        BY <1>1, <2>2, <3>2 DEF Ellipsis
    <2>3. QED
      BY <1>1, <2>1, <2>2
  <1>3. SummaryTokens(s) = (body + Overhead + 3) \div 4
    BY <1>1, <1>2 DEF SummaryTokens, CeilDiv, CharsPerToken
  <1>4. SummaryTokens(NoSummary) = (Overhead + 3) \div 4
    BY <1>1 DEF SummaryTokens, CeilDiv, CharsPerToken, NoSummary
  <1> HIDE DEF body
  <1>5. QED
    BY <1>1, <1>2, <1>3, <1>4

-----------------------------------------------------------------------------
(* The invariant.                                                           *)

Positions == {"cycle", "ask", "answered", "measure", "commit", "handle", "end"}
Calls == [maxChars : Int, attempt : Nat, shortest : SUBSET Sizes,
          request : Seq(AnyMessage), repairs : Seq(AnyMessage), summary : Sizes]

TypeOK ==
    /\ messages \in Conversations
    /\ count \in Nat /\ percent \in Thresholds
    /\ cancelled \in BOOLEAN /\ interrupted \in BOOLEAN
    /\ pc \in Positions /\ outcome \in Outcomes
    /\ call \in Calls
    /\ history \in [messages : Conversations, count : Nat]

\* While the tool works, and after it has raised, nothing has changed.  What it
\* returned tells what the conversation is now.
AtomicInv ==
    /\ pc # "cycle" => messages = history.messages /\ count = history.count
    /\ pc = "handle" => outcome = "interrupted"
    /\ pc = "cycle" =>
        \/ outcome = "none"
        \/ /\ outcome \in {"ok", "blocked"}
           /\ messages = Append(history.messages, StatusMessage) /\ count = history.count
        \/ outcome = "interrupted" /\ messages = history.messages /\ count = history.count
        \/ /\ outcome = "compacted"
           /\ \E s \in Sizes : messages = Append(Candidate(history.messages, s), StatusMessage)
           /\ count = history.count + 1

\* The budget was made for this conversation, and only what fits is committed.
BudgetInv ==
    /\ pc \in {"ask", "answered", "measure"} => call.maxChars = SummaryBudget(messages)
    /\ pc = "commit" => Fits
    /\ outcome = "compacted" => EstimateTokens(messages) <= TargetTokens

\* The source stays the second message of the request, with its own rules, and
\* what follows is shown while it is the newest.
RequestInv ==
    pc \in {"ask", "answered"} =>
        /\ Len(call.request) >= 2 /\ call.request[2] = Source
        /\ call.request[Len(call.request)].rules \in {DEFAULT, NO_TRUNCATION}
        /\ \A i \in 1 .. Len(call.repairs) : call.repairs[i].rules = ERROR_RETRY

Inv == TypeOK /\ AtomicInv /\ BudgetInv /\ RequestInv

-----------------------------------------------------------------------------
\* Messages that are appended make a conversation of a conversation.
LEMMA ConversationGrows ==
  ASSUME NEW msgs \in Conversations, NEW m \in AnyMessage, m.kind \in BootKinds => m.rules = DEFAULT
  PROVE  Append(msgs, m) \in Conversations
  <1>1. msgs \in Seq(AnyMessage) /\ \A i \in 1 .. Len(msgs) : msgs[i].kind \in BootKinds => msgs[i].rules = DEFAULT
    BY DEF Conversations
  <1> DEFINE c == Append(msgs, m)
  <1>2. /\ c \in Seq(AnyMessage) /\ Len(c) = Len(msgs) + 1 /\ c[Len(msgs) + 1] = m
        /\ \A i \in 1 .. Len(msgs) : c[i] = msgs[i]
    BY <1>1
  <1>3. \A i \in 1 .. Len(c) : i \in 1 .. Len(msgs) \/ i = Len(msgs) + 1
    BY <1>1, <1>2
  <1> HIDE DEF c
  <1>4. c \in Conversations
    BY <1>1, <1>2, <1>3 DEF Conversations
  <1>5. QED
    BY <1>4 DEF c

LEMMA StatusGrows ==
  ASSUME NEW msgs \in Conversations
  PROVE  Append(msgs, StatusMessage) \in Conversations
  <1>1. StatusMessage.kind \notin BootKinds
    BY DEF StatusMessage, Message, BootKinds
  <1>2. QED
    BY <1>1, PlainIsMessage, ConversationGrows

LEMMA PlainIsConversation == Seq(Plain) \subseteq Conversations
  BY PlainIsMessage DEF Conversations

LEMMA NumbersOfBudget ==
  ASSUME Inv
  PROVE  TargetTokens \in Int /\ SummaryBudget(messages) \in Int /\ NoSummary \in Sizes
  <1>1. NoSummary \in Sizes
    BY DEF NoSummary, Sizes
  <1>2. MaxContext \in Nat /\ percent \in Nat /\ MaxContext * percent \in Nat
    BY SizesAssumption DEF Inv, TypeOK
  <1>3. TargetTokens \in Int
    BY <1>2 DEF TargetTokens
  <1>4. EstimateTokens(Candidate(messages, NoSummary)) \in Int
    BY <1>1, CandidateEstimate DEF Inv, TypeOK
  <1>5. QED
    BY <1>1, <1>3, <1>4 DEF SummaryBudget, CharsPerToken

Now == [messages |-> messages, count |-> count]

\* While the tool works, history is the present.
LEMMA HistoryIsNow ==
  ASSUME Inv, pc # "cycle"
  PROVE  history = Now
  BY DEF Inv, TypeOK, AtomicInv, Now

LEMMA NowIsTyped ==
  ASSUME Inv
  PROVE  Now \in [messages : Conversations, count : Nat] /\ NoCall \in Calls
  BY DEF Inv, TypeOK, Now, NoCall, Calls, NoSummary, Sizes

\* _check_controls or the provider raises.
LEMMA RaiseKeeps ==
  ASSUME Inv, NEW error \in {"cancelled", "interrupted", "failed"}, Raise(error),
         history' = Now, UNCHANGED <<percent, signals>>
  PROVE  Inv'
  <1>1. /\ pc' \in {"handle", "end"} /\ outcome' = error /\ call' = NoCall
        /\ UNCHANGED <<messages, count, percent, cancelled, interrupted>>
    BY DEF Raise, signals
  <1>2. TypeOK'
    BY <1>1, NowIsTyped DEF Inv, TypeOK, Positions, Outcomes
  <1>3. AtomicInv'
    BY <1>1 DEF AtomicInv, Now, Raise
  <1>4. BudgetInv' /\ RequestInv'
    BY <1>1 DEF BudgetInv, RequestInv
  <1>5. QED
    BY <1>2, <1>3, <1>4 DEF Inv

\* The tool returns that nothing was to be done or could be done.
LEMMA ReturnKeeps ==
  ASSUME Inv, NEW how \in {"ok", "blocked"}, Return(how, messages),
         history' = Now, UNCHANGED <<count, percent, signals>>
  PROVE  Inv'
  <1>1. /\ pc' = "cycle" /\ outcome' = how /\ call' = NoCall
        /\ messages' = Append(messages, StatusMessage)
        /\ UNCHANGED <<count, percent, cancelled, interrupted>>
    BY DEF Return, signals, StatusMessage
  <1>2. messages' \in Conversations
    BY <1>1, StatusGrows DEF Inv, TypeOK
  <1>3. TypeOK'
    BY <1>1, <1>2, NowIsTyped DEF Inv, TypeOK, Positions, Outcomes
  <1>4. AtomicInv'
    BY <1>1 DEF AtomicInv, Now
  <1>5. BudgetInv' /\ RequestInv'
    BY <1>1 DEF BudgetInv, RequestInv
  <1>6. QED
    BY <1>3, <1>4, <1>5 DEF Inv

\* compactify_messages_when_needed up to the request for a summary.
LEMMA CheckKeeps ==
  ASSUME Inv, CheckBudget
  PROVE  Inv'
  <1>1. pc = "cycle" /\ history' = Now /\ UNCHANGED <<percent, signals>>
    BY DEF CheckBudget, Now
  <1>2. CASE RaiseControl
    BY <1>1, <1>2, RaiseKeeps DEF RaiseControl
  <1>3. CASE Return("ok", messages) /\ UNCHANGED count
    BY <1>1, <1>3, ReturnKeeps
  <1>4. CASE Return("blocked", messages) /\ UNCHANGED count
    BY <1>1, <1>4, ReturnKeeps
  <1>5. CASE /\ pc' = "ask"
             /\ call' = [NoCall EXCEPT !.maxChars = SummaryBudget(messages), !.attempt = 1,
                                       !.request = <<Message("system", 1, 0, DEFAULT), Source>>]
             /\ UNCHANGED <<messages, count, outcome>>
    <2> DEFINE r == <<Message("system", 1, 0, DEFAULT), Source>>
    <2>1. r \in Seq(AnyMessage) /\ Len(r) = 2 /\ r[2] = Source /\ Source.rules = NO_TRUNCATION
      <3>1. Source \in AnyMessage /\ Source.rules = NO_TRUNCATION
        BY SizesAssumption, RulesOfMessages DEF Source, Message, AnyMessage, Messages, Kinds
      <3>2. Message("system", 1, 0, DEFAULT) \in AnyMessage
        BY RulesOfMessages DEF Message, AnyMessage, Messages, Kinds, BootKinds
      <3>3. QED
        BY <3>1, <3>2
    <2> HIDE DEF r
    <2>2. call' \in Calls /\ call'.maxChars = SummaryBudget(messages) /\ call'.request = r /\ call'.repairs = <<>>
      BY <1>5, <2>1, NumbersOfBudget, NowIsTyped DEF Calls, NoCall, r
    <2>3. TypeOK'
      BY <1>1, <1>5, <2>2, NowIsTyped DEF Inv, TypeOK, Positions, signals
    <2>4. AtomicInv'
      BY <1>1, <1>5 DEF AtomicInv, Now
    <2>5. SummaryBudget(messages)' = SummaryBudget(messages) /\ TargetTokens' = TargetTokens
      BY <1>1, <1>5 DEF SummaryBudget, TargetTokens
    <2>6. BudgetInv'
      BY <1>1, <1>5, <2>2, <2>5 DEF Inv, BudgetInv
    <2>7. RequestInv'
      <3>1. Len(call'.request) = 2 /\ call'.request[2] = Source
        BY <2>1, <2>2
      <3>2. call'.request[Len(call'.request)].rules = NO_TRUNCATION
        BY <2>1, <3>1
      <3>3. Len(call'.repairs) = 0
        BY <2>2
      <3>4. QED
        BY <3>1, <3>2, <3>3 DEF RequestInv
    <2>8. QED
      BY <2>3, <2>4, <2>6, <2>7 DEF Inv
  <1>6. QED
    BY <1>2, <1>3, <1>4, <1>5 DEF CheckBudget

\* A step of the tool that leaves the conversation alone and goes on.
LEMMA WorkKeeps ==
  ASSUME Inv, pc \in {"ask", "answered", "measure"}, pc' \in {"ask", "answered", "measure"},
         call' \in Calls, call'.maxChars = call.maxChars,
         UNCHANGED <<messages, count, percent, signals, outcome, history>>,
         RequestInv'
  PROVE  Inv'
  <1>1. TypeOK'
    BY DEF Inv, TypeOK, Positions, signals
  <1>2. AtomicInv'
    BY DEF Inv, AtomicInv
  <1>3. SummaryBudget(messages)' = SummaryBudget(messages) /\ TargetTokens' = TargetTokens
    BY DEF SummaryBudget, TargetTokens
  <1>4. BudgetInv'
    BY <1>3 DEF Inv, BudgetInv
  <1>5. QED
    BY <1>1, <1>2, <1>4 DEF Inv

\* get_completion: a repair prompt follows the request until the next attempt.
LEMMA CompletionKeeps ==
  ASSUME Inv, CallStopped \/ CallFails \/ CallMalformed \/ \E s \in SummaryValues : CallAnswers(s)
  PROVE  Inv'
  <1>1. pc = "ask" /\ history' = Now /\ UNCHANGED <<percent, signals>>
    BY HistoryIsNow DEF CallStopped, CallFails, CallMalformed, CallAnswers
  <1>2. CASE \E e \in {"cancelled", "interrupted", "failed"} : Raise(e)
    BY <1>1, <1>2, RaiseKeeps
  <1>3. call \in Calls /\ history' = history
    BY <1>1, HistoryIsNow DEF Inv, TypeOK
  <1> DEFINE repair == Message("error", LightMax + 1, 0, ERROR_RETRY)
  <1>4. CASE /\ call' = [call EXCEPT !.repairs = Append(@, repair)]
             /\ UNCHANGED <<messages, count, pc, outcome>>
    <2>1. repair \in AnyMessage /\ repair.rules = ERROR_RETRY
      <3>1. ERROR_RETRY \in Rules
        BY RulesOfMessages
      <3>2. QED
        BY <3>1, SizesAssumption DEF Message, AnyMessage, Messages, Kinds
    <2> HIDE DEF repair
    <2>2. call.repairs \in Seq(AnyMessage)
      BY <1>3 DEF Calls
    <2>3. /\ Append(call.repairs, repair) \in Seq(AnyMessage)
          /\ \A i \in 1 .. Len(Append(call.repairs, repair)) :
               \/ i \in 1 .. Len(call.repairs) /\ Append(call.repairs, repair)[i] = call.repairs[i]
               \/ Append(call.repairs, repair)[i] = repair
      BY <2>1, <2>2
    <2>4. /\ call' \in Calls /\ call'.maxChars = call.maxChars /\ call'.request = call.request
          /\ call'.repairs = Append(call.repairs, repair)
      BY <1>3, <1>4, <2>3 DEF Calls
    <2>5. RequestInv'
      BY <1>1, <1>4, <2>1, <2>3, <2>4 DEF Inv, RequestInv
    <2>6. QED
      BY <1>1, <1>3, <1>4, <2>4, <2>5, WorkKeeps
  <1>5. ASSUME NEW s \in SummaryValues, CallAnswers(s) PROVE Inv'
    <2>1. s \in Sizes
      BY SizesAssumption DEF SummaryValues, Sizes
    <2>2. /\ call' \in Calls /\ call'.maxChars = call.maxChars /\ call'.request = call.request
          /\ call'.repairs = call.repairs
      BY <1>3, <1>5, <2>1 DEF CallAnswers, Calls
    <2>3. RequestInv'
      BY <1>1, <2>2 DEF Inv, RequestInv
    <2>4. QED
      BY <1>1, <1>5, <2>2, <2>3, WorkKeeps DEF CallAnswers
  <1>6. QED
    BY <1>2, <1>4, <1>5 DEF CallStopped, CallFails, CallMalformed, RaiseControl

LEMMA Joined ==
  ASSUME NEW S, NEW s \in Seq(S), NEW t \in Seq(S)
  PROVE  /\ s \o t \in Seq(S)
         /\ Len(s \o t) = Len(s) + Len(t)
         /\ \A i \in 1 .. Len(s) : (s \o t)[i] = s[i]
         /\ \A i \in 1 .. Len(t) : (s \o t)[Len(s) + i] = t[i]
  OBVIOUS

\* summarize_conversation_segment: a draft that is too long and the feedback
\* follow the source.
LEMMA SummaryKeeps ==
  ASSUME Inv, TakeSummary
  PROVE  Inv'
  <1>1. pc = "answered" /\ history' = Now /\ history' = history /\ UNCHANGED <<percent, signals>>
    BY HistoryIsNow DEF TakeSummary
  <1>2. CASE RaiseControl
    BY <1>1, <1>2, RaiseKeeps DEF RaiseControl
  <1>3. CASE ~RaiseControl
    <2> DEFINE shortest == Shortest(call.shortest, call.summary)
    <2>1. call \in Calls /\ UNCHANGED <<messages, count, outcome>> /\ pc' \in {"ask", "measure"}
      BY <1>3 DEF TakeSummary, Inv, TypeOK
    <2>2. shortest \subseteq Sizes /\ shortest # {}
      BY <2>1 DEF Shortest, Calls
    <2> HIDE DEF shortest
    <2>3. CASE pc' = "measure" /\ UNCHANGED call
      BY <1>1, <2>1, <2>3, WorkKeeps DEF RequestInv
    <2>4. CASE /\ pc' = "ask"
               /\ call' = [call EXCEPT !.attempt = @ + 1, !.shortest = shortest, !.repairs = <<>>,
                                       !.request = @ \o Feedback]
      <3>1. Feedback \in Seq(AnyMessage) /\ Len(Feedback) = 2 /\ Feedback[2].rules = DEFAULT
        <4>1. DEFAULT \in Rules /\ LightMax + 1 \in Nat
          BY RulesOfMessages, SizesAssumption
        <4>2. /\ Message("draft", LightMax + 1, 0, DEFAULT) \in AnyMessage
              /\ Message("feedback", 1, 0, DEFAULT) \in AnyMessage
              /\ Message("feedback", 1, 0, DEFAULT).rules = DEFAULT
          BY <4>1 DEF Message, AnyMessage, Messages, Kinds
        <4>3. QED
          BY <4>2 DEF Feedback
      <3>2. call.request \in Seq(AnyMessage)
        BY <2>1 DEF Calls
      <3> DEFINE r == call.request \o Feedback
      <3>3. r \in Seq(AnyMessage) /\ Len(r) = Len(call.request) + 2 /\ r[Len(r)] = Feedback[2]
        <4>1. 2 \in 1 .. Len(Feedback) /\ Len(call.request) \in Nat
          BY <3>1, <3>2
        <4>2. QED
          BY <3>1, <3>2, <4>1, Joined
      <3>4. Len(call.request) >= 2 /\ r[2] = call.request[2] /\ call.request[2] = Source
        BY <1>1, <3>2 DEF Inv, RequestInv
      <3> HIDE DEF r
      <3>5. call' \in Calls /\ call'.maxChars = call.maxChars /\ call'.request = r /\ call'.repairs = <<>>
        <4>1. call' = [call EXCEPT !.attempt = call.attempt + 1, !.shortest = shortest, !.repairs = <<>>, !.request = r]
          BY <2>4 DEF r
        <4>2. <<>> \in Seq(AnyMessage) /\ call.attempt + 1 \in Nat
          BY <2>1 DEF Calls
        <4>3. QED
          BY <2>1, <2>2, <3>3, <4>1, <4>2 DEF Calls
      <3>6. Len(r) >= 2
        BY <3>2, <3>3, <3>4
      <3>7. RequestInv'
        BY <3>1, <3>3, <3>4, <3>5, <3>6 DEF RequestInv
      <3>8. QED
        BY <1>1, <2>1, <2>4, <3>5, <3>7, WorkKeeps
    <2>5. CASE pc' = "measure" /\ call' = [call EXCEPT !.summary = CHOOSE s \in shortest : TRUE]
      <3>1. (CHOOSE s \in shortest : TRUE) \in Sizes
        BY <2>2
      <3>2. call' \in Calls /\ call'.maxChars = call.maxChars
        BY <2>1, <2>5, <3>1 DEF Calls
      <3>3. QED
        BY <1>1, <2>1, <2>5, <3>2, WorkKeeps DEF RequestInv
    <2>6. QED
      BY <1>3, <2>3, <2>4, <2>5 DEF TakeSummary, shortest
  <1>4. QED
    BY <1>2, <1>3

\* The candidate is measured, and goes on only within the limits.
LEMMA MeasureKeeps ==
  ASSUME Inv, Measure
  PROVE  Inv'
  <1>1. pc = "measure" /\ history' = Now /\ history' = history /\ UNCHANGED <<percent, signals>>
    BY HistoryIsNow DEF Measure
  <1>2. CASE RaiseControl
    BY <1>1, <1>2, RaiseKeeps DEF RaiseControl
  <1>3. CASE Return("blocked", messages) /\ UNCHANGED count
    BY <1>1, <1>3, ReturnKeeps
  <1>4. CASE Fits /\ pc' = "commit" /\ UNCHANGED <<messages, count, outcome, call>>
    <2>1. TypeOK'
      BY <1>1, <1>4 DEF Inv, TypeOK, Positions, signals
    <2>2. AtomicInv'
      BY <1>1, <1>4 DEF AtomicInv, Now
    <2>3. Fits' /\ TargetTokens' = TargetTokens
      BY <1>1, <1>4 DEF Fits, TargetTokens
    <2>4. BudgetInv' /\ RequestInv'
      BY <1>1, <1>4, <2>3 DEF Inv, BudgetInv, RequestInv
    <2>5. QED
      BY <2>1, <2>2, <2>4 DEF Inv
  <1>5. QED
    BY <1>2, <1>3, <1>4 DEF Measure

\* The conversation is replaced, and still fits with the status message.
LEMMA CommitKeeps ==
  ASSUME Inv, Commit
  PROVE  Inv'
  <1>1. pc = "commit" /\ history' = Now /\ history' = history /\ UNCHANGED <<percent, signals>>
    BY HistoryIsNow DEF Commit
  <1>2. CASE RaiseControl
    BY <1>1, <1>2, RaiseKeeps DEF RaiseControl
  <1>3. CASE Return("compacted", Candidate(messages, call.summary)) /\ count' = count + 1
    <2> DEFINE c == Candidate(messages, call.summary)
    <2>1. /\ pc' = "cycle" /\ outcome' = "compacted" /\ call' = NoCall
          /\ messages' = Append(c, StatusMessage)
          /\ UNCHANGED <<percent, cancelled, interrupted>>
      BY <1>1, <1>3 DEF Return, signals, StatusMessage
    <2>2. messages \in Conversations /\ call.summary \in Sizes
      BY DEF Inv, TypeOK, Calls
    <2>3. c \in Seq(Plain) /\ c \in Conversations
      BY <2>2, CandidateIsPlain, PlainIsConversation
    <2>4. EstimateTokens(c) <= TargetTokens
      BY <1>1 DEF Inv, BudgetInv, Fits
    <2> HIDE DEF c
    <2>5. messages' \in Conversations /\ EstimateTokens(messages') <= TargetTokens
      BY <2>1, <2>3, <2>4, StatusGrows, StatusIsFree
    <2>6. TypeOK'
      BY <1>1, <1>3, <2>1, <2>5, NowIsTyped DEF Inv, TypeOK, Positions, Outcomes
    <2>7. AtomicInv'
      <3>1. history.messages = messages /\ history.count = count
        BY <1>1 DEF Now
      <3>2. messages' = Append(Candidate(history'.messages, call.summary), StatusMessage)
        BY <1>1, <2>1, <3>1 DEF c
      <3>3. count' = history'.count + 1
        BY <1>1, <1>3, <3>1
      <3>4. QED
        BY <2>1, <2>2, <3>2, <3>3 DEF AtomicInv
    <2>8. BudgetInv' /\ RequestInv'
      <3>1. TargetTokens' = TargetTokens
        BY <1>1 DEF TargetTokens
      <3>2. EstimateTokens(messages)' = EstimateTokens(messages')
        OBVIOUS
      <3>3. QED
        BY <2>1, <2>5, <3>1, <3>2 DEF BudgetInv, RequestInv
    <2>9. QED
      BY <2>6, <2>7, <2>8 DEF Inv
  <1>4. QED
    BY <1>2, <1>3 DEF Commit

\* The agent adds a message, or somebody raises or handles a signal.
LEMMA OtherKeeps ==
  ASSUME Inv, \/ HandleInterrupt \/ Cancel \/ Interrupt \/ Done \/ UNCHANGED vars
              \/ \E m \in NewMessages : AddMessage(m)
  PROVE  Inv'
  <1>1. ASSUME UNCHANGED <<messages, count, percent, pc, call, outcome, history>>,
               cancelled' \in BOOLEAN, interrupted' \in BOOLEAN
        PROVE  Inv'
    <2>1. TypeOK' /\ AtomicInv' /\ RequestInv'
      BY <1>1 DEF Inv, TypeOK, AtomicInv, RequestInv
    <2>2. BudgetInv'
      BY <1>1 DEF Inv, BudgetInv, Fits, SummaryBudget, TargetTokens
    <2>3. QED
      BY <2>1, <2>2 DEF Inv
  <1>2. CASE Cancel \/ Interrupt \/ Done \/ UNCHANGED vars
    BY <1>1, <1>2 DEF Cancel, Interrupt, Done, vars, signals, Inv, TypeOK
  <1>3. CASE HandleInterrupt
    <2>1. history = Now
      BY <1>3, HistoryIsNow DEF HandleInterrupt
    <2>2. outcome = "interrupted"
      BY <1>3 DEF HandleInterrupt, Inv, AtomicInv
    <2>3. TypeOK'
      BY <1>3 DEF HandleInterrupt, Inv, TypeOK, Positions
    <2>4. AtomicInv'
      BY <1>3, <2>1, <2>2 DEF HandleInterrupt, AtomicInv, Now
    <2>5. BudgetInv' /\ RequestInv'
      BY <1>3, <2>2 DEF HandleInterrupt, BudgetInv, RequestInv
    <2>6. QED
      BY <2>3, <2>4, <2>5 DEF Inv
  <1>4. ASSUME NEW m \in NewMessages, AddMessage(m) PROVE Inv'
    <2>1. /\ pc = "cycle" /\ pc' = "cycle" /\ outcome' = "none"
          /\ messages' = Append(messages, m)
          /\ UNCHANGED <<count, percent, cancelled, interrupted, call, history>>
      BY <1>4 DEF AddMessage, signals
    <2>2. m \in AnyMessage /\ m.kind \notin BootKinds
      BY NewMessagesAssumption DEF AnyMessage, Messages, Kinds
    <2>3. messages' \in Conversations
      BY <2>1, <2>2, ConversationGrows DEF Inv, TypeOK
    <2>4. TypeOK'
      BY <2>1, <2>3 DEF Inv, TypeOK, Positions, Outcomes
    <2>5. AtomicInv' /\ BudgetInv' /\ RequestInv'
      BY <2>1 DEF AtomicInv, BudgetInv, RequestInv
    <2>6. QED
      BY <2>4, <2>5 DEF Inv
  <1>5. QED
    BY <1>2, <1>3, <1>4

LEMMA Widened ==
  ASSUME NEW S, NEW T, S \subseteq T, NEW s \in Seq(S)
  PROVE  s \in Seq(T)
  OBVIOUS

LEMMA InitInv ==
  ASSUME Init
  PROVE  Inv
  <1>1. PICK boot \in Boots : messages = boot
    BY DEF Init
  <1>2. messages \in Seq(Messages(BootKinds, {DEFAULT}))
    BY <1>1, BootsAssumption
  <1>3. Messages(BootKinds, {DEFAULT}) \subseteq Plain
    BY DEF Plain, Messages, Kinds
  <1>4. messages \in Conversations
    <2>1. messages \in Seq(Plain)
      BY <1>2, <1>3, Widened
    <2>2. QED
      BY <2>1, PlainIsConversation
  <1>5. /\ count = 0 /\ cancelled = FALSE /\ interrupted = FALSE
        /\ pc = "cycle" /\ outcome = "none" /\ call = NoCall
        /\ history = [messages |-> messages, count |-> 0] /\ percent \in Thresholds
    BY DEF Init
  <1>6. NoCall \in Calls
    BY DEF NoCall, Calls, NoSummary, Sizes
  <1>7. TypeOK
    BY <1>4, <1>5, <1>6 DEF TypeOK, Positions, Outcomes
  <1>8. AtomicInv /\ BudgetInv /\ RequestInv
    BY <1>5 DEF AtomicInv, BudgetInv, RequestInv
  <1>9. QED
    BY <1>7, <1>8 DEF Inv

LEMMA StepInv ==
  ASSUME Inv, [Next]_vars
  PROVE  Inv'
  BY CheckKeeps, CompletionKeeps, SummaryKeeps, MeasureKeeps, CommitKeeps, OtherKeeps
  DEF Next, Tool

LEMMA Invariant == Spec => []Inv
  BY InitInv, StepInv, PTL DEF Spec

-----------------------------------------------------------------------------
(* The theorems.                                                            *)

\* Every variable of the compaction keeps its type: the conversation has a
\* bootstrap message only under the default rules, and the call under way has
\* sizes and messages only.
THEOREM TypeCorrect == Spec => []TypeOK
  BY Invariant, PTL DEF Inv

\* The threshold in tokens is the one the percentage means.
LEMMA BelowThreshold ==
  ASSUME Inv, NEW n \in Int, n <= TargetTokens
  PROVE  n < MaxContext /\ ~(n * 100 >= percent * MaxContext)
  <1> DEFINE P == MaxContext * percent
  <1>1. MaxContext \in Nat /\ percent \in Nat /\ P \in Nat /\ percent * MaxContext = P
    BY SizesAssumption DEF Inv, TypeOK
  <1> HIDE DEF P
  <1>2. n < MaxContext /\ n < P \div 100
    BY <1>1 DEF TargetTokens, P
  <1>3. n * 100 < P
    BY <1>1, <1>2
  <1>4. QED
    BY <1>1, <1>2, <1>3

\* compactify_messages_when_needed: a compaction leaves the conversation below
\* the threshold and within the context, with the status message; and a summary
\* without escapes within the budget it was asked for is always taken.
THEOREM SufficientCompaction == Spec => []CompactionSuffices
  <1>1. Inv => CompactionSuffices
    <2> SUFFICES ASSUME Inv PROVE CompactionSuffices
      OBVIOUS
    <2>1. messages \in Conversations /\ call \in Calls
      BY DEF Inv, TypeOK
    <2>2. ASSUME outcome = "compacted"
          PROVE  ~OverThreshold(messages) /\ EstimateTokens(messages) < MaxContext
      <3>1. EstimateTokens(messages) <= TargetTokens
        BY <2>2 DEF Inv, BudgetInv
      <3>2. EstimateTokens(messages) \in Int
        BY <2>1, SumsDefined DEF EstimateTokens, Conversations
      <3>3. QED
        <4>1. /\ EstimateTokens(messages) < MaxContext
              /\ ~(EstimateTokens(messages) * 100 >= percent * MaxContext)
          BY <3>1, <3>2, BelowThreshold
        <4>2. QED
          BY <4>1 DEF OverThreshold
    <2>3. ASSUME pc = "measure", call.summary.len <= call.maxChars, call.summary.esc = 0
          PROVE  Fits
      <3> DEFINE s == call.summary
                 room == TargetTokens - EstimateTokens(Candidate(messages, NoSummary))
                 p == EstimateTokens(SubSeq(messages, 1, PrefixLen(messages)))
      <3>1. s \in Sizes /\ NoSummary \in Sizes /\ TargetTokens \in Int
        BY <2>1, NumbersOfBudget DEF Calls
      <3>2. /\ p \in Nat /\ SummaryTokens(s) \in Nat /\ SummaryTokens(NoSummary) \in Nat
            /\ EstimateTokens(Candidate(messages, s)) = p + SummaryTokens(s)
            /\ EstimateTokens(Candidate(messages, NoSummary)) = p + SummaryTokens(NoSummary)
        BY <2>1, <3>1, CandidateEstimate
      <3>3. room \in Int /\ s.len <= room * CharsPerToken
        BY <2>3, <3>1, <3>2 DEF Inv, BudgetInv, SummaryBudget
      <3>4. SummaryTokens(s) <= room + SummaryTokens(NoSummary)
        <4> HIDE DEF room, s
        <4>1. s.esc = 0
          BY <2>3 DEF s
        <4>2. QED
          BY <3>1, <3>3, <4>1, SummaryWithin
      <3>5. EstimateTokens(Candidate(messages, s)) <= TargetTokens
        <4> HIDE DEF p, s
        <4>1. QED
          BY <3>1, <3>2, <3>4
      <3>6. QED
        BY <2>3, <3>5 DEF Fits
    <2>4. QED
      BY <2>2, <2>3 DEF CompactionSuffices
  <1>2. QED
    BY <1>1, Invariant, PTL

\* compactify_messages_when_needed leaves conversation and counter alone until
\* it replaces both; then the startup messages, the summary and the status
\* message are all there is.
THEOREM AllOrNothing == Spec => []CompactionAtomic
  <1>1. Inv => CompactionAtomic
    <2> SUFFICES ASSUME Inv PROVE CompactionAtomic
      OBVIOUS
    <2> DEFINE old == history.messages
    <2>1. old \in Conversations /\ messages \in Conversations
      BY DEF Inv, TypeOK
    <2>2. old \in Seq(AnyMessage) /\ StatusMessage \in AnyMessage /\ Len(old) \in Nat
      BY <2>1, PlainIsMessage DEF Conversations
    <2>3. SubSeq(old, 1, Len(old)) = old
      BY <2>2
    <2>4. /\ SubSeq(Append(old, StatusMessage), 1, Len(old)) = old
          /\ Len(Append(old, StatusMessage)) = Len(old) + 1
      BY <2>2
    <2>5. ASSUME NEW s \in Sizes
          PROVE  LET n == PrefixLen(old)
                     q == Append(Candidate(old, s), StatusMessage)
                 IN  Len(q) = n + 2 /\ SubSeq(q, 1, n) = SubSeq(old, 1, n)
      <3> DEFINE n == PrefixLen(old)
                 p == SubSeq(old, 1, n)
                 m == CompactedMessage(s)
                 q == Append(Append(p, m), StatusMessage)
      <3>1. /\ p \in Seq(AnyMessage) /\ Len(p) = n /\ m \in AnyMessage
            /\ Candidate(old, s) = Append(p, m)
        BY <2>1, CandidateIsPlain, PlainIsMessage
      <3> HIDE DEF n, p, m
      <3>2. n \in Nat
        BY <3>1
      <3>3. q \in Seq(AnyMessage) /\ Len(q) = n + 2 /\ \A i \in 1 .. n : q[i] = p[i]
        BY <2>2, <3>1, <3>2
      <3> HIDE DEF q
      <3>4. SubSeq(q, 1, n) = p
        <4>1. SubSeq(q, 1, n) = [i \in 1 .. n |-> q[i]]
          BY <3>2, <3>3
        <4>2. p = [i \in 1 .. n |-> p[i]]
          BY <3>1, <3>2
        <4>3. QED
          BY <3>3, <4>1, <4>2
      <3>5. QED
        BY <3>1, <3>3, <3>4 DEF n, p, q
    <2>6. CASE pc # "cycle"
      BY <2>2, <2>3, <2>6 DEF Inv, AtomicInv, CompactionAtomic
    <2>7. CASE pc = "cycle"
      <3> HIDE DEF old
      <3>1. CASE outcome = "none"
        BY <2>7, <3>1 DEF CompactionAtomic
      <3>2. CASE outcome \in {"ok", "blocked", "interrupted"}
        BY <2>2, <2>3, <2>4, <2>7, <3>2 DEF Inv, AtomicInv, CompactionAtomic, old
      <3>3. CASE outcome = "compacted"
        <4>1. PICK s \in Sizes : messages = Append(Candidate(old, s), StatusMessage)
          BY <2>7, <3>3 DEF Inv, AtomicInv, old
        <4>2. count = history.count + 1
          BY <2>7, <3>3 DEF Inv, AtomicInv
        <4>3. QED
          BY <2>5, <3>3, <4>1, <4>2 DEF CompactionAtomic, old
      <3>4. QED
        BY <2>7, <3>1, <3>2, <3>3 DEF Inv, AtomicInv
    <2>8. QED
      BY <2>6, <2>7
  <1>2. QED
    BY <1>1, Invariant, PTL

\* _initial_messages, _append_length_feedback and _reprompt_on_error: the source
\* is sent whole with every request, and the newest message is there.
THEOREM SourceIsWhole == Spec => []SourceNeverCut
  <1>1. Inv => SourceNeverCut
    <2> SUFFICES ASSUME Inv, pc = "ask" PROVE SourceNeverCut
      BY DEF SourceNeverCut
    <2> DEFINE r == call.request
               f == call.repairs
               n == Len(r) + Len(f)
    <2>1. r \in Seq(AnyMessage) /\ f \in Seq(AnyMessage)
      BY DEF Inv, TypeOK, Calls
    <2>2. /\ Len(r) >= 2 /\ r[2] = Source
          /\ r[Len(r)].rules \in {DEFAULT, NO_TRUNCATION}
          /\ \A i \in 1 .. Len(f) : f[i].rules = ERROR_RETRY
      BY DEF Inv, RequestInv
    <2> HIDE DEF r, f
    <2>3. Len(r) \in Nat /\ Len(f) \in Nat /\ n \in Nat /\ n >= 2
      BY <2>1, <2>2
    <2>4. Sent = r \o f /\ Len(Sent) = n /\ DOMAIN Sent = 1 .. n
      BY <2>1 DEF Sent, r, f
    <2>5. Sent[2] = Source
      BY <2>1, <2>2, <2>3, <2>4
    <2>6. Sent[n].rules \in {DEFAULT, NO_TRUNCATION, ERROR_RETRY}
      <3>1. CASE Len(f) = 0
        BY <2>1, <2>2, <2>3, <2>4, <3>1
      <3>2. CASE Len(f) # 0
        <4>1. Sent[n] = f[Len(f)] /\ Len(f) \in 1 .. Len(f)
          BY <2>1, <2>3, <2>4, <3>2
        <4>2. QED
          BY <2>2, <4>1
      <3>3. QED
        BY <3>1, <3>2
    <2>7. Severity(Sent, 2) = NONE
      <3>1. Source.kind # "system" /\ Source.rules = NO_TRUNCATION /\ n - 2 \in Nat
        BY <2>3 DEF Source, Message
      <3>2. QED
        BY <2>4, <2>5, <3>1, Selected DEF Severity
    <2>8. Severity(Sent, n) # REMOVE
      <3>1. Len(Sent) - n = 0
        BY <2>3, <2>4
      <3>2. QED
        BY <2>6, <3>1, Selected DEF Severity, NONE, LIGHT, REMOVE
    <2>9. Cut(Sent[2], NONE).body = LightMax + 1
      BY <2>5 DEF Cut, Source, Message
    <2>10. 2 \in Shown(Sent) /\ n \in Shown(Sent)
      BY <2>3, <2>4, <2>7, <2>8 DEF Shown, NONE, REMOVE
    <2>11. QED
      BY <2>4, <2>7, <2>9, <2>10 DEF SourceNeverCut
  <1>2. QED
    BY <1>1, Invariant, PTL
=============================================================================
