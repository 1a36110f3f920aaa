-------------------------- MODULE ConversationProofs --------------------------
(***************************************************************************)
(* Proofs about the conversation the model is shown and what it says: what *)
(* compaction keeps of it, for any sizes of messages, any window and       *)
(* protected ends, and however often it was compacted; what the loop makes *)
(* of the calls in a provider's stream, in whatever order their fragments  *)
(* come; and what the next request says of them and of a prompt's frames.  *)
(***************************************************************************)
EXTENDS ToolsProofs

Remarks == [kind : {"user", "assistant", "tool", "summary"}, n : Nat, size : Nat]

LEMMA CompactionNumbers ==
    /\ Window \in Nat /\ HeadN \in Nat /\ TailN \in Nat /\ Target \in Nat /\ ResultSize \in Nat
    /\ Sizes \subseteq Nat /\ MaxHistory \in Nat /\ MaxHistory >= 1
<1>1. {Window, HeadN, TailN, Target, ResultSize} \subseteq Nat /\ Sizes \subseteq Nat
  BY CompactionAssumption
<1> QED
  BY <1>1, CompactionAssumption

(* The tokens of the first n messages, for every n. *)
Sums(s) == CHOOSE upTo : upTo = [n \in 0..Len(s) |-> IF n = 0 THEN 0 ELSE upTo[n - 1] + s[n].size]

(* There is such a function: if there were none up to m, take the least m. *)
LEMMA SumsAre ==
    ASSUME NEW s \in Seq(Remarks)
    PROVE  Sums(s) = [n \in 0..Len(s) |-> IF n = 0 THEN 0 ELSE Sums(s)[n - 1] + s[n].size]
<1> DEFINE F(f, m) == f = [n \in 0..m |-> IF n = 0 THEN 0 ELSE f[n - 1] + s[n].size]
           B == {m \in Nat : ~ \E f : F(f, m)}
<1>1. B = {}
  <2> SUFFICES ASSUME B # {} PROVE FALSE
    OBVIOUS
  <2>1. PICK m \in B : \A y \in B : m <= y
    BY Least, B \subseteq Nat
  <2>2. m # 0
    <3> DEFINE f == [n \in 0..0 |-> 0]
    <3>1. F(f, 0)
      OBVIOUS
    <3> QED
      BY <2>1, <3>1
  <2>3. m - 1 \in Nat /\ ~(m <= m - 1)
    BY <2>1, <2>2
  <2>4. PICK f : F(f, m - 1)
    BY <2>1, <2>3
  <2> DEFINE g == [n \in 0..m |-> IF n = m THEN f[m - 1] + s[m].size ELSE f[n]]
  <2>5. \A n \in 0..m : n # m => g[n] = f[n] /\ n \in 0..(m - 1) /\ (n # 0 => g[n - 1] = f[n - 1])
    BY <2>1, <2>3
  <2>6. g[m] = f[m - 1] + s[m].size /\ g[m - 1] = f[m - 1]
    BY <2>1, <2>3
  <2>7. \A n \in 0..m : g[n] = IF n = 0 THEN 0 ELSE g[n - 1] + s[n].size
    <3> SUFFICES ASSUME NEW n \in 0..m PROVE g[n] = IF n = 0 THEN 0 ELSE g[n - 1] + s[n].size
      OBVIOUS
    <3>1. CASE n = m
      BY <2>2, <2>6, <3>1
    <3>2. CASE n # m
      <4>1. f[n] = IF n = 0 THEN 0 ELSE f[n - 1] + s[n].size
        BY <2>4, <2>5, <3>2
      <4>2. CASE n = 0
        BY <2>5, <3>2, <4>1, <4>2
      <4>3. CASE n # 0
        BY <2>5, <3>2, <4>1, <4>3
      <4> QED
        BY <4>2, <4>3
    <3> QED
      BY <3>1, <3>2
  <2>8. DOMAIN g = 0..m /\ g = [n \in 0..m |-> g[n]]
    OBVIOUS
  <2> HIDE DEF g
  <2>9. F(g, m)
    BY <2>7, <2>8
  <2> QED
    BY <2>1, <2>9
<1>2. PICK f : F(f, Len(s))
  <2>1. Len(s) \in Nat
    OBVIOUS
  <2> HIDE DEF F
  <2> QED
    BY <1>1, <2>1
<1> QED
  BY <1>2 DEF Sums

(* Every partial sum is a number, and it depends on the messages up to it. *)
LEMMA SumsCount ==
    ASSUME NEW s \in Seq(Remarks)
    PROVE  /\ Sums(s)[0] = 0
           /\ \A n \in 1..Len(s) : Sums(s)[n] = Sums(s)[n - 1] + s[n].size
           /\ \A n \in 0..Len(s) : Sums(s)[n] \in Nat
<1>1. /\ Sums(s)[0] = 0
      /\ \A n \in 1..Len(s) : Sums(s)[n] = Sums(s)[n - 1] + s[n].size
  <2> DEFINE f == Sums(s)
  <2>1. f = [n \in 0..Len(s) |-> IF n = 0 THEN 0 ELSE f[n - 1] + s[n].size] /\ Len(s) \in Nat
    BY SumsAre
  <2> HIDE DEF f
  <2>2. \A n \in 0..Len(s) : f[n] = IF n = 0 THEN 0 ELSE f[n - 1] + s[n].size
    BY <2>1
  <2>3. f[0] = 0
    BY <2>1, <2>2
  <2>4. \A n \in 1..Len(s) : f[n] = f[n - 1] + s[n].size
    BY <2>1, <2>2
  <2> QED
    BY <2>3, <2>4 DEF f
<1>2. \A n \in 1..Len(s) : s[n].size \in Nat
  <2>1. \A n \in 1..Len(s) : s[n] \in Remarks
    BY ElementOfSeq
  <2> QED
    BY <2>1 DEF Remarks
<1> DEFINE B == {n \in 0..Len(s) : Sums(s)[n] \notin Nat}
<1>3. B = {}
  <2> SUFFICES ASSUME B # {} PROVE FALSE
    OBVIOUS
  <2>1. PICK m \in B : \A y \in B : m <= y
    BY Least, B \subseteq Nat
  <2>2. m # 0 /\ m \in 1..Len(s) /\ m - 1 \in 0..Len(s) /\ m - 1 \notin B
    BY <1>1, <2>1
  <2>3. Sums(s)[m - 1] \in Nat
    BY <2>2
  <2> QED
    BY <1>1, <1>2, <2>1, <2>2, <2>3
<1> QED
  BY <1>1, <1>3

LEMMA TokensCount == ASSUME NEW s \in Seq(Remarks) PROVE Tokens(s) \in Nat /\ Tokens(s) = Sums(s)[Len(s)]
<1>1. Tokens(s) = Sums(s)[Len(s)]
  BY DEF Tokens, Sums
<1> QED
  BY <1>1, SumsCount

LEMMA TokensAdd ==
    ASSUME NEW s \in Seq(Remarks), NEW t \in Seq(Remarks)
    PROVE  Tokens(s \o t) = Tokens(s) + Tokens(t)
<1> DEFINE u == s \o t
<1>1. /\ u \in Seq(Remarks) /\ Len(u) = Len(s) + Len(t)
      /\ \A i \in 1..Len(s) : u[i] = s[i]
      /\ \A i \in 1..Len(t) : u[Len(s) + i] = t[i]
  OBVIOUS
<1> HIDE DEF u
<1>2. /\ Sums(u)[0] = 0
      /\ \A n \in 1..Len(u) : Sums(u)[n] = Sums(u)[n - 1] + u[n].size
      /\ \A n \in 0..Len(u) : Sums(u)[n] \in Nat
  BY <1>1, SumsCount
<1>3. /\ Sums(s)[0] = 0
      /\ \A n \in 1..Len(s) : Sums(s)[n] = Sums(s)[n - 1] + s[n].size
      /\ \A n \in 0..Len(s) : Sums(s)[n] \in Nat
  BY SumsCount
<1>4. /\ Sums(t)[0] = 0
      /\ \A n \in 1..Len(t) : Sums(t)[n] = Sums(t)[n - 1] + t[n].size
      /\ \A n \in 0..Len(t) : Sums(t)[n] \in Nat
  BY SumsCount
<1>5. Len(s) \in Nat /\ Len(t) \in Nat
  OBVIOUS
<1>6. \A n \in 0..Len(s) : Sums(u)[n] = Sums(s)[n]
  <2> DEFINE B == {n \in 0..Len(s) : Sums(u)[n] # Sums(s)[n]}
  <2> SUFFICES ASSUME B # {} PROVE FALSE
    OBVIOUS
  <2>1. PICK m \in B : \A y \in B : m <= y
    BY Least, B \subseteq Nat
  <2>2. m \in 1..Len(s) /\ m \in 1..Len(u) /\ m - 1 \in 0..Len(s) /\ m - 1 \notin B
    BY <1>1, <1>2, <1>3, <1>5, <2>1
  <2>3. Sums(u)[m - 1] = Sums(s)[m - 1] /\ u[m] = s[m]
    BY <1>1, <2>2
  <2> QED
    BY <1>2, <1>3, <2>1, <2>2, <2>3
<1>7. \A n \in 0..Len(t) : Sums(u)[Len(s) + n] = Sums(s)[Len(s)] + Sums(t)[n]
  <2> DEFINE B == {n \in 0..Len(t) : Sums(u)[Len(s) + n] # Sums(s)[Len(s)] + Sums(t)[n]}
  <2> SUFFICES ASSUME B # {} PROVE FALSE
    OBVIOUS
  <2>1. PICK m \in B : \A y \in B : m <= y
    BY Least, B \subseteq Nat
  <2>2. m # 0
    <3>1. Sums(u)[Len(s)] = Sums(s)[Len(s)] /\ Sums(s)[Len(s)] \in Nat
      BY <1>3, <1>5, <1>6
    <3>2. Len(s) + 0 = Len(s)
      BY <1>5
    <3> QED
      BY <1>4, <2>1, <3>1, <3>2
  <2>3. m \in 1..Len(t) /\ Len(s) + m \in 1..Len(u) /\ m - 1 \in 0..Len(t) /\ m - 1 \notin B
    BY <1>1, <1>5, <2>1, <2>2
  <2>4. Sums(u)[Len(s) + (m - 1)] = Sums(s)[Len(s)] + Sums(t)[m - 1] /\ u[Len(s) + m] = t[m]
    BY <1>1, <2>3
  <2>5. Sums(u)[Len(s) + m] = Sums(u)[(Len(s) + m) - 1] + u[Len(s) + m].size
    BY <1>2, <2>3
  <2>6. (Len(s) + m) - 1 = Len(s) + (m - 1)
    BY <1>5, <2>3
  <2>7. Sums(t)[m] = Sums(t)[m - 1] + t[m].size
    BY <1>4, <2>3
  <2>8. t[m].size \in Nat /\ Sums(t)[m - 1] \in Nat /\ Sums(s)[Len(s)] \in Nat
    <3>1. t[m] \in Remarks
      BY <2>3, ElementOfSeq
    <3>2. Len(s) \in 0..Len(s)
      BY <1>5
    <3> QED
      BY <1>3, <1>4, <2>3, <3>1, <3>2 DEF Remarks
  <2>9. Sums(u)[Len(s) + m] = Sums(s)[Len(s)] + Sums(t)[m]
    BY <2>4, <2>5, <2>6, <2>7, <2>8
  <2> QED
    BY <2>1, <2>9
<1>8. Sums(u)[Len(u)] = Sums(s)[Len(s)] + Sums(t)[Len(t)]
  BY <1>1, <1>5, <1>7
<1>9. Tokens(s) = Sums(s)[Len(s)] /\ Tokens(t) = Sums(t)[Len(t)] /\ Tokens(u) = Sums(u)[Len(u)]
  BY <1>1, TokensCount
<1> QED
  BY <1>8, <1>9 DEF u

(* What is kept of a stretch is its end, at least the newest message, and  *)
(* more than that only within the budget.                                  *)
LEMMA KeepNewestIs ==
    ASSUME NEW s \in Seq(Remarks), s # <<>>, NEW budget \in Int
    PROVE  \E start \in 1..Len(s) :
              /\ KeepNewest(s, budget) = SubSeq(s, start, Len(s))
              /\ start = Len(s) \/ Tokens(SubSeq(s, start, Len(s))) <= budget
<1>1. Len(s) \in Nat /\ Len(s) >= 1
  OBVIOUS
<1>2. \A i \in 1..Len(s) : Tokens(SubSeq(s, i, Len(s))) \in Nat
  <2> SUFFICES ASSUME NEW i \in 1..Len(s) PROVE Tokens(SubSeq(s, i, Len(s))) \in Nat
    OBVIOUS
  <2>1. SubSeq(s, i, Len(s)) \in Seq(Remarks)
    OBVIOUS
  <2> QED
    BY <2>1, TokensCount
<1> DEFINE Fits(i) == i = Len(s) \/ Tokens(SubSeq(s, i, Len(s))) <= budget
           Good(i) == /\ i = Len(s) \/ Tokens(SubSeq(s, i, Len(s))) <= budget
                      /\ i = 1 \/ Tokens(SubSeq(s, i - 1, Len(s))) > budget
           P == {i \in 1..Len(s) : Fits(i)}
<1>3. PICK x \in P : \A y \in P : x <= y
  <2>1. Len(s) \in P
    BY <1>1
  <2> QED
    BY <2>1, Least, P \subseteq Nat
<1>4. Good(x)
  <2> SUFFICES ASSUME x # 1 PROVE Tokens(SubSeq(s, x - 1, Len(s))) > budget
    BY <1>3
  <2>1. x - 1 \in 1..Len(s) /\ x - 1 \notin P
    BY <1>1, <1>3
  <2> QED
    BY <1>2, <2>1
<1> DEFINE start == CHOOSE i \in 1..Len(s) : Good(i)
<1>5. start \in 1..Len(s) /\ Good(start)
  BY <1>3, <1>4
<1>6. KeepNewest(s, budget) = SubSeq(s, start, Len(s))
  BY DEF KeepNewest
<1> QED
  BY <1>5, <1>6

(* A message is a summary, or one that was said, if shorter. *)
Recalls(m, said) ==
    IF m.kind = "summary" THEN m.n = 0
    ELSE m.n \in 1..Len(said) /\ m.kind = said[m.n].kind /\ m.size <= said[m.n].size

(* What a compaction must leave of what was said: its head, its end and    *)
(* its order.                                                              *)
InOrder(s, said) ==
    /\ s \in Seq(Remarks) /\ said \in Seq(Remarks)
    /\ s # <<>> /\ s[Len(s)].kind # "summary" /\ s[Len(s)].n = Len(said)
    /\ \A i \in 1..Len(s) : Recalls(s[i], said)
    /\ \A i \in 1..Len(s) : i <= HeadN => s[i].kind # "summary" /\ s[i].n = i
    /\ \A i, j \in 1..Len(s) :
          i < j /\ s[i].kind # "summary" /\ s[j].kind # "summary" => s[i].n < s[j].n

LEMMA SummariesAre ==
    ASSUME NEW summary \in Summaries
    PROVE  /\ summary \in Seq(Remarks) /\ Len(summary) \in {0, 1}
           /\ Len(summary) = 1 => summary[1].kind = "summary" /\ summary[1].n = 0
<1>1. CASE summary = <<>>
  BY <1>1
<1>2. CASE \E size \in Sizes : summary = <<Entry("summary", 0, size)>>
  <2>1. PICK size \in Sizes : summary = <<Entry("summary", 0, size)>>
    BY <1>2
  <2>2. Entry("summary", 0, size) \in Remarks
    BY CompactionNumbers DEF Entry, Remarks
  <2>3. Entry("summary", 0, size).kind = "summary" /\ Entry("summary", 0, size).n = 0
    BY DEF Entry
  <2> HIDE DEF Entry
  <2> QED
    BY <2>1, <2>2, <2>3
<1> QED
  BY <1>1, <1>2 DEF Summaries

(* A head, perhaps a summary, and an end of the conversation. *)
LEMMA JoinedInOrder ==
    ASSUME NEW said, NEW s, InOrder(s, said),
           NEW k \in (HeadN + 1)..Len(s), NEW summary \in Summaries
    PROVE  InOrder((SubSeq(s, 1, HeadN) \o summary) \o SubSeq(s, k, Len(s)), said)
<1>1. s \in Seq(Remarks) /\ HeadN \in Nat /\ Len(s) \in Nat /\ HeadN < Len(s) /\ k \in 1..Len(s)
  <2>1. s \in Seq(Remarks) /\ HeadN \in Nat
    BY CompactionNumbers DEF InOrder
  <2>2. Len(s) \in Nat
    BY <2>1
  <2> QED
    BY <2>1, <2>2
<1>2. \A i \in 1..Len(s) : s[i] \in Remarks
  BY <1>1
<1> DEFINE head == SubSeq(s, 1, HeadN)
           rest == SubSeq(s, k, Len(s))
           t == (head \o summary) \o rest
           m == HeadN + Len(summary)
<1>3. head \in Seq(Remarks) /\ Len(head) = HeadN /\ \A i \in 1..HeadN : head[i] = s[i]
  BY <1>1, <1>2
<1>4. /\ rest \in Seq(Remarks) /\ Len(rest) = Len(s) - k + 1
      /\ \A i \in 1..(Len(s) - k + 1) : rest[i] = s[k + i - 1]
  BY <1>1, <1>2
<1>5. /\ summary \in Seq(Remarks) /\ Len(summary) \in {0, 1}
      /\ Len(summary) = 1 => summary[1].kind = "summary" /\ summary[1].n = 0
  BY SummariesAre
<1>6. m \in Nat /\ HeadN <= m /\ ((Len(summary) = 0 /\ m = HeadN) \/ (Len(summary) = 1 /\ m = HeadN + 1))
  <2>1. Len(summary) = 0 \/ Len(summary) = 1
    BY <1>5
  <2>2. HeadN \in Nat /\ HeadN + 0 = HeadN
    BY <1>1
  <2>3. CASE Len(summary) = 0
    BY <2>2, <2>3
  <2>4. CASE Len(summary) = 1
    BY <2>2, <2>4
  <2> QED
    BY <2>1, <2>3, <2>4
<1> DEFINE hs == head \o summary
<1> HIDE DEF head, rest, m
<1>7. /\ hs \in Seq(Remarks) /\ Len(hs) = m
      /\ \A i \in 1..m : hs[i] = IF i <= HeadN THEN head[i] ELSE summary[i - HeadN]
  BY <1>3, <1>5, ConcatProperties DEF m
<1>8. /\ t \in Seq(Remarks) /\ Len(t) = m + (Len(s) - k + 1)
      /\ \A i \in 1..Len(t) : t[i] = IF i <= m THEN hs[i] ELSE rest[i - m]
  <2>1. t = hs \o rest
    OBVIOUS
  <2> HIDE DEF t, hs
  <2>2. /\ hs \o rest \in Seq(Remarks) /\ Len(hs \o rest) = Len(hs) + Len(rest)
        /\ \A i \in 1..(Len(hs) + Len(rest)) : (hs \o rest)[i] = IF i <= Len(hs) THEN hs[i] ELSE rest[i - Len(hs)]
    BY <1>4, <1>7, ConcatProperties
  <2> QED
    BY <1>4, <1>7, <2>1, <2>2
<1> HIDE DEF t, hs
<1>9. \A i \in 1..HeadN : i \in 1..Len(t) /\ t[i] = s[i]
  <2>1. \A i \in 1..HeadN : i \in 1..m /\ i \in 1..Len(t) /\ i <= HeadN /\ i <= m
    BY <1>1, <1>6, <1>8
  <2> QED
    BY <1>3, <1>7, <1>8, <2>1
<1>10. \A i \in 1..Len(t) : i > HeadN /\ i <= m => t[i].kind = "summary" /\ t[i].n = 0
  <2> SUFFICES ASSUME NEW i \in 1..Len(t), i > HeadN, i <= m
               PROVE  t[i].kind = "summary" /\ t[i].n = 0
    OBVIOUS
  <2>1. i = HeadN + 1 /\ Len(summary) = 1 /\ i \in 1..m /\ ~(i <= HeadN) /\ i - HeadN = 1
    BY <1>1, <1>6
  <2>2. t[i] = summary[1]
    BY <1>7, <1>8, <2>1
  <2> QED
    BY <1>5, <2>1, <2>2
<1>11. \A i \in 1..Len(t) : i > m => t[i] = s[k + (i - m) - 1] /\ k + (i - m) - 1 \in k..Len(s)
  <2> SUFFICES ASSUME NEW i \in 1..Len(t), i > m
               PROVE  t[i] = s[k + (i - m) - 1] /\ k + (i - m) - 1 \in k..Len(s)
    OBVIOUS
  <2>1. k \in Nat /\ k <= Len(s)
    BY <1>1
  <2>2. i - m \in 1..(Len(s) - k + 1) /\ ~(i <= m) /\ k + (i - m) - 1 \in k..Len(s)
    BY <1>1, <1>6, <1>8, <2>1
  <2>3. t[i] = rest[i - m]
    BY <1>8, <2>2
  <2> QED
    BY <1>4, <2>2, <2>3
<1>12. Len(t) \in Nat /\ Len(t) > m /\ m >= HeadN /\ k + (Len(t) - m) - 1 = Len(s)
  BY <1>1, <1>6, <1>8
(* Whatever is no new summary stands where it stood, or moved down. *)
<1> DEFINE From(i) == IF i <= HeadN THEN i ELSE k + (i - m) - 1
<1>13. \A i \in 1..Len(t) : (i <= HeadN \/ i > m) => From(i) \in 1..Len(s) /\ t[i] = s[From(i)]
  BY <1>1, <1>6, <1>9, <1>11, <1>12
<1>14. \A i \in 1..Len(t) : t[i].kind # "summary" => i <= HeadN \/ i > m
  BY <1>1, <1>6, <1>10
<1>15. \A i, j \in 1..Len(t) : i < j /\ (i <= HeadN \/ i > m) /\ (j <= HeadN \/ j > m) => From(i) < From(j)
  BY <1>1, <1>6, <1>12
<1>16. t # <<>> /\ t[Len(t)] = s[Len(s)]
  <2>1. Len(t) \in 1..Len(t)
    BY <1>6, <1>12
  <2>2. t[Len(t)] = s[k + (Len(t) - m) - 1]
    BY <1>11, <1>12, <2>1
  <2> QED
    BY <1>8, <1>12, <2>1, <2>2, EmptySeq
<1> HIDE DEF From
<1>17. \A i \in 1..Len(t) : Recalls(t[i], said)
  <2> SUFFICES ASSUME NEW i \in 1..Len(t) PROVE Recalls(t[i], said)
    OBVIOUS
  <2>1. CASE i <= HeadN \/ i > m
    BY <1>13, <2>1 DEF InOrder
  <2>2. CASE ~(i <= HeadN \/ i > m)
    <3>1. i > HeadN /\ i <= m
      BY <1>1, <1>6, <1>12, <2>2
    <3> QED
      BY <1>10, <3>1 DEF Recalls
  <2> QED
    BY <2>1, <2>2
<1>18. \A i \in 1..Len(t) : i <= HeadN => t[i].kind # "summary" /\ t[i].n = i
  BY <1>1, <1>9 DEF InOrder
<1>19. \A i, j \in 1..Len(t) :
          i < j /\ t[i].kind # "summary" /\ t[j].kind # "summary" => t[i].n < t[j].n
  <2> SUFFICES ASSUME NEW i \in 1..Len(t), NEW j \in 1..Len(t),
                      i < j, t[i].kind # "summary", t[j].kind # "summary"
               PROVE  t[i].n < t[j].n
    OBVIOUS
  <2>1. From(i) \in 1..Len(s) /\ t[i] = s[From(i)]
    BY <1>13, <1>14
  <2>2. From(j) \in 1..Len(s) /\ t[j] = s[From(j)]
    BY <1>13, <1>14
  <2>3. From(i) < From(j)
    BY <1>14, <1>15
  <2> QED
    BY <2>1, <2>2, <2>3 DEF InOrder
<1>20. said \in Seq(Remarks) /\ t[Len(t)].kind # "summary" /\ t[Len(t)].n = Len(said)
  BY <1>16 DEF InOrder
<1> QED
  BY <1>8, <1>16, <1>17, <1>18, <1>19, <1>20 DEF InOrder, t, head, rest

LEMMA MiddleInOrder ==
    ASSUME NEW said, NEW s, InOrder(s, said), NEW summary \in Summaries
    PROVE  InOrder(MiddleCompacted(s, summary), said)
<1> DEFINE head   == SubSeq(s, 1, HeadN)
           middle == SubSeq(s, HeadN + 1, Len(s) - TailN)
           tail   == SubSeq(s, Len(s) - TailN + 1, Len(s))
           room   == Target - Tokens(head) - Tokens(tail)
           newest == KeepNewest(middle, Max({0, room}))
           sum    == IF Len(newest) < Len(middle) THEN summary ELSE <<>>
<1>1. MiddleCompacted(s, summary) = IF HeadN + TailN >= Len(s) THEN s ELSE head \o sum \o newest \o tail
  BY DEF MiddleCompacted
<1>2. s \in Seq(Remarks) /\ HeadN \in Nat /\ TailN \in Nat /\ Target \in Nat
  BY CompactionNumbers DEF InOrder
<1>3. Len(s) \in Nat /\ \A i \in 1..Len(s) : s[i] \in Remarks
  BY <1>2, ElementOfSeq, LenProperties
<1>4. CASE HeadN + TailN >= Len(s)
  BY <1>1, <1>4
<1>5. CASE HeadN + TailN < Len(s)
  <2>1. /\ head \in Seq(Remarks) /\ middle \in Seq(Remarks) /\ tail \in Seq(Remarks)
        /\ Len(middle) = Len(s) - TailN - HeadN
    BY <1>2, <1>3, <1>5
  <2>2. sum \in Summaries /\ sum \in Seq(Remarks)
    <3>1. sum \in Summaries
      BY DEF Summaries
    <3> QED
      BY <3>1, SummariesAre
  <2> HIDE DEF head, middle, tail, newest, sum
  <2>3. Max({0, room}) \in Int
    <3>1. Tokens(head) \in Nat /\ Tokens(tail) \in Nat
      BY <2>1, TokensCount
    <3>2. room \in Int
      BY <1>2, <3>1
    <3> HIDE DEF room
    <3>3. \E x \in {0, room} : \A y \in {0, room} : x >= y
      BY <3>2
    <3>4. Max({0, room}) \in {0, room}
      BY <3>3 DEF Max
    <3> QED
      BY <3>2, <3>4
  <2> HIDE DEF room
  <2>4. middle # <<>> /\ Len(middle) \in Nat /\ Len(middle) >= 1
    BY <1>2, <1>3, <1>5, <2>1, EmptySeq
  <2>5. \E start \in 1..Len(middle) : newest = SubSeq(middle, start, Len(middle))
    BY <2>1, <2>3, <2>4, KeepNewestIs DEF newest
  <2>6. PICK start \in 1..Len(middle) : newest = SubSeq(middle, start, Len(middle))
    BY <2>5
  <2> DEFINE k == HeadN + start
             n == Len(s) - TailN
  <2>7. /\ start \in Nat /\ start >= 1 /\ start <= Len(middle) /\ n \in Nat /\ k \in Nat
        /\ Len(middle) = n - HeadN /\ k <= n /\ n <= Len(s)
    BY <1>2, <1>3, <1>5, <2>1, <2>4, <2>6
  <2>8. newest = SubSeq(s, k, n)
    <3>1. /\ HeadN + 1 \in 1..Len(s) /\ n \in 1..Len(s)
          /\ start \in 1..(n - (HeadN + 1) + 1) /\ Len(middle) \in 1..(n - (HeadN + 1) + 1)
          /\ (HeadN + 1) + start - 1 = k /\ (HeadN + 1) + Len(middle) - 1 = n
      BY <1>2, <1>3, <1>5, <2>7
    <3>2. SubSeq(SubSeq(s, HeadN + 1, n), start, Len(middle))
            = SubSeq(s, (HeadN + 1) + start - 1, (HeadN + 1) + Len(middle) - 1)
      BY <1>2, <3>1, SubSeqOfSubSeq
    <3> QED
      BY <2>6, <3>1, <3>2 DEF middle
  <2>9. /\ k \in (HeadN + 1)..Len(s) /\ k \in 1..(Len(s) + 1)
        /\ n \in (k - 1)..Len(s) /\ Len(s) \in n..Len(s)
    BY <1>2, <1>3, <2>7
  <2>10. newest \o tail = SubSeq(s, k, Len(s))
    <3>1. SubSeq(s, k, n) \o SubSeq(s, n + 1, Len(s)) = SubSeq(s, k, Len(s))
      BY <1>2, <2>9, ConcatAdjacentSubSeq
    <3> QED
      BY <2>8, <3>1 DEF tail
  <2>11. newest \in Seq(Remarks) /\ head \o sum \in Seq(Remarks)
    <3>1. \A i \in k..n : s[i] \in Remarks
      <4>1. k >= 1
        BY <1>2, <2>7
      <4>2. \A i \in k..n : i \in 1..Len(s)
        BY <1>3, <2>7, <4>1
      <4> QED
        BY <1>3, <4>2
    <3>2. k \in Int /\ n \in Int
      BY <2>7
    <3>3. SubSeq(s, k, n) \in Seq(Remarks)
      BY <3>1, <3>2, SubSeqProperties
    <3> QED
      BY <2>1, <2>2, <2>8, <3>3, ConcatProperties
  <2>12. head \o sum \o newest \o tail = (head \o sum) \o (newest \o tail)
    <3> DEFINE hs == head \o sum
    <3>1. hs \in Seq(Remarks) /\ newest \in Seq(Remarks) /\ tail \in Seq(Remarks)
      BY <2>1, <2>11
    <3> HIDE DEF hs
    <3>2. (hs \o newest) \o tail = hs \o (newest \o tail)
      BY <3>1, ConcatAssociative, SMTT(40)
    <3> QED
      BY <3>2 DEF hs
  <2> HIDE DEF k
  <2>13. InOrder((head \o sum) \o SubSeq(s, k, Len(s)), said)
    BY <2>2, <2>9, JoinedInOrder DEF head
  <2>14. ~(HeadN + TailN >= Len(s))
    BY <1>2, <1>3, <1>5
  <2> QED
    BY <1>1, <2>10, <2>12, <2>13, <2>14
<1> QED
  BY <1>2, <1>3, <1>4, <1>5

LEMMA ResultsInOrder ==
    ASSUME NEW said, NEW s, InOrder(s, said)
    PROVE  InOrder(ResultsTruncated(s), said)
<1> DEFINE t == ResultsTruncated(s)
<1>1. s \in Seq(Remarks) /\ ResultSize \in Nat /\ \A i \in 1..Len(s) : s[i] \in Remarks
  BY CompactionNumbers DEF InOrder
<1>2. \A i \in 1..Len(s) : t[i] \in Remarks /\ t[i].kind = s[i].kind /\ t[i].n = s[i].n /\ t[i].size <= s[i].size
  BY <1>1 DEF ResultsTruncated, Remarks
<1>3. t \in Seq(Remarks) /\ Len(t) = Len(s) /\ t # <<>>
  <2>1. DOMAIN t = 1..Len(s) /\ t = [i \in 1..Len(s) |-> t[i]]
    BY DEF ResultsTruncated
  <2> HIDE DEF t
  <2>2. t \in [1..Len(s) -> Remarks]
    BY <1>2, <2>1
  <2>3. Len(s) \in Nat /\ Len(s) >= 1
    BY <1>1 DEF InOrder
  <2> QED
    BY <2>2, <2>3, SeqDef
<1>4. Len(s) \in 1..Len(s) /\ \A i \in 1..Len(s) : s[i].size \in Nat /\ t[i].size \in Nat
  <2>1. Len(s) \in Nat /\ Len(s) >= 1
    BY <1>1 DEF InOrder
  <2> QED
    BY <1>1, <1>2, <2>1 DEF Remarks
<1> HIDE DEF t
<1>5. \A i \in 1..Len(t) : Recalls(t[i], said)
  <2> SUFFICES ASSUME NEW i \in 1..Len(s) PROVE Recalls(t[i], said)
    BY <1>3
  <2>1. Recalls(s[i], said)
    BY DEF InOrder
  <2>2. CASE s[i].kind = "summary"
    BY <1>2, <2>1, <2>2 DEF Recalls
  <2>3. CASE s[i].kind # "summary"
    <3>1. said[s[i].n].size \in Nat
      <4>1. said[s[i].n] \in Remarks
        BY <2>1, <2>3, ElementOfSeq DEF InOrder, Recalls
      <4> QED
        BY <4>1 DEF Remarks
    <3> QED
      BY <1>2, <1>4, <2>1, <2>3, <3>1 DEF Recalls
  <2> QED
    BY <2>2, <2>3
<1>6. \A i \in 1..Len(t) : i <= HeadN => t[i].kind # "summary" /\ t[i].n = i
  BY <1>2, <1>3 DEF InOrder
<1>7. \A i, j \in 1..Len(t) :
         i < j /\ t[i].kind # "summary" /\ t[j].kind # "summary" => t[i].n < t[j].n
  BY <1>2, <1>3 DEF InOrder
<1>8. said \in Seq(Remarks) /\ t[Len(t)].kind # "summary" /\ t[Len(t)].n = Len(said)
  BY <1>2, <1>3, <1>4 DEF InOrder
<1> QED
  BY <1>3, <1>5, <1>6, <1>7, <1>8 DEF InOrder, t

LEMMA EmergencyIs ==
    ASSUME NEW said, NEW s, InOrder(s, said), Len(s) >= HeadN
    PROVE  /\ InOrder(EmergencyTruncated(s), said)
           /\ \/ Tokens(EmergencyTruncated(s)) <= Window
              \/ Len(EmergencyTruncated(s)) <= HeadN + 1
<1> DEFINE head == SubSeq(s, 1, HeadN)
           rest == SubSeq(s, HeadN + 1, Len(s))
           budget == Window - Tokens(head)
           newest == KeepNewest(rest, budget)
<1>1. s \in Seq(Remarks) /\ HeadN \in Nat /\ Window \in Nat /\ Len(s) \in Nat
  BY CompactionNumbers DEF InOrder
<1>2. \A i \in 1..Len(s) : s[i] \in Remarks
  BY <1>1
<1>3. /\ head \in Seq(Remarks) /\ Len(head) = HeadN
      /\ rest \in Seq(Remarks) /\ Len(rest) = Len(s) - HeadN
  BY <1>1, <1>2
<1>4. budget \in Int /\ Tokens(head) \in Nat
  <2>1. Tokens(head) \in Nat
    BY <1>3, TokensCount
  <2> QED
    BY <1>1, <2>1
<1>5. EmergencyTruncated(s) = head \o newest
  BY DEF EmergencyTruncated
<1>6. CASE Len(s) = HeadN
  <2>1. rest = <<>> /\ head = s
    BY <1>1, <1>6, SubSeqFull, SubSeqEmpty
  <2>2. newest = <<>>
    BY <2>1 DEF KeepNewest
  <2>3. head \o newest = s
    BY <1>1, <2>1, <2>2, ConcatEmptySeq
  <2>4. EmergencyTruncated(s) = s /\ Len(s) <= HeadN + 1
    BY <1>1, <1>5, <1>6, <2>3
  <2> QED
    BY <2>4
<1>7. CASE Len(s) > HeadN
  <2> HIDE DEF head, rest, budget
  <2>1. rest # <<>>
    <3>1. Len(rest) # 0
      BY <1>1, <1>3, <1>7
    <3> QED
      BY <3>1, EmptySeq
  <2>2. PICK start \in 1..Len(rest) :
           /\ newest = SubSeq(rest, start, Len(rest))
           /\ start = Len(rest) \/ Tokens(SubSeq(rest, start, Len(rest))) <= budget
    BY <1>3, <1>4, <2>1, KeepNewestIs
  <2>3. newest \in Seq(Remarks) /\ Len(newest) = Len(rest) - start + 1
    BY <1>3, <2>2
  <2> HIDE DEF newest
  <2>4. newest = SubSeq(s, HeadN + start, Len(s))
    <3>1. /\ HeadN + 1 \in 1..Len(s) /\ Len(s) \in 1..Len(s)
          /\ start \in 1..(Len(s) - (HeadN + 1) + 1)
          /\ Len(rest) \in 1..(Len(s) - (HeadN + 1) + 1)
          /\ (HeadN + 1) + start - 1 = HeadN + start
          /\ (HeadN + 1) + Len(rest) - 1 = Len(s)
      BY <1>1, <1>3, <1>7
    <3> QED
      BY <1>1, <2>2, <3>1, SubSeqOfSubSeq DEF rest
  <2>5. HeadN + start \in (HeadN + 1)..Len(s) /\ <<>> \in Summaries
    BY <1>1, <1>3 DEF Summaries
  <2>6. InOrder((head \o <<>>) \o SubSeq(s, HeadN + start, Len(s)), said)
    BY <2>5, JoinedInOrder DEF head
  <2>7. head \o <<>> = head
    BY <1>3, ConcatEmptySeq
  <2>8. InOrder(head \o newest, said)
    BY <2>4, <2>6, <2>7
  <2>9. Len(head \o newest) = HeadN + Len(newest)
    <3>1. Len(head \o newest) = Len(head) + Len(newest)
      BY <1>3, <2>3, ConcatProperties
    <3> QED
      BY <1>3, <3>1
  <2>10. CASE start = Len(rest)
    BY <1>1, <1>3, <1>5, <2>3, <2>8, <2>9, <2>10
  <2>11. CASE Tokens(newest) <= budget
    <3>1. Tokens(head \o newest) = Tokens(head) + Tokens(newest) /\ Tokens(newest) \in Nat
      BY <1>3, <2>3, TokensAdd, TokensCount
    <3>2. Tokens(head \o newest) <= Window
      BY <1>1, <1>4, <2>11, <3>1 DEF budget
    <3> QED
      BY <1>5, <2>8, <3>2
  <2> QED
    BY <2>2, <2>10, <2>11
<1> QED
  BY <1>1, <1>6, <1>7

-------------------------------------------------------------------------------
Remembered ==
    /\ engine \in Engines /\ phase \in {"prepare", "call", "panicked"}
    /\ Len(history) \in 1..MaxHistory
    /\ \A i \in 1..Len(history) : history[i].n = i
    /\ InOrder(kept, history)
    /\ WindowFits

LEMMA RememberedInit == CompactionInit => Remembered
<1> SUFFICES ASSUME CompactionInit PROVE Remembered
  OBVIOUS
<1>1. PICK size \in Sizes : history = <<Entry("user", 1, size)>>
  BY DEF CompactionInit
<1>2. kept = history /\ engine \in Engines /\ phase = "prepare"
  BY DEF CompactionInit
<1>3. size \in Nat /\ MaxHistory \in Nat \ {0} /\ HeadN \in Nat
  BY CompactionNumbers
<1>4. /\ history \in Seq(Remarks) /\ Len(history) = 1 /\ history # <<>>
      /\ history[1].kind = "user" /\ history[1].n = 1 /\ history[1].size = size
  BY <1>1, <1>3 DEF Entry, Remarks
<1>5. 1..Len(history) = {1}
  BY <1>4
<1>6. InOrder(history, history)
  BY <1>3, <1>4, <1>5 DEF InOrder, Recalls
<1> QED
  BY <1>2, <1>3, <1>4, <1>5, <1>6 DEF Remembered, WindowFits

LEMMA StagesInOrder ==
    ASSUME InOrder(kept, history), NEW summary \in Summaries
    PROVE  InOrder(AfterResults(kept), history) /\ InOrder(AfterMiddle(kept, summary), history)
<1>1. InOrder(AfterResults(kept), history)
  BY ResultsInOrder DEF AfterResults
<1>2. InOrder(MiddleCompacted(AfterResults(kept), summary), history)
  BY <1>1, MiddleInOrder
<1> QED
  BY <1>1, <1>2 DEF AfterMiddle

LEMMA RememberedSays ==
    ASSUME Remembered, UseTool \/ AnswerAndAsk PROVE Remembered'
<1>1. PICK second \in {"tool", "user"} : Converse("assistant", second)
  BY DEF UseTool, AnswerAndAsk
<1>2. PICK a, b \in Sizes :
         LET said == <<Entry("assistant", Len(history) + 1, a), Entry(second, Len(history) + 2, b)>>
         IN  history' = history \o said /\ kept' = kept \o said
  BY <1>1 DEF Converse
<1> DEFINE x == Entry("assistant", Len(history) + 1, a)
           y == Entry(second, Len(history) + 2, b)
           said == <<x, y>>
<1>3. /\ Len(history) + 2 <= MaxHistory /\ phase' = "prepare" /\ UNCHANGED engine
      /\ MaxHistory \in Nat /\ a \in Nat /\ b \in Nat /\ HeadN \in Nat
  BY <1>1, CompactionNumbers DEF Converse
<1>4. history \in Seq(Remarks) /\ kept \in Seq(Remarks) /\ Len(history) \in Nat /\ Len(kept) \in Nat
  BY DEF Remembered, InOrder
<1>5. /\ x \in Remarks /\ x.kind = "assistant" /\ x.n = Len(history) + 1 /\ x.size = a
      /\ y \in Remarks /\ y.kind = second /\ y.n = Len(history) + 2 /\ y.size = b
  BY <1>3, <1>4 DEF Entry, Remarks
<1> HIDE DEF x, y
<1>6. /\ said \in Seq(Remarks) /\ Len(said) = 2 /\ said[1] = x /\ said[2] = y
  BY <1>5
<1>7. history' = history \o said /\ kept' = kept \o said
  BY <1>2 DEF x, y
<1> HIDE DEF said
<1>8. /\ history' \in Seq(Remarks) /\ Len(history') = Len(history) + 2
      /\ \A i \in 1..Len(history) : history'[i] = history[i]
      /\ history'[Len(history) + 1] = x /\ history'[Len(history) + 2] = y
  <2>1. /\ history \o said \in Seq(Remarks) /\ Len(history \o said) = Len(history) + 2
        /\ \A i \in 1..(Len(history) + 2) :
              (history \o said)[i] = IF i <= Len(history) THEN history[i] ELSE said[i - Len(history)]
    <3>1. /\ history \o said \in Seq(Remarks) /\ Len(history \o said) = Len(history) + Len(said)
          /\ \A i \in 1..(Len(history) + Len(said)) :
                (history \o said)[i] = IF i <= Len(history) THEN history[i] ELSE said[i - Len(history)]
      BY <1>4, <1>6, ConcatProperties
    <3> QED
      BY <1>6, <3>1
  <2>2. /\ Len(history) + 1 \in 1..(Len(history) + 2) /\ Len(history) + 2 \in 1..(Len(history) + 2)
        /\ (Len(history) + 1) - Len(history) = 1 /\ (Len(history) + 2) - Len(history) = 2
        /\ ~(Len(history) + 1 <= Len(history)) /\ ~(Len(history) + 2 <= Len(history))
        /\ \A i \in 1..Len(history) : i \in 1..(Len(history) + 2) /\ i <= Len(history)
    BY <1>4
  <2> QED
    BY <1>6, <1>7, <2>1, <2>2
<1>9. /\ kept' \in Seq(Remarks) /\ Len(kept') = Len(kept) + 2
      /\ \A i \in 1..Len(kept) : kept'[i] = kept[i]
      /\ kept'[Len(kept) + 1] = x /\ kept'[Len(kept) + 2] = y
  <2>1. /\ kept \o said \in Seq(Remarks) /\ Len(kept \o said) = Len(kept) + 2
        /\ \A i \in 1..(Len(kept) + 2) :
              (kept \o said)[i] = IF i <= Len(kept) THEN kept[i] ELSE said[i - Len(kept)]
    <3>1. /\ kept \o said \in Seq(Remarks) /\ Len(kept \o said) = Len(kept) + Len(said)
          /\ \A i \in 1..(Len(kept) + Len(said)) :
                (kept \o said)[i] = IF i <= Len(kept) THEN kept[i] ELSE said[i - Len(kept)]
      BY <1>4, <1>6, ConcatProperties
    <3> QED
      BY <1>6, <3>1
  <2>2. /\ Len(kept) + 1 \in 1..(Len(kept) + 2) /\ Len(kept) + 2 \in 1..(Len(kept) + 2)
        /\ (Len(kept) + 1) - Len(kept) = 1 /\ (Len(kept) + 2) - Len(kept) = 2
        /\ ~(Len(kept) + 1 <= Len(kept)) /\ ~(Len(kept) + 2 <= Len(kept))
        /\ \A i \in 1..Len(kept) : i \in 1..(Len(kept) + 2) /\ i <= Len(kept)
    BY <1>4
  <2> QED
    BY <1>6, <1>7, <2>1, <2>2
<1>10. \A i \in 1..Len(kept') : i \in 1..Len(kept) \/ i = Len(kept) + 1 \/ i = Len(kept) + 2
  BY <1>4, <1>9
<1>11. \A i \in 1..Len(history') : i \in 1..Len(history) \/ i = Len(history) + 1 \/ i = Len(history) + 2
  BY <1>4, <1>8
<1>12. \A i \in 1..Len(kept) :
          /\ Recalls(kept[i], history)
          /\ i <= HeadN => kept[i].kind # "summary" /\ kept[i].n = i
          /\ kept[i].kind # "summary" => kept[i].n \in 1..Len(history)
  BY DEF Remembered, InOrder, Recalls
<1>13. \A i \in 1..Len(kept') : Recalls(kept'[i], history')
  <2>1. \A i \in 1..Len(kept) : Recalls(kept[i], history')
    BY <1>4, <1>8, <1>12 DEF Recalls
  <2>2. Recalls(x, history') /\ Recalls(y, history')
    <3>1. Len(history) + 1 \in 1..Len(history') /\ Len(history) + 2 \in 1..Len(history')
      BY <1>4, <1>8
    <3>2. a <= a /\ b <= b /\ second # "summary"
      BY <1>3
    <3> QED
      BY <1>5, <1>8, <3>1, <3>2 DEF Recalls
  <2> QED
    BY <1>9, <1>10, <2>1, <2>2
(* A message below the head's limit: then all that was said is still kept. *)
<1>14. Len(kept) < HeadN => Len(kept) = Len(history)
  <2>1. Len(kept) \in 1..Len(kept) /\ kept[Len(kept)].n = Len(history)
    BY <1>4, EmptySeq DEF Remembered, InOrder
  <2> SUFFICES ASSUME Len(kept) < HeadN PROVE Len(kept) = Len(history)
    OBVIOUS
  <2>2. Len(kept) <= HeadN
    BY <1>3, <1>4
  <2> QED
    BY <1>12, <2>1, <2>2
<1>15. \A i \in 1..Len(kept') : i <= HeadN => kept'[i].kind # "summary" /\ kept'[i].n = i
  <2> SUFFICES ASSUME NEW i \in 1..Len(kept'), i <= HeadN PROVE kept'[i].kind # "summary" /\ kept'[i].n = i
    OBVIOUS
  <2>1. CASE i \in 1..Len(kept)
    BY <1>9, <1>12, <2>1
  <2>2. CASE i = Len(kept) + 1
    BY <1>3, <1>4, <1>5, <1>9, <1>14, <2>2
  <2>3. CASE i = Len(kept) + 2
    BY <1>3, <1>4, <1>5, <1>9, <1>14, <2>3
  <2> QED
    BY <1>10, <2>1, <2>2, <2>3
<1>16. ASSUME NEW i \in 1..Len(kept'), NEW j \in 1..Len(kept'), i < j,
              kept'[i].kind # "summary", kept'[j].kind # "summary"
       PROVE  kept'[i].n < kept'[j].n
  <2>1. CASE j \in 1..Len(kept)
    <3>1. i \in 1..Len(kept)
      BY <1>4, <1>16, <2>1
    <3> QED
      BY <1>9, <1>16, <2>1, <3>1 DEF Remembered, InOrder
  <2>2. CASE j = Len(kept) + 1
    <3>1. i \in 1..Len(kept)
      BY <1>4, <1>16, <2>2
    <3>2. kept'[i].n \in 1..Len(history) /\ kept'[j].n = Len(history) + 1
      BY <1>5, <1>9, <1>12, <1>16, <2>2, <3>1
    <3> QED
      BY <1>4, <3>2
  <2>3. CASE j = Len(kept) + 2
    <3>1. kept'[j].n = Len(history) + 2
      BY <1>5, <1>9, <2>3
    <3>2. CASE i \in 1..Len(kept)
      BY <1>4, <1>9, <1>12, <1>16, <3>1, <3>2
    <3>3. CASE i = Len(kept) + 1
      BY <1>4, <1>5, <1>9, <3>1, <3>3
    <3> QED
      BY <1>10, <1>16, <1>4, <2>3, <3>2, <3>3
  <2> QED
    BY <1>10, <2>1, <2>2, <2>3
<1>17. kept' # <<>> /\ kept'[Len(kept')].kind # "summary" /\ kept'[Len(kept')].n = Len(history')
  BY <1>4, <1>5, <1>8, <1>9
<1>18. InOrder(kept', history')
  BY <1>8, <1>9, <1>13, <1>15, <1>16, <1>17 DEF InOrder
<1>19. \A i \in 1..Len(history') : history'[i].n = i
  BY <1>5, <1>8, <1>11 DEF Remembered
<1>20. Len(history') \in 1..MaxHistory /\ engine' \in Engines
  BY <1>3, <1>4, <1>8 DEF Remembered
<1> QED
  BY <1>3, <1>18, <1>19, <1>20 DEF Remembered, WindowFits

LEMMA RememberedStep == Remembered /\ [CompactionNext]_compactionVars => Remembered'
<1> SUFFICES ASSUME Remembered, [CompactionNext]_compactionVars PROVE Remembered'
  OBVIOUS
<1>1. InOrder(kept, history) /\ Window \in Nat /\ HeadN \in Nat
  BY CompactionNumbers DEF Remembered
<1>2. \A s : InOrder(s, history) => Tokens(s) \in Nat /\ Len(s) \in Nat
  BY TokensCount DEF InOrder
<1>3. ASSUME UNCHANGED <<engine, history>>, phase' \in {"prepare", "call", "panicked"},
             InOrder(kept', history), WindowFits'
      PROVE  Remembered'
  BY <1>3 DEF Remembered
<1>4. CASE Within
  <2>1. kept' = kept /\ phase' = "call" /\ UNCHANGED <<engine, history>> /\ ~ShouldCompact(kept)
    BY <1>4 DEF Within
  <2>2. engine = "pipeline" => ~OverFull(kept)
    BY <2>1 DEF ShouldCompact
  <2> QED
    BY <1>1, <1>3, <2>1, <2>2 DEF WindowFits, OverFull
<1>5. CASE CompactMiddle
  <2>1. PICK summary \in Summaries : kept' = MiddleCompacted(kept, summary)
    BY <1>5 DEF CompactMiddle
  <2>2. engine = "estimator" /\ phase' = "call" /\ UNCHANGED <<engine, history>>
    BY <1>5 DEF CompactMiddle
  <2>3. InOrder(kept', history)
    BY <1>1, <2>1, MiddleInOrder
  <2> QED
    BY <1>3, <2>2, <2>3 DEF WindowFits
<1>6. CASE CompactStages
  <2>1. PICK summary \in Summaries :
           ~OverFull(AfterMiddle(kept, summary)) /\ kept' = AfterMiddle(kept, summary)
    BY <1>6 DEF CompactStages
  <2>2. phase' = "call" /\ UNCHANGED <<engine, history>>
    BY <1>6 DEF CompactStages
  <2>3. InOrder(kept', history) /\ ~OverFull(kept')
    BY <1>1, <2>1, StagesInOrder
  <2> QED
    BY <1>3, <2>2, <2>3 DEF WindowFits, OverFull
<1>7. CASE CompactEmergency
  <2>1. PICK summary \in Summaries :
           LET s == AfterMiddle(kept, summary)
           IN  OverFull(s) /\ Len(s) >= HeadN /\ kept' = EmergencyTruncated(s)
    BY <1>7 DEF CompactEmergency
  <2> DEFINE s == AfterMiddle(kept, summary)
  <2>2. phase' = "call" /\ UNCHANGED <<engine, history>>
    BY <1>7 DEF CompactEmergency
  <2>3. InOrder(s, history) /\ Len(s) >= HeadN /\ kept' = EmergencyTruncated(s)
    BY <1>1, <2>1, StagesInOrder
  <2> HIDE DEF s
  <2>4. InOrder(kept', history) /\ (Tokens(kept') <= Window \/ Len(kept') <= HeadN + 1)
    BY <2>3, EmergencyIs
  <2>5. WindowFits'
    BY <1>1, <1>2, <2>4 DEF WindowFits, OverFull
  <2> QED
    BY <1>3, <2>2, <2>4, <2>5
<1>8. CASE EmergencyPanics
  BY <1>1, <1>3, <1>8 DEF EmergencyPanics, WindowFits
<1>9. CASE UseTool \/ AnswerAndAsk
  BY <1>9, RememberedSays
<1>10. CASE UNCHANGED compactionVars
  BY <1>10 DEF Remembered, WindowFits, compactionVars, OverFull
<1> QED
  BY <1>4, <1>5, <1>6, <1>7, <1>8, <1>9, <1>10 DEF CompactionNext

(* The model sees what is not a summary, in order. *)
LEMMA RememberedKeeps == Remembered => ContextKept
<1> SUFFICES ASSUME Remembered PROVE ContextKept
  OBVIOUS
<1> DEFINE P == {i \in DOMAIN kept : kept[i].kind # "summary"}
           at == Ascending(P)
           n == Cardinality(P)
           seen == ToModel(kept)
<1>1. kept \in Seq(Remarks) /\ DOMAIN kept = 1..Len(kept) /\ Len(kept) \in Nat /\ HeadN \in Nat
  BY CompactionNumbers DEF Remembered, InOrder
<1>2. P \in SUBSET Nat /\ IsFiniteSet(P)
  <2>1. IsFiniteSet(1..Len(kept))
    BY <1>1, FS_Interval
  <2>2. P \subseteq 1..Len(kept)
    BY <1>1
  <2> QED
    BY <1>1, <2>1, <2>2, FS_Subset
<1>3. /\ n \in Nat /\ at \in [1..n -> P]
      /\ \A j, k \in 1..n : j < k => at[j] < at[k]
      /\ \A i \in P : \E k \in 1..n : at[k] = i
  BY <1>2, AscendingIs
<1>4. seen = [k \in 1..n |-> kept[at[k]]]
  BY <1>3 DEF ToModel, Those
<1>5. /\ \A i \in P : i \in 1..Len(kept) /\ kept[i].kind # "summary"
      /\ \A i \in 1..Len(kept) : i <= HeadN => i \in P /\ kept[i].n = i
      /\ Len(kept) \in P /\ kept[Len(kept)].n = Len(history)
      /\ \A i, j \in P : i < j => kept[i].n < kept[j].n
  BY <1>1 DEF Remembered, InOrder
<1> HIDE DEF P, at, n, seen
<1>6. /\ seen \in Seq(Remarks) /\ Len(seen) = n
      /\ \A k \in 1..n : at[k] \in P /\ seen[k] = kept[at[k]]
  <2>1. \A k \in 1..n : at[k] \in P /\ kept[at[k]] \in Remarks
    BY <1>1, <1>3, <1>5, ElementOfSeq
  <2>2. seen \in [1..n -> Remarks]
    BY <1>4, <2>1
  <2> QED
    BY <1>3, <1>4, <2>1, <2>2, SeqDef
<1>7. seen # <<>> /\ n >= 1 /\ seen[n].n = Len(history)
  <2>1. PICK k \in 1..n : at[k] = Len(kept)
    BY <1>3, <1>5
  <2>2. n \in 1..n /\ at[n] \in 1..Len(kept)
    BY <1>3, <1>5, <1>6, <2>1
  <2>3. k < n => at[k] < at[n]
    BY <1>3, <2>2
  <2>4. k = n
    BY <1>1, <1>3, <2>1, <2>2, <2>3
  <2> QED
    BY <1>3, <1>5, <1>6, <2>1, <2>2, <2>4
<1>8. \A j, k \in 1..n : j < k => seen[j].n < seen[k].n
  <2> SUFFICES ASSUME NEW j \in 1..n, NEW k \in 1..n, j < k PROVE seen[j].n < seen[k].n
    OBVIOUS
  <2>1. at[j] \in P /\ at[k] \in P /\ at[j] < at[k] /\ seen[j] = kept[at[j]] /\ seen[k] = kept[at[k]]
    BY <1>3, <1>6
  <2> QED
    BY <1>5, <2>1
<1>9. \A k \in 1..n : at[k] >= k
  <2> DEFINE B == {k \in 1..n : at[k] < k}
  <2> SUFFICES ASSUME B # {} PROVE FALSE
    <3>1. \A i \in P : i \in Nat
      BY <1>2
    <3>2. \A k \in 1..n : k \in Nat
      BY <1>3
    <3>3. \A k \in 1..n : at[k] \in Nat
      BY <1>6, <3>1
    <3> QED
      BY <3>2, <3>3
  <2>1. PICK k \in B : \A y \in B : k <= y
    BY <1>3, Least, B \subseteq Nat
  <2>2. k # 1
    BY <1>3, <1>5, <1>6, <2>1
  <2>3. k - 1 \in 1..n /\ k - 1 \notin B /\ k - 1 < k /\ k \in 1..n
    BY <1>3, <2>1, <2>2
  <2>4. at[k - 1] >= k - 1 /\ at[k - 1] < at[k] /\ at[k] < k
    BY <1>1, <1>3, <1>5, <1>6, <2>1, <2>3
  <2> QED
    BY <1>1, <1>5, <1>6, <2>3, <2>4
<1>10. \A k \in 1..n : k <= HeadN => at[k] = k
  <2> SUFFICES ASSUME NEW k \in 1..n, k <= HeadN, at[k] # k PROVE FALSE
    OBVIOUS
  <2> DEFINE C == {i \in 1..n : at[i] # i}
  <2>1. PICK c \in C : \A y \in C : c <= y
    <3>1. k \in C
      OBVIOUS
    <3> QED
      BY <1>3, <3>1, Least, C \subseteq Nat
  <2>2. c \in 1..n /\ c <= k /\ at[c] > c /\ at[c] <= Len(kept)
    BY <1>1, <1>3, <1>5, <1>6, <1>9, <2>1
  <2>3. c \in P
    BY <1>1, <1>3, <1>5, <2>2
  <2>4. PICK d \in 1..n : at[d] = c
    BY <1>3, <2>3
  <2>5. d < c
    BY <1>3, <1>9, <2>2, <2>4
  <2>6. d \notin C
    BY <1>3, <2>1, <2>5
  <2> QED
    BY <2>4, <2>5, <2>6
<1>11. \A k \in 1..Len(seen) : k <= HeadN => seen[k].n = k
  BY <1>1, <1>3, <1>5, <1>6, <1>10
<1>12. Last(seen).n = Len(history)
  BY <1>6, <1>7 DEF Last
<1>13. seen # <<>> /\ \A i, j \in 1..Len(seen) : i < j => seen[i].n < seen[j].n
  BY <1>6, <1>7, <1>8
<1>14. EndsKept
  BY <1>11, <1>12, <1>13 DEF EndsKept, seen
<1> QED
  BY <1>14 DEF Remembered, ContextKept
-------------------------------------------------------------------------------
(* What compaction keeps, together: the conversation the model continues   *)
(* begins with the protected head, ends with the newest message and has    *)
(* nothing out of order or twice (types.go:15-19, estimator.go:96-107,     *)
(* pipeline.go:161-176), and after the three stages it fits the window     *)
(* unless the head and the newest message do not.                          *)
THEOREM ContextKeptAlways == Spec => []ContextKept
<1>1. Init => Remembered
  BY RememberedInit DEF Init
<1>2. Remembered /\ [Next \/ (Stopped /\ UNCHANGED vars)]_vars => Remembered'
  <2>1. [Next \/ (Stopped /\ UNCHANGED vars)]_vars => [CompactionNext]_compactionVars
    BY DEF Next, Others, vars
  <2> QED
    BY <2>1, RememberedStep
<1> QED
  BY <1>1, <1>2, RememberedKeeps, PTL DEF Spec
-------------------------------------------------------------------------------

(* A sequence of numbers that rises is its own elements in order. *)
LEMMA AscendingOf ==
    ASSUME NEW m \in Nat, NEW e \in [1..m -> Nat], \A j, k \in 1..m : j < k => e[j] < e[k]
    PROVE  /\ IsFiniteSet({e[k] : k \in 1..m}) /\ Cardinality({e[k] : k \in 1..m}) = m
           /\ Ascending({e[k] : k \in 1..m}) = e
<1> DEFINE First(n) == {e[k] : k \in 1..n}
<1>1. ASSUME NEW n \in 0..m PROVE IsFiniteSet(First(n)) /\ Cardinality(First(n)) = n
  <2> DEFINE f == [k \in 1..n |-> e[k]]
  <2>1. f \in Surjection(1..n, First(n))
    BY DEF Surjection
  <2>2. f \in Injection(1..n, First(n))
    <3>1. \A j, k \in 1..n : j # k => e[j] # e[k]
      <4> SUFFICES ASSUME NEW j \in 1..n, NEW k \in 1..n, j # k PROVE e[j] # e[k]
        OBVIOUS
      <4>1. j \in 1..m /\ k \in 1..m /\ e[j] \in Nat /\ e[k] \in Nat /\ (j < k \/ k < j)
        OBVIOUS
      <4> QED
        BY <4>1
    <3> QED
      BY <3>1 DEF Injection, IsInjective
  <2>3. IsFiniteSet(1..n) /\ Cardinality(1..n) = n
    BY FS_Interval
  <2> HIDE DEF f, First
  <2> QED
    BY <2>1, <2>2, <2>3, FS_Surjection
<1> DEFINE Q == First(m)
<1>2. ASSUME NEW k \in 1..m PROVE {j \in Q : j <= e[k]} = First(k)
  <2>1. \A j \in 1..m : e[j] <= e[k] <=> j <= k
    <3> SUFFICES ASSUME NEW j \in 1..m PROVE e[j] <= e[k] <=> j <= k
      OBVIOUS
    <3>1. e[j] \in Nat /\ e[k] \in Nat /\ (j < k \/ k < j \/ j = k)
      OBVIOUS
    <3> QED
      BY <3>1
  <2>2. {j \in Q : j <= e[k]} \subseteq First(k)
    <3> SUFFICES ASSUME NEW j \in 1..m, e[j] <= e[k] PROVE e[j] \in First(k)
      OBVIOUS
    <3> QED
      BY <2>1
  <2>3. First(k) \subseteq {j \in Q : j <= e[k]}
    <3> SUFFICES ASSUME NEW j \in 1..k PROVE e[j] \in Q /\ e[j] <= e[k]
      OBVIOUS
    <3> QED
      BY <2>1
  <2> QED
    BY <2>2, <2>3
<1>3. ASSUME NEW k \in 1..m PROVE Cardinality({j \in Q : j <= e[k]}) = k
  <2>1. k \in 0..m
    OBVIOUS
  <2> HIDE DEF First, Q
  <2> QED
    BY <1>1, <1>2, <2>1
<1>4. ASSUME NEW k \in 1..m PROVE (CHOOSE i \in Q : Cardinality({j \in Q : j <= i}) = k) = e[k]
  <2> DEFINE c == CHOOSE i \in Q : Cardinality({j \in Q : j <= i}) = k
  <2>1. e[k] \in Q
    OBVIOUS
  <2>2. c \in Q /\ Cardinality({j \in Q : j <= c}) = k
    <3> HIDE DEF Q
    <3> QED
      BY <2>1, <1>3
  <2>3. PICK l \in 1..m : c = e[l]
    BY <2>2
  <2> QED
    BY <2>2, <2>3, <1>3
<1>5. IsFiniteSet(Q) /\ Cardinality(Q) = m
  <2>1. m \in 0..m
    OBVIOUS
  <2> HIDE DEF First
  <2> QED
    BY <1>1, <2>1
<1>6. Ascending(Q) = [k \in 1..m |-> e[k]]
  <2> HIDE DEF Q
  <2> QED
    BY <1>4, <1>5 DEF Ascending
<1>7. [k \in 1..m |-> e[k]] = e
  OBVIOUS
<1> QED
  BY <1>5, <1>6, <1>7

-----------------------------------------------------------------------------
Blocks == [kind : {"text", "call"}, frags : 0..MaxFragments]
CallSet(b) == {i \in 1..Len(b) : b[i].kind = "call"}

LEMMA CallsOfIs ==
    ASSUME NEW b \in Seq(Blocks)
    PROVE  /\ Len(CallsOf(b)) \in Nat /\ CallsOf(b) \in [1..Len(CallsOf(b)) -> CallSet(b)]
           /\ \A j, k \in 1..Len(CallsOf(b)) : j < k => CallsOf(b)[j] < CallsOf(b)[k]
           /\ CallSet(b) = {CallsOf(b)[k] : k \in 1..Len(CallsOf(b))}
           /\ CallSet(b) \subseteq 1..Len(b) /\ Len(b) \in Nat
<1> DEFINE P == CallSet(b)
<1>1. Len(b) \in Nat /\ P \subseteq 1..Len(b)
  BY DEF CallSet
<1>2. P \in SUBSET Nat /\ IsFiniteSet(P)
  <2>1. IsFiniteSet(1..Len(b)) /\ P \in SUBSET (1..Len(b))
    BY <1>1, FS_Interval
  <2> HIDE DEF P
  <2>2. IsFiniteSet(P)
    BY <2>1, FS_Subset
  <2> QED
    BY <1>1, <2>2
<1>3. CallsOf(b) = Ascending(P)
  BY DEF CallsOf, CallSet
<1>4. /\ Cardinality(P) \in Nat
      /\ Ascending(P) \in [1..Cardinality(P) -> P]
      /\ \A j, k \in 1..Cardinality(P) : j < k => Ascending(P)[j] < Ascending(P)[k]
      /\ \A i \in P : \E k \in 1..Cardinality(P) : Ascending(P)[k] = i
  <2> HIDE DEF P
  <2> QED
    BY <1>2, AscendingIs
<1> HIDE DEF P
<1>5. Len(CallsOf(b)) = Cardinality(P)
  <2> DEFINE a == Ascending(P)
  <2>1. a \in Seq(P) /\ DOMAIN a = 1..Cardinality(P)
    BY <1>4
  <2> HIDE DEF a
  <2> QED
    BY <2>1, <1>3, <1>4 DEF a
<1>6. P = {CallsOf(b)[k] : k \in 1..Cardinality(P)}
  BY <1>3, <1>4
<1> QED
  BY <1>1, <1>3, <1>4, <1>5, <1>6 DEF P

(* A rising sequence of the calls is CallsOf. *)
LEMMA CallsOfAre ==
    ASSUME NEW b \in Seq(Blocks), NEW m \in Nat, NEW e \in [1..m -> Nat],
           \A j, k \in 1..m : j < k => e[j] < e[k],
           CallSet(b) = {e[k] : k \in 1..m}
    PROVE  CallsOf(b) = e
<1>1. CallsOf(b) = Ascending(CallSet(b))
  BY DEF CallsOf, CallSet
<1> QED
  BY <1>1, AscendingOf

LEMMA CallsAppend ==
    ASSUME NEW b \in Seq(Blocks), NEW n \in 0..MaxFragments
    PROVE  /\ CallsOf(Append(b, Block("text", n))) = CallsOf(b)
           /\ CallsOf(Append(b, Block("call", n))) = Append(CallsOf(b), Len(b) + 1)
<1> DEFINE m == Len(CallsOf(b))
           old == CallsOf(b)
           t == Append(b, Block("text", n))
           c == Append(b, Block("call", n))
           new == Append(old, Len(b) + 1)
<1>0. Block("text", n) \in Blocks /\ Block("call", n) \in Blocks
  BY DEF Block, Blocks
<1>1. /\ m \in Nat /\ old \in [1..m -> CallSet(b)]
      /\ \A j, k \in 1..m : j < k => old[j] < old[k]
      /\ CallSet(b) = {old[k] : k \in 1..m}
      /\ CallSet(b) \subseteq 1..Len(b) /\ Len(b) \in Nat
  BY CallsOfIs
<1>8. m \in Nat /\ Len(b) \in Nat /\ \A k \in 1..m : old[k] \in 1..Len(b)
  BY <1>1
<1>2. t \in Seq(Blocks) /\ c \in Seq(Blocks) /\ Len(t) = Len(b) + 1 /\ Len(c) = Len(b) + 1
  BY <1>0
<1>3. \A i \in 1..Len(b) : t[i] = b[i] /\ c[i] = b[i]
  BY <1>0
<1>4. t[Len(b) + 1].kind = "text" /\ c[Len(b) + 1].kind = "call"
  <2>1. t[Len(b) + 1] = Block("text", n) /\ c[Len(b) + 1] = Block("call", n)
    BY <1>0
  <2> QED
    BY <2>1 DEF Block
<1>5. CallSet(t) = CallSet(b) /\ CallSet(c) = CallSet(b) \cup {Len(b) + 1}
  <2> HIDE DEF t, c
  <2>1. 1..(Len(b) + 1) = 1..Len(b) \cup {Len(b) + 1}
    BY <1>1
  <2> QED
    BY <1>1, <1>2, <1>3, <1>4, <2>1 DEF CallSet
<1> HIDE DEF t, c, old, m
<1>6. CallsOf(t) = old
  <2>1. old \in [1..m -> Nat]
    BY <1>1, SMTT(40)
  <2> QED
    BY <1>1, <1>2, <1>5, <2>1, CallsOfAre
<1>7. CallsOf(c) = new
  <2>0. old \in Seq(Nat) /\ Len(old) = m
    <3>1. \A k \in 1..m : old[k] \in Nat
      BY <1>8
    <3>2. old \in [1..m -> Nat]
      BY <3>1, <1>1
    <3> QED
      BY <3>2, <1>1
  <2>1. new \in [1..(m + 1) -> Nat] /\ new[m + 1] = Len(b) + 1 /\ \A k \in 1..m : new[k] = old[k]
    <3>1. Len(b) + 1 \in Nat
      BY <1>8
    <3>2. new \in Seq(Nat) /\ Len(new) = m + 1 /\ new[m + 1] = Len(b) + 1
      BY <3>1, <2>0
    <3>3. \A k \in 1..m : new[k] = old[k]
      BY <3>1, <2>0
    <3> HIDE DEF new
    <3> QED
      BY <3>2, <3>3
  <2> HIDE DEF new
  <2>2. \A j, k \in 1..(m + 1) : j < k => new[j] < new[k]
    <3> SUFFICES ASSUME NEW j \in 1..(m + 1), NEW k \in 1..(m + 1), j < k PROVE new[j] < new[k]
      OBVIOUS
    <3>1. j \in 1..m /\ (k \in 1..m \/ k = m + 1)
      BY <1>8
    <3>2. old[j] \in 1..Len(b)
      BY <3>1, <1>8
    <3> QED
      BY <3>1, <3>2, <2>1, <1>1
  <2>3. CallSet(c) = {new[k] : k \in 1..(m + 1)}
    <3>1. 1..(m + 1) = 1..m \cup {m + 1}
      BY <1>1
    <3> QED
      BY <3>1, <2>1, <1>1, <1>5
  <2>4. m + 1 \in Nat
    BY <1>1
  <2> QED
    BY <2>1, <2>2, <2>3, <2>4, <1>2, CallsOfAre
<1> QED
  BY <1>6, <1>7 DEF t, c, new, old

(* One block with more fragments. *)
LEMMA CallsLonger ==
    ASSUME NEW b \in Seq(Blocks), NEW c \in 1..Len(b), NEW n \in 0..MaxFragments
    PROVE  /\ [b EXCEPT ![c].frags = n] \in Seq(Blocks) /\ Len([b EXCEPT ![c].frags = n]) = Len(b)
           /\ [b EXCEPT ![c].frags = n][c].frags = n
           /\ \A i \in 1..Len(b) : i # c => [b EXCEPT ![c].frags = n][i] = b[i]
           /\ CallsOf([b EXCEPT ![c].frags = n]) = CallsOf(b)
<1> DEFINE l == [b EXCEPT ![c].frags = n]
<1>1. \A i \in 1..Len(b) : b[i] \in Blocks
  OBVIOUS
<1>2. [b[c] EXCEPT !.frags = n] \in Blocks /\ [b[c] EXCEPT !.frags = n].kind = b[c].kind
  BY <1>1 DEF Blocks
<1>3. /\ l \in Seq(Blocks) /\ Len(l) = Len(b) /\ l[c].frags = n
      /\ \A i \in 1..Len(b) : i # c => l[i] = b[i]
      /\ l[c].kind = b[c].kind
  <2>1. l = [b EXCEPT ![c] = [b[c] EXCEPT !.frags = n]]
    OBVIOUS
  <2>2. l[c] = [b[c] EXCEPT !.frags = n]
    OBVIOUS
  <2>3. l \in Seq(Blocks) /\ Len(l) = Len(b)
    BY <1>2, <2>1
  <2>4. \A i \in 1..Len(b) : i # c => l[i] = b[i]
    OBVIOUS
  <2>5. [b[c] EXCEPT !.frags = n].frags = n
    BY <1>1 DEF Blocks
  <2> HIDE DEF l
  <2> QED
    BY <2>2, <2>3, <2>4, <2>5, <1>2
<1> HIDE DEF l
<1>4. CallSet(l) = CallSet(b)
  BY <1>3 DEF CallSet
<1>5. CallsOf(l) = CallsOf(b)
  BY <1>4 DEF CallsOf, CallSet
<1> QED
  BY <1>3, <1>5 DEF l

-----------------------------------------------------------------------------
(* The index under which the k-th call is in progress, and what the calls  *)
(* in progress are: each call that was said, with the fragments said.      *)
IndexOf(p, b, k) == IF p = "anthropic" THEN CallsOf(b)[k] - 1 ELSE k - 1
SaidSoFar(b, k) == [call |-> CallsOf(b)[k], args |-> Numbers(b[CallsOf(b)[k]].frags)]

CallsKept(p, b, calls) ==
    /\ DOMAIN calls = {IndexOf(p, b, k) : k \in 1..Len(CallsOf(b))}
    /\ \A k \in 1..Len(CallsOf(b)) : calls[IndexOf(p, b, k)] = SaidSoFar(b, k)

LEMMA IndicesRise ==
    ASSUME NEW p, NEW b \in Seq(Blocks)
    PROVE  /\ \A k \in 1..Len(CallsOf(b)) :
                /\ CallsOf(b)[k] \in 1..Len(b) /\ b[CallsOf(b)[k]] \in Blocks
                /\ IndexOf(p, b, k) \in Nat /\ IndexOf(p, b, k) < Len(b)
                /\ p # "anthropic" => IndexOf(p, b, k) < Len(CallsOf(b))
           /\ \A j, k \in 1..Len(CallsOf(b)) : j < k => IndexOf(p, b, j) < IndexOf(p, b, k)
           /\ Len(CallsOf(b)) <= Len(b)
<1> DEFINE m == Len(CallsOf(b))
           at == CallsOf(b)
<1>1. /\ m \in Nat /\ at \in [1..m -> CallSet(b)]
      /\ \A j, k \in 1..m : j < k => at[j] < at[k]
      /\ CallSet(b) \subseteq 1..Len(b) /\ Len(b) \in Nat
  BY CallsOfIs
<1>2. \A k \in 1..m : at[k] \in 1..Len(b)
  BY <1>1
<1>3. \A k \in 1..m : k <= at[k]
  <2> DEFINE T == {k \in 1..m : at[k] < k}
  <2> SUFFICES ASSUME T # {} PROVE FALSE
    BY <1>1, <1>2
  <2>1. PICK x \in T : \A y \in T : x <= y
    <3>1. T \in SUBSET Nat
      BY <1>1
    <3> HIDE DEF T
    <3> QED
      BY <3>1, Least
  <2>2. x \in 1..m /\ at[x] < x /\ at[x] \in 1..Len(b)
    BY <2>1, <1>2
  <2>3. x - 1 \in 1..m /\ at[x - 1] < at[x] /\ at[x - 1] \in 1..Len(b)
    <3>1. x - 1 \in 1..m
      BY <2>2, <1>1
    <3> QED
      BY <3>1, <2>2, <1>1, <1>2
  <2>4. x - 1 \in T
    BY <2>2, <2>3, <1>1
  <2> QED
    BY <2>1, <2>2, <2>4, <1>1
<1>4. m <= Len(b)
  <2>1. m = 0 \/ m \in 1..m
    BY <1>1
  <2> QED
    BY <2>1, <1>1, <1>2, <1>3
<1>5. ASSUME NEW k \in 1..m
      PROVE  /\ b[at[k]] \in Blocks
             /\ IndexOf(p, b, k) \in Nat /\ IndexOf(p, b, k) < Len(b)
             /\ p # "anthropic" => IndexOf(p, b, k) < m
  <2>1. at[k] \in 1..Len(b) /\ k \in 1..m /\ m <= Len(b)
    BY <1>2, <1>4
  <2>2. IndexOf(p, b, k) = IF p = "anthropic" THEN at[k] - 1 ELSE k - 1
    BY DEF IndexOf
  <2> HIDE DEF at, m
  <2> QED
    BY <2>1, <2>2, <1>1
<1>6. ASSUME NEW j \in 1..m, NEW k \in 1..m, j < k
      PROVE  IndexOf(p, b, j) < IndexOf(p, b, k)
  <2>1. at[j] < at[k] /\ at[j] \in 1..Len(b) /\ at[k] \in 1..Len(b)
    BY <1>1, <1>2, <1>6
  <2>2. /\ IndexOf(p, b, j) = IF p = "anthropic" THEN at[j] - 1 ELSE j - 1
        /\ IndexOf(p, b, k) = IF p = "anthropic" THEN at[k] - 1 ELSE k - 1
    BY DEF IndexOf
  <2> HIDE DEF at, m
  <2> QED
    BY <2>1, <2>2, <1>1, <1>6
<1> QED
  BY <1>2, <1>4, <1>5, <1>6

(* A block without a call leaves them as they are. *)
LEMMA KeptSays ==
    ASSUME NEW p, NEW b \in Seq(Blocks), NEW calls, CallsKept(p, b, calls)
    PROVE  CallsKept(p, Append(b, Block("text", 0)), calls)
<1> DEFINE t == Append(b, Block("text", 0))
<1>1. CallsOf(t) = CallsOf(b)
  BY CallsAppend, StreamAssumption
<1>2. Block("text", 0) \in Blocks
  BY StreamAssumption DEF Block, Blocks
<1>3. ASSUME NEW k \in 1..Len(CallsOf(b)) PROVE SaidSoFar(t, k) = SaidSoFar(b, k)
  <2>1. CallsOf(b)[k] \in 1..Len(b)
    BY IndicesRise
  <2>2. t[CallsOf(b)[k]] = b[CallsOf(b)[k]]
    BY <2>1, <1>2
  <2> HIDE DEF t
  <2> QED
    BY <1>1, <2>2 DEF SaidSoFar
<1> HIDE DEF t
<1>4. \A k : IndexOf(p, t, k) = IndexOf(p, b, k)
  BY <1>1 DEF IndexOf
<1> QED
  BY <1>1, <1>3, <1>4 DEF CallsKept, t

(* A call that is opened comes to them under an index of its own. *)
LEMMA KeptStarts ==
    ASSUME NEW p, NEW b \in Seq(Blocks), NEW calls, CallsKept(p, b, calls),
           NEW n \in 0..MaxFragments, NEW index,
           index = IF p = "anthropic" THEN Len(b) ELSE Len(CallsOf(b)),
           NEW new, DOMAIN new = DOMAIN calls \cup {index},
           new[index] = [call |-> Len(b) + 1, args |-> Numbers(n)],
           \A i \in DOMAIN calls \ {index} : new[i] = calls[i]
    PROVE  CallsKept(p, Append(b, Block("call", n)), new)
<1> DEFINE c == Append(b, Block("call", n))
           m == Len(CallsOf(b))
<1>0. /\ m \in Nat /\ Len(b) \in Nat /\ CallsOf(b) \in Seq(Nat)
      /\ \A k \in 1..m : /\ CallsOf(b)[k] \in 1..Len(b)
                         /\ IndexOf(p, b, k) \in Nat /\ IndexOf(p, b, k) # index
  <2>1. m \in Nat /\ Len(b) \in Nat /\ CallsOf(b) \in [1..m -> CallSet(b)]
    BY CallsOfIs
  <2>2. \A k \in 1..m : /\ CallsOf(b)[k] \in 1..Len(b)
                        /\ IndexOf(p, b, k) \in Nat /\ IndexOf(p, b, k) < Len(b)
                        /\ p # "anthropic" => IndexOf(p, b, k) < m
    BY IndicesRise
  <2>3. CallsOf(b) \in [1..m -> Nat]
    BY <2>1, <2>2
  <2>4. CallsOf(b) \in Seq(Nat)
    BY <2>1, <2>3
  <2>5. \A k \in 1..m : IndexOf(p, b, k) # index
    BY <2>1, <2>2
  <2> HIDE DEF m
  <2> QED
    BY <2>1, <2>2, <2>4, <2>5
<1>1. CallsOf(c) = Append(CallsOf(b), Len(b) + 1)
  BY CallsAppend
<1>2. Block("call", n) \in Blocks /\ Block("call", n).frags = n
  BY DEF Block, Blocks
<1>3. /\ \A i \in 1..Len(b) : c[i] = b[i]
      /\ c[Len(b) + 1].frags = n
  BY <1>2
<1> HIDE DEF c
<1>4. /\ Len(CallsOf(c)) = m + 1 /\ CallsOf(c)[m + 1] = Len(b) + 1
      /\ \A k \in 1..m : CallsOf(c)[k] = CallsOf(b)[k]
  <2>1. Len(b) + 1 \in Nat
    BY <1>0
  <2> QED
    BY <2>1, <1>0, <1>1
<1>5. /\ IndexOf(p, c, m + 1) = index
      /\ SaidSoFar(c, m + 1) = new[index]
  <2>1. Len(b) + 1 - 1 = Len(b) /\ m + 1 - 1 = m
    BY <1>0
  <2> QED
    BY <1>3, <1>4, <2>1 DEF IndexOf, SaidSoFar
<1>6. ASSUME NEW k \in 1..m
      PROVE  IndexOf(p, c, k) = IndexOf(p, b, k) /\ SaidSoFar(c, k) = SaidSoFar(b, k)
  <2>1. CallsOf(c)[k] = CallsOf(b)[k] /\ c[CallsOf(b)[k]] = b[CallsOf(b)[k]]
    BY <1>0, <1>3, <1>4
  <2> QED
    BY <2>1 DEF IndexOf, SaidSoFar
<1>7. 1..(m + 1) = 1..m \cup {m + 1}
  BY <1>0
<1>8. /\ DOMAIN calls = {IndexOf(p, b, k) : k \in 1..m}
      /\ \A k \in 1..m : calls[IndexOf(p, b, k)] = SaidSoFar(b, k)
  BY DEF CallsKept
<1> HIDE DEF m
<1>9. DOMAIN new = {IndexOf(p, c, k) : k \in 1..(m + 1)}
  BY <1>5, <1>6, <1>7, <1>8
<1>10. ASSUME NEW k \in 1..(m + 1) PROVE new[IndexOf(p, c, k)] = SaidSoFar(c, k)
  <2>1. CASE k = m + 1
    BY <2>1, <1>5
  <2>2. CASE k \in 1..m
    <3>1. IndexOf(p, b, k) \in DOMAIN calls \ {index}
      BY <2>2, <1>0, <1>8
    <3> QED
      BY <2>2, <3>1, <1>6, <1>8
  <2> QED
    BY <2>1, <2>2, <1>7
<1> QED
  BY <1>4, <1>9, <1>10 DEF CallsKept, c

(* The next fragment of a call. *)
LEMMA KeptContinues ==
    ASSUME NEW p, NEW b \in Seq(Blocks), NEW calls, CallsKept(p, b, calls),
           NEW i \in 1..Len(CallsOf(b)), NEW n \in 1..MaxFragments,
           n = b[CallsOf(b)[i]].frags + 1
    PROVE  CallsKept(p, [b EXCEPT ![CallsOf(b)[i]].frags = n], Longer(calls, IndexOf(p, b, i), n))
<1> DEFINE c == CallsOf(b)[i]
           l == [b EXCEPT ![c].frags = n]
           m == Len(CallsOf(b))
           x == IndexOf(p, b, i)
           new == Longer(calls, x, n)
<1>0. m \in Nat
  BY CallsOfIs
<1>1. \A k \in 1..m : CallsOf(b)[k] \in 1..Len(b) /\ IndexOf(p, b, k) \in Nat /\ b[CallsOf(b)[k]] \in Blocks
  BY IndicesRise
<1>2. \A k \in 1..m : k # i => CallsOf(b)[k] # c /\ IndexOf(p, b, k) # x
  <2>1. \A j, k \in 1..m : j < k => IndexOf(p, b, j) < IndexOf(p, b, k)
    BY IndicesRise
  <2>2. \A j, k \in 1..m : j < k => CallsOf(b)[j] < CallsOf(b)[k]
    BY CallsOfIs
  <2> SUFFICES ASSUME NEW k \in 1..m, k # i PROVE CallsOf(b)[k] # c /\ IndexOf(p, b, k) # x
    OBVIOUS
  <2>3. i < k \/ k < i
    BY <1>0
  <2>4. CallsOf(b)[k] \in Nat /\ c \in Nat /\ IndexOf(p, b, k) \in Nat /\ x \in Nat
    BY <1>1
  <2> HIDE DEF c, m, x
  <2>5. CASE i < k
    BY <2>1, <2>2, <2>4, <2>5 DEF c, m, x
  <2>6. CASE k < i
    BY <2>1, <2>2, <2>4, <2>6 DEF c, m, x
  <2> QED
    BY <2>3, <2>5, <2>6
<1>3. /\ CallsOf(l) = CallsOf(b) /\ l[c].frags = n
      /\ \A k \in 1..Len(b) : k # c => l[k] = b[k]
  <2>1. c \in 1..Len(b) /\ n \in 0..MaxFragments
    BY <1>1
  <2> HIDE DEF c
  <2> QED
    BY <2>1, CallsLonger, SMTT(40)
<1>4. /\ DOMAIN calls = {IndexOf(p, b, k) : k \in 1..m}
      /\ \A k \in 1..m : calls[IndexOf(p, b, k)] = SaidSoFar(b, k)
  BY DEF CallsKept
<1>5. x \in DOMAIN calls /\ calls[x] = [call |-> c, args |-> Numbers(n - 1)]
  <2>1. b[c] \in Blocks /\ b[c].frags = n - 1
    <3>1. b[c] \in Blocks /\ b[c].frags \in Nat
      BY <1>1 DEF Blocks
    <3> QED
      BY <3>1
  <2> QED
    BY <2>1, <1>4 DEF SaidSoFar
<1>6. /\ DOMAIN new = DOMAIN calls
      /\ new[x] = [call |-> c, args |-> Append(Numbers(n - 1), n)]
      /\ \A j \in DOMAIN calls \ {x} : new[j] = calls[j]
  <2> HIDE DEF x, c
  <2> QED
    BY <1>5 DEF Longer
<1>7. Append(Numbers(n - 1), n) = Numbers(n)
  <2> n \in Nat \ {0}
    BY StreamAssumption
  <2> QED
    BY DEF Numbers
<1>8. \A k : IndexOf(p, l, k) = IndexOf(p, b, k)
  BY <1>3 DEF IndexOf
<1> HIDE DEF l, new
<1>9. ASSUME NEW k \in 1..m PROVE new[IndexOf(p, b, k)] = SaidSoFar(l, k)
  <2>1. CASE k = i
    BY <2>1, <1>3, <1>6, <1>7 DEF SaidSoFar
  <2>2. CASE k # i
    <3>1. IndexOf(p, b, k) \in DOMAIN calls \ {x} /\ l[CallsOf(b)[k]] = b[CallsOf(b)[k]]
      BY <2>2, <1>1, <1>2, <1>3, <1>4
    <3>2. SaidSoFar(l, k) = SaidSoFar(b, k)
      BY <3>1, <1>3 DEF SaidSoFar
    <3> QED
      BY <3>1, <3>2, <1>4, <1>6
  <2> QED
    BY <2>1, <2>2
<1>10. CallsKept(p, l, new)
  BY <1>3, <1>4, <1>6, <1>8, <1>9 DEF CallsKept
<1> QED
  BY <1>10 DEF l, new, x, c

(* The end of a call, which repeats what was said. *)
LEMMA KeptEnds ==
    ASSUME NEW p, NEW b \in Seq(Blocks), NEW calls, CallsKept(p, b, calls),
           NEW i \in 1..Len(CallsOf(b))
    PROVE  CallsKept(p, b, Repeated(calls, IndexOf(p, b, i), Numbers(b[CallsOf(b)[i]].frags)))
<1> DEFINE x == IndexOf(p, b, i)
           a == Numbers(b[CallsOf(b)[i]].frags)
           new == Repeated(calls, x, a)
<1>1. x \in DOMAIN calls /\ calls[x] = [call |-> CallsOf(b)[i], args |-> a]
  BY DEF CallsKept, SaidSoFar
<1>2. DOMAIN new = DOMAIN calls /\ \A j \in DOMAIN calls : new[j] = calls[j]
  <2> HIDE DEF x, a
  <2> QED
    BY <1>1 DEF Repeated
<1> HIDE DEF new
<1>3. \A k \in 1..Len(CallsOf(b)) : IndexOf(p, b, k) \in DOMAIN calls
  BY DEF CallsKept
<1>4. CallsKept(p, b, new)
  BY <1>2, <1>3 DEF CallsKept
<1> QED
  BY <1>4 DEF new, x, a

-----------------------------------------------------------------------------
(* The calls in progress are those said, but for Google's second; and of a *)
(* completed answer only the last call can have been cut off.              *)
StreamTypes ==
    /\ profile \in Profiles
    /\ stream \in {"request", "streaming", "closed", "failed", "refused", "answered"}
    /\ finish \in {"none"} \cup Reasons
    /\ turns \in Seq(Seq(BOOLEAN)) /\ answer \in Seq(Blocks)
    /\ DOMAIN inProgress \in SUBSET Nat /\ IsFiniteSet(DOMAIN inProgress)
    /\ unended \subseteq DOMAIN inProgress
    /\ \A i \in DOMAIN inProgress : inProgress[i].call \in 1..Len(answer)

CutsLast == \A t \in 1..Len(turns) :
    turns[t] # <<>> /\ \A i \in 1..(Len(turns[t]) - 1) : turns[t][i]

CallsInStep ==
    (profile = "google" /\ Len(CallsOf(answer)) > 1) \/ CallsKept(profile, answer, inProgress)

Streaming == StreamTypes /\ CutsLast /\ (stream = "refused" => ~Marshals) /\ CallsInStep

LEMMA KeptNone == ASSUME NEW p PROVE CallsKept(p, <<>>, <<>>)
<1>1. <<>> \in Seq(Blocks) /\ Len(<<>>) = 0
  OBVIOUS
<1>2. Len(CallsOf(<<>>)) = 0
  <2>1. /\ Len(CallsOf(<<>>)) \in Nat /\ CallsOf(<<>>) \in [1..Len(CallsOf(<<>>)) -> CallSet(<<>>)]
        /\ CallSet(<<>>) \subseteq 1..Len(<<>>)
    BY <1>1, CallsOfIs
  <2>2. 1..Len(<<>>) = {}
    BY <1>1
  <2>3. 1..Len(CallsOf(<<>>)) = {}
    BY <2>1, <2>2
  <2> QED
    BY <2>1, <2>3
<1>3. 1..0 = {} /\ DOMAIN <<>> = {}
  OBVIOUS
<1> QED
  BY <1>2, <1>3 DEF CallsKept

LEMMA AssembledIs ==
    ASSUME StreamTypes
    PROVE  \E seen \in Seq(DOMAIN inProgress) :
              /\ \A j, k \in 1..Len(seen) : j < k => seen[j] < seen[k]
              /\ Len(Assembled) = Len(seen) /\ DOMAIN Assembled = 1..Len(seen)
              /\ \A k \in 1..Len(seen) : Assembled[k] = inProgress[seen[k]]
<1> DEFINE P == {i \in DOMAIN inProgress : i < Cardinality(DOMAIN inProgress) + Slack}
           m == Cardinality(P)
           seen == Ascending(P)
<1>1. P \in SUBSET Nat /\ IsFiniteSet(P) /\ P \subseteq DOMAIN inProgress
  <2>1. P \in SUBSET (DOMAIN inProgress) /\ IsFiniteSet(DOMAIN inProgress) /\ DOMAIN inProgress \in SUBSET Nat
    BY DEF StreamTypes
  <2> HIDE DEF P
  <2>2. IsFiniteSet(P)
    BY <2>1, FS_Subset
  <2> QED
    BY <2>1, <2>2
<1>2. Assembled = [k \in DOMAIN seen |-> inProgress[seen[k]]]
  BY DEF Assembled
<1> HIDE DEF P
<1>3. /\ m \in Nat /\ seen \in [1..m -> P]
      /\ \A j, k \in 1..m : j < k => seen[j] < seen[k]
  BY <1>1, AscendingIs
<1> HIDE DEF seen, m
<1>4. seen \in [1..m -> DOMAIN inProgress]
  BY <1>1, <1>3
<1>5. DOMAIN Assembled = 1..m /\ \A k \in 1..m : Assembled[k] = inProgress[seen[k]]
  BY <1>2, <1>3
<1>6. Len(Assembled) = m
  <2>1. Assembled \in Seq({inProgress[i] : i \in DOMAIN inProgress})
    <3>1. Assembled = [k \in 1..m |-> inProgress[seen[k]]]
      BY <1>2, <1>3
    <3>2. \A k \in 1..m : inProgress[seen[k]] \in {inProgress[i] : i \in DOMAIN inProgress}
      BY <1>4
    <3> QED
      BY <3>1, <3>2, <1>3
  <2> QED
    BY <2>1, <1>3, <1>5
<1>7. seen \in Seq(DOMAIN inProgress) /\ Len(seen) = m
  BY <1>3, <1>4
<1> QED
  BY <1>3, <1>5, <1>6, <1>7

(* What the loop runs is what was said (loop.go:371-424). *)
LEMMA StreamedAsSaid == Streaming => CallsAsSaid
<1> SUFFICES ASSUME Streaming PROVE CallsAsSaid
  OBVIOUS
<1> DEFINE said == CallsOf(answer)
           m == Len(said)
           e == [k \in 1..m |-> IndexOf(profile, answer, k)]
           P == {i \in DOMAIN inProgress : i < Cardinality(DOMAIN inProgress) + Slack}
<1>1. CASE profile = "google" /\ m > 1
  BY <1>1 DEF CallsAsSaid
<1>2. CASE profile = "anthropic" /\ \E i \in 1..m : said[i] > m + Slack
  BY <1>2 DEF CallsAsSaid
<1>3. ASSUME CallsKept(profile, answer, inProgress),
             ~(profile = "anthropic" /\ \E i \in 1..m : said[i] > m + Slack)
      PROVE  CallsAsSaid
  <2>1. answer \in Seq(Blocks)
    BY DEF Streaming, StreamTypes
  <2>2. m \in Nat
    BY <2>1, CallsOfIs
  <2>3. /\ \A k \in 1..m : /\ said[k] \in 1..Len(answer)
                           /\ IndexOf(profile, answer, k) \in Nat
                           /\ profile # "anthropic" => IndexOf(profile, answer, k) < m
        /\ \A j, k \in 1..m : j < k => IndexOf(profile, answer, j) < IndexOf(profile, answer, k)
    BY <2>1, IndicesRise
  <2>4. /\ DOMAIN inProgress = {IndexOf(profile, answer, k) : k \in 1..m}
        /\ \A k \in 1..m : inProgress[IndexOf(profile, answer, k)] = SaidSoFar(answer, k)
    BY <1>3 DEF CallsKept
  <2> HIDE DEF m
  <2>5. e \in [1..m -> Nat] /\ \A j, k \in 1..m : j < k => e[j] < e[k]
    BY <2>3
  <2>6. DOMAIN inProgress = {e[k] : k \in 1..m}
    BY <2>4
  <2>7. \A k \in 1..m : e[k] = IndexOf(profile, answer, k)
    OBVIOUS
  <2> HIDE DEF e
  <2>8. Cardinality(DOMAIN inProgress) = m /\ Ascending(DOMAIN inProgress) = e
    BY <2>2, <2>5, <2>6, AscendingOf
  <2>9. \A k \in 1..m : e[k] < m + Slack
    <3> SUFFICES ASSUME NEW k \in 1..m PROVE e[k] < m + Slack
      OBVIOUS
    <3>1. Slack \in Nat /\ e[k] = IndexOf(profile, answer, k) /\ e[k] \in Nat
      BY <2>5, <2>7, StreamAssumption
    <3>2. CASE profile # "anthropic"
      BY <3>1, <3>2, <2>2, <2>3
    <3>3. CASE profile = "anthropic"
      <4>1. e[k] = said[k] - 1 /\ ~(said[k] > m + Slack) /\ said[k] \in Nat
        BY <3>1, <3>3, <1>3, <2>3 DEF IndexOf, m
      <4> QED
        BY <4>1, <3>1, <2>2
    <3> QED
      BY <3>2, <3>3
  <2>10. P = DOMAIN inProgress
    BY <2>6, <2>8, <2>9
  <2>11. Assembled = [k \in DOMAIN e |-> inProgress[e[k]]]
    <3>1. Assembled = [k \in DOMAIN Ascending(P) |-> inProgress[Ascending(P)[k]]]
      BY DEF Assembled
    <3> HIDE DEF P
    <3> QED
      BY <3>1, <2>8, <2>10
  <2>12. DOMAIN Assembled = 1..m /\ \A k \in 1..m : Assembled[k] = SaidSoFar(answer, k)
    BY <2>4, <2>5, <2>7, <2>11
  <2>13. Len(Assembled) = m
    <3>1. Assembled = [k \in 1..m |-> SaidSoFar(answer, k)]
      BY <2>4, <2>5, <2>7, <2>11
    <3>2. Assembled \in Seq({SaidSoFar(answer, k) : k \in 1..m})
      BY <3>1, <2>2
    <3> QED
      BY <3>2, <2>2, <2>12
  <2>14. \A k \in 1..m : /\ Assembled[k].call = said[k]
                         /\ Assembled[k].args = Numbers(answer[said[k]].frags)
    BY <2>12 DEF SaidSoFar
  <2> QED
    BY <2>13, <2>14 DEF CallsAsSaid, m
<1> QED
  BY <1>1, <1>2, <1>3 DEF Streaming, CallsInStep

(* Only the last call the loop keeps can be one that was cut off. *)
LEMMA CutIsLast ==
    ASSUME Streaming, NEW i \in 1..(Len(Assembled) - 1)
    PROVE  Assembled[i].call # CutCall
<1>1. PICK seen \in Seq(DOMAIN inProgress) :
              /\ \A j, k \in 1..Len(seen) : j < k => seen[j] < seen[k]
              /\ Len(Assembled) = Len(seen)
              /\ \A k \in 1..Len(seen) : Assembled[k] = inProgress[seen[k]]
  <2> StreamTypes
    BY DEF Streaming
  <2> QED
    BY AssembledIs
<1>2. /\ answer \in Seq(Blocks) /\ Len(answer) \in Nat
      /\ \A j \in DOMAIN inProgress : inProgress[j].call \in 1..Len(answer)
  BY DEF Streaming, StreamTypes
<1>3. /\ i \in 1..Len(seen) /\ i + 1 \in 1..Len(seen) /\ seen[i] < seen[i + 1]
      /\ seen[i] \in DOMAIN inProgress /\ seen[i + 1] \in DOMAIN inProgress
  BY <1>1
<1>4. CASE profile = "google"
  BY <1>1, <1>2, <1>3, <1>4 DEF CutCall
<1>5. ASSUME CallsKept(profile, answer, inProgress) PROVE Assembled[i].call # CutCall
  <2> DEFINE n == Len(CallsOf(answer))
  <2>1. /\ DOMAIN inProgress = {IndexOf(profile, answer, k) : k \in 1..n}
        /\ \A k \in 1..n : inProgress[IndexOf(profile, answer, k)].call = CallsOf(answer)[k]
    <3>1. /\ DOMAIN inProgress = {IndexOf(profile, answer, k) : k \in 1..n}
          /\ \A k \in 1..n : inProgress[IndexOf(profile, answer, k)] = SaidSoFar(answer, k)
      BY <1>5 DEF CallsKept
    <3>2. \A k : SaidSoFar(answer, k).call = CallsOf(answer)[k]
      BY DEF SaidSoFar
    <3> QED
      BY <3>1, <3>2
  <2>2. PICK j \in 1..n : seen[i] = IndexOf(profile, answer, j)
    BY <1>3, <2>1
  <2>3. PICK k \in 1..n : seen[i + 1] = IndexOf(profile, answer, k)
    BY <1>3, <2>1
  <2>4. /\ n \in Nat
        /\ \A a, b \in 1..n : a < b => CallsOf(answer)[a] < CallsOf(answer)[b]
    BY <1>2, CallsOfIs
  <2>5. /\ \A a \in 1..n : CallsOf(answer)[a] \in 1..Len(answer) /\ IndexOf(profile, answer, a) \in Nat
        /\ \A a, b \in 1..n : a < b => IndexOf(profile, answer, a) < IndexOf(profile, answer, b)
    BY <1>2, IndicesRise
  <2> HIDE DEF n
  <2>6. j < k
    <3>1. ~(k < j) /\ k # j
      BY <2>2, <2>3, <2>5, <1>3
    <3> QED
      BY <3>1, <2>4
  <2>7. Assembled[i].call = CallsOf(answer)[j] /\ CallsOf(answer)[j] < CallsOf(answer)[k]
    BY <1>1, <1>3, <2>1, <2>2, <2>4, <2>6
  <2>8. CallsOf(answer)[j] \in 1..Len(answer) /\ CallsOf(answer)[k] \in 1..Len(answer)
    BY <2>5
  <2>9. CutCall \in {0, Len(answer)}
    BY DEF CutCall
  <2> QED
    BY <2>7, <2>8, <2>9, <1>2
<1> QED
  BY <1>4, <1>5 DEF Streaming, CallsInStep

LEMMA StreamingInit == StreamInit => Streaming
<1> SUFFICES ASSUME StreamInit PROVE Streaming
  OBVIOUS
<1> USE DEF StreamInit
<1>1. CallsKept(profile, answer, inProgress)
  BY KeptNone
<1>2. DOMAIN inProgress = {} /\ IsFiniteSet({})
  BY FS_EmptySet
<1>3. StreamTypes
  BY <1>2 DEF StreamTypes
<1> QED
  BY <1>1, <1>3 DEF Streaming, CallsInStep, CutsLast

(* Steps that neither open nor continue a call. *)
LEMMA StreamingSame ==
    ASSUME Streaming, UNCHANGED <<profile, turns, answer, inProgress>>, unended' \subseteq unended,
           finish' \in {"none"} \cup Reasons,
           stream' \in {"request", "streaming", "closed", "failed", "refused", "answered"},
           stream' = "refused" => ~Marshals
    PROVE  Streaming'
<1>1. StreamTypes'
  BY DEF Streaming, StreamTypes
<1>2. CallsInStep'
  BY DEF Streaming, CallsInStep
<1>3. CutsLast' /\ (Marshals' <=> Marshals)
  BY DEF Streaming, CutsLast, Marshals
<1> QED
  BY <1>1, <1>2, <1>3 DEF Streaming

LEMMA StreamingLeaves ==
    ASSUME Streaming, NEW next \in {"request", "failed", "answered"}, NEW past \in Seq(Seq(BOOLEAN)),
           \A t \in 1..Len(past) : past[t] # <<>> /\ \A i \in 1..(Len(past[t]) - 1) : past[t][i],
           Leave(next, past)
    PROVE  Streaming'
<1> USE DEF Leave
<1>1. CallsKept(profile', answer', inProgress')
  BY KeptNone
<1>2. DOMAIN inProgress' = {} /\ IsFiniteSet({})
  BY FS_EmptySet
<1>3. StreamTypes'
  BY <1>2 DEF Streaming, StreamTypes
<1>4. CallsInStep'
  BY <1>1 DEF CallsInStep
<1>5. CutsLast'
  BY DEF CutsLast
<1> QED
  BY <1>3, <1>4, <1>5 DEF Streaming

LEMMA StreamingChunk ==
    ASSUME Streaming, UNCHANGED <<profile, turns, finish, stream>>, stream = "streaming",
           answer' \in Seq(Blocks),
           DOMAIN inProgress' \in SUBSET Nat, IsFiniteSet(DOMAIN inProgress'),
           unended' \subseteq DOMAIN inProgress',
           \A i \in DOMAIN inProgress' : inProgress'[i].call \in 1..Len(answer'),
           (profile = "google" /\ Len(CallsOf(answer')) > 1) \/ CallsKept(profile, answer', inProgress')
    PROVE  Streaming'
<1>1. StreamTypes'
  BY DEF Streaming, StreamTypes
<1>2. CallsInStep'
  BY DEF CallsInStep
<1>3. CutsLast'
  BY DEF Streaming, CutsLast
<1> QED
  BY <1>1, <1>2, <1>3 DEF Streaming

LEMMA StreamingFacts ==
    ASSUME Streaming
    PROVE  /\ answer \in Seq(Blocks) /\ Len(answer) \in Nat
           /\ DOMAIN inProgress \in SUBSET Nat /\ IsFiniteSet(DOMAIN inProgress)
           /\ unended \subseteq DOMAIN inProgress
           /\ \A i \in DOMAIN inProgress : inProgress[i].call \in 1..Len(answer)
           /\ Len(CallsOf(answer)) \in Nat
           /\ profile # "google" => CallsKept(profile, answer, inProgress)
<1>1. answer \in Seq(Blocks)
  BY DEF Streaming, StreamTypes
<1>2. Len(answer) \in Nat /\ Len(CallsOf(answer)) \in Nat
  BY <1>1, CallsOfIs
<1> QED
  BY <1>1, <1>2 DEF Streaming, StreamTypes, CallsInStep

LEMMA StreamingSays == ASSUME Streaming, Say PROVE Streaming'
<1>1. /\ answer' = Append(answer, Block("text", 0)) /\ inProgress' = inProgress /\ unended' = unended
      /\ UNCHANGED <<profile, turns, finish, stream>> /\ stream = "streaming"
  BY DEF Say, Chunk, Answering
<1>2. Block("text", 0) \in Blocks
  BY StreamAssumption DEF Block, Blocks
<1>3. answer' \in Seq(Blocks) /\ Len(answer') = Len(answer) + 1
  BY <1>1, <1>2, StreamingFacts
<1>4. \A i \in DOMAIN inProgress' : inProgress'[i].call \in 1..Len(answer')
  BY <1>1, <1>3, StreamingFacts
<1>5. CallsOf(answer') = CallsOf(answer)
  <2>1. answer \in Seq(Blocks) /\ 0 \in 0..MaxFragments
    BY StreamingFacts, StreamAssumption
  <2> QED
    BY <2>1, <1>1, CallsAppend
<1>6. (profile = "google" /\ Len(CallsOf(answer')) > 1) \/ CallsKept(profile, answer', inProgress')
  <2>1. CASE CallsKept(profile, answer, inProgress)
    BY <2>1, <1>1, StreamingFacts, KeptSays
  <2> QED
    BY <2>1, <1>5 DEF Streaming, CallsInStep
<1> QED
  BY <1>1, <1>3, <1>4, <1>6, StreamingFacts, StreamingChunk

(* A call is opened, with its first fragment or without. *)
LEMMA StreamingOpens ==
    ASSUME Streaming, stream = "streaming", UNCHANGED <<profile, turns, finish, stream>>,
           NEW n \in 0..MaxFragments, NEW index,
           index = IF profile = "anthropic" THEN Len(answer) ELSE Len(CallsOf(answer)),
           answer' = Append(answer, Block("call", n)),
           DOMAIN inProgress' = DOMAIN inProgress \cup {index},
           inProgress'[index] = [call |-> Len(answer) + 1, args |-> Numbers(n)],
           \A i \in DOMAIN inProgress \ {index} : inProgress'[i] = inProgress[i],
           unended' \subseteq unended \cup {index},
           CallsKept(profile, answer, inProgress)
    PROVE  Streaming'
<1>1. Block("call", n) \in Blocks
  BY DEF Block, Blocks
<1>2. answer' \in Seq(Blocks) /\ Len(answer') = Len(answer) + 1
  BY <1>1, StreamingFacts
<1>3. index \in Nat
  BY StreamingFacts
<1>4. DOMAIN inProgress' \in SUBSET Nat /\ IsFiniteSet(DOMAIN inProgress')
  <2>1. IsFiniteSet(DOMAIN inProgress \cup {index})
    BY StreamingFacts, FS_AddElement
  <2> QED
    BY <2>1, <1>3, StreamingFacts
<1>5. \A i \in DOMAIN inProgress' : inProgress'[i].call \in 1..Len(answer')
  <2> SUFFICES ASSUME NEW i \in DOMAIN inProgress' PROVE inProgress'[i].call \in 1..Len(answer')
    OBVIOUS
  <2>1. CASE i = index
    <3>1. inProgress'[i].call = Len(answer) + 1
      BY <2>1
    <3> QED
      BY <3>1, <1>2, StreamingFacts
  <2>2. CASE i \in DOMAIN inProgress \ {index}
    BY <2>2, <1>2, StreamingFacts
  <2> QED
    BY <2>1, <2>2
<1>6. CallsKept(profile, answer', inProgress')
  BY StreamingFacts, KeptStarts
<1>7. unended' \subseteq DOMAIN inProgress'
  BY StreamingFacts
<1> QED
  BY <1>2, <1>4, <1>5, <1>6, <1>7, StreamingChunk

LEMMA StreamingOpenCall == ASSUME Streaming, OpenCall, profile \notin {"google", "anthropic"} PROVE Streaming'
<1>1. PICK n \in 0..1 :
         LET index   == Len(CallsOf(answer))
             started == Started(inProgress, index, Len(answer) + 1)
         IN  /\ Chunk(Append(answer, Block("call", n)),
                      IF n = 0 THEN started ELSE Longer(started, index, 1))
             /\ unended' = unended \cup {index}
  BY DEF OpenCall
<1> DEFINE index   == Len(CallsOf(answer))
           started == Started(inProgress, index, Len(answer) + 1)
<1>2. /\ DOMAIN started = DOMAIN inProgress \cup {index}
      /\ started[index] = [call |-> Len(answer) + 1, args |-> <<>>]
      /\ \A i \in DOMAIN inProgress \ {index} : started[i] = inProgress[i]
  BY DEF Started
<1>3. /\ answer' = Append(answer, Block("call", n)) /\ unended' = unended \cup {index}
      /\ inProgress' = IF n = 0 THEN started ELSE Longer(started, index, 1)
      /\ UNCHANGED <<profile, turns, finish, stream>> /\ stream = "streaming"
  BY <1>1 DEF Chunk, OpenCall, Answering
<1> HIDE DEF index, started
<1>4. /\ DOMAIN inProgress' = DOMAIN inProgress \cup {index}
      /\ inProgress'[index] = [call |-> Len(answer) + 1, args |-> Numbers(n)]
      /\ \A i \in DOMAIN inProgress \ {index} : inProgress'[i] = inProgress[i]
  <2>1. CASE n = 0
    <3>1. Numbers(n) = <<>>
      BY <2>1 DEF Numbers
    <3> QED
      BY <2>1, <3>1, <1>2, <1>3
  <2>2. CASE n = 1
    <3>1. Append(<<>>, 1) = Numbers(n)
      BY <2>2 DEF Numbers
    <3>2. /\ DOMAIN inProgress' = DOMAIN started
          /\ inProgress'[index] = [call |-> Len(answer) + 1, args |-> Append(<<>>, 1)]
          /\ \A i \in DOMAIN started \ {index} : inProgress'[i] = started[i]
      BY <2>2, <1>2, <1>3 DEF Longer
    <3> QED
      BY <3>1, <3>2, <1>2
  <2> QED
    BY <2>1, <2>2
<1>5. n \in 0..MaxFragments /\ CallsKept(profile, answer, inProgress)
  BY StreamAssumption, StreamingFacts
<1> QED
  BY <1>3, <1>4, <1>5, StreamingOpens DEF index

LEMMA StreamingAnthropicCall == ASSUME Streaming, AnthropicCall PROVE Streaming'
<1>1. /\ answer' = Append(answer, Block("call", 0)) /\ unended' = unended
      /\ inProgress' = Started(inProgress, Len(answer), Len(answer) + 1)
      /\ UNCHANGED <<profile, turns, finish, stream>> /\ stream = "streaming" /\ profile = "anthropic"
  BY DEF AnthropicCall, Chunk, Answering
<1>2. Numbers(0) = <<>> /\ 0 \in 0..MaxFragments
  BY StreamAssumption DEF Numbers
<1>3. /\ DOMAIN inProgress' = DOMAIN inProgress \cup {Len(answer)}
      /\ inProgress'[Len(answer)] = [call |-> Len(answer) + 1, args |-> Numbers(0)]
      /\ \A i \in DOMAIN inProgress \ {Len(answer)} : inProgress'[i] = inProgress[i]
  BY <1>1, <1>2 DEF Started
<1>4. CallsKept(profile, answer, inProgress)
  BY <1>1, StreamingFacts
<1> QED
  BY <1>1, <1>2, <1>3, <1>4, StreamingOpens

(* Google's first call is kept, whole; a second takes its place. *)
LEMMA StreamingGoogleCall == ASSUME Streaming, GoogleCall PROVE Streaming'
<1> DEFINE started == Started(inProgress, 0, Len(answer) + 1)
<1>1. /\ answer' = Append(answer, Block("call", 1)) /\ unended' = unended
      /\ inProgress' = Repeated(started, 0, <<1>>)
      /\ UNCHANGED <<profile, turns, finish, stream>> /\ stream = "streaming" /\ profile = "google"
  BY DEF GoogleCall, Chunk, Answering
<1>2. Numbers(1) = <<1>> /\ 1 \in 0..MaxFragments /\ <<1>> # <<>>
  BY StreamAssumption DEF Numbers
<1>3. /\ DOMAIN started = DOMAIN inProgress \cup {0}
      /\ started[0] = [call |-> Len(answer) + 1, args |-> <<>>]
      /\ \A i \in DOMAIN inProgress \ {0} : started[i] = inProgress[i]
  BY DEF Started
<1> HIDE DEF started
<1>4. /\ DOMAIN inProgress' = DOMAIN inProgress \cup {0}
      /\ inProgress'[0] = [call |-> Len(answer) + 1, args |-> Numbers(1)]
      /\ \A i \in DOMAIN inProgress \ {0} : inProgress'[i] = inProgress[i]
  BY <1>1, <1>2, <1>3 DEF Repeated
<1>5. CASE Len(CallsOf(answer)) = 0
  <2>1. CallsKept(profile, answer, inProgress)
    BY <1>5 DEF Streaming, CallsInStep
  <2> QED
    BY <1>1, <1>2, <1>4, <1>5, <2>1, StreamingOpens
<1>6. CASE Len(CallsOf(answer)) > 0
  <2>1. Block("call", 1) \in Blocks
    BY <1>2 DEF Block, Blocks
  <2>2. answer' \in Seq(Blocks) /\ Len(answer') = Len(answer) + 1
    BY <1>1, <2>1, StreamingFacts
  <2>3. Len(CallsOf(answer')) > 1
    <3>1. CallsOf(answer') = Append(CallsOf(answer), Len(answer) + 1)
      <4>1. answer \in Seq(Blocks)
        BY StreamingFacts
      <4> QED
        BY <4>1, <1>1, <1>2, CallsAppend
    <3>2. CallsOf(answer) \in Seq(CallSet(answer) \cup {Len(answer) + 1})
      <4>1. /\ Len(CallsOf(answer)) \in Nat
            /\ CallsOf(answer) \in [1..Len(CallsOf(answer)) -> CallSet(answer)]
        BY StreamingFacts, CallsOfIs
      <4>2. CallsOf(answer) \in [1..Len(CallsOf(answer)) -> CallSet(answer) \cup {Len(answer) + 1}]
        BY <4>1
      <4> QED
        BY <4>1, <4>2
    <3>3. Len(CallsOf(answer')) = Len(CallsOf(answer)) + 1
      BY <3>1, <3>2
    <3> QED
      BY <3>3, <1>6, StreamingFacts
  <2>4. DOMAIN inProgress' \in SUBSET Nat /\ IsFiniteSet(DOMAIN inProgress')
    <3>1. IsFiniteSet(DOMAIN inProgress \cup {0})
      BY StreamingFacts, FS_AddElement
    <3> QED
      BY <3>1, <1>4, StreamingFacts
  <2>5. \A i \in DOMAIN inProgress' : inProgress'[i].call \in 1..Len(answer')
    <3> SUFFICES ASSUME NEW i \in DOMAIN inProgress' PROVE inProgress'[i].call \in 1..Len(answer')
      OBVIOUS
    <3>1. CASE i = 0
      <4>1. inProgress'[i].call = Len(answer) + 1
        BY <3>1, <1>4
      <4> QED
        BY <4>1, <2>2, StreamingFacts
    <3>2. CASE i \in DOMAIN inProgress \ {0}
      BY <3>2, <1>4, <2>2, StreamingFacts
    <3> QED
      BY <3>1, <3>2, <1>4
  <2>6. unended' \subseteq DOMAIN inProgress'
    BY <1>1, <1>4, StreamingFacts
  <2> QED
    BY <1>1, <2>2, <2>3, <2>4, <2>5, <2>6, StreamingChunk
<1> QED
  BY <1>5, <1>6, StreamingFacts

(* The next fragment of the i-th call. *)
LEMMA StreamingFragment ==
    ASSUME Streaming, stream = "streaming", profile # "google",
           NEW i \in 1..Len(CallsOf(answer)),
           Fragment(IndexOf(profile, answer, i), CallsOf(answer)[i])
    PROVE  Streaming'
<1> DEFINE c == CallsOf(answer)[i]
           n == answer[c].frags + 1
           x == IndexOf(profile, answer, i)
<1>1. /\ answer' = [answer EXCEPT ![c].frags = n] /\ unended' = unended
      /\ inProgress' = Longer(inProgress, x, n) /\ n <= MaxFragments
      /\ UNCHANGED <<profile, turns, finish, stream>>
  BY DEF Fragment, Chunk
<1>2. c \in 1..Len(answer) /\ answer[c] \in Blocks
  BY StreamingFacts, IndicesRise
<1>3. n \in 1..MaxFragments
  <2>1. answer[c].frags \in Nat /\ MaxFragments \in Nat
    BY <1>2, StreamAssumption DEF Blocks
  <2> HIDE DEF c
  <2> QED
    BY <2>1, <1>1
<1> HIDE DEF c, n, x
<1>4. answer' \in Seq(Blocks) /\ Len(answer') = Len(answer)
  <2>1. n \in 0..MaxFragments
    BY <1>3
  <2> QED
    BY <2>1, <1>1, <1>2, StreamingFacts, CallsLonger
<1>5. /\ DOMAIN inProgress' = DOMAIN inProgress
      /\ \A j \in DOMAIN inProgress : inProgress'[j].call = inProgress[j].call
  <2>1. x \in DOMAIN inProgress /\ inProgress[x] = SaidSoFar(answer, i)
    BY StreamingFacts DEF CallsKept, x
  <2>2. inProgress' = [inProgress EXCEPT ![x].args = Append(inProgress[x].args, n)]
    BY <1>1, <2>1 DEF Longer
  <2>3. inProgress'[x].call = inProgress[x].call
    BY <2>1, <2>2 DEF SaidSoFar
  <2> QED
    BY <2>2, <2>3
<1>6. CallsKept(profile, answer', inProgress')
  BY <1>1, <1>3, StreamingFacts, KeptContinues DEF c, n, x
<1> QED
  BY <1>1, <1>4, <1>5, <1>6, StreamingFacts, StreamingChunk

LEMMA StreamingArguments ==
    ASSUME Streaming, (MoreArguments /\ profile \notin {"google", "anthropic"}) \/ AnthropicArguments
    PROVE  Streaming'
<1>1. CASE MoreArguments /\ profile \notin {"google", "anthropic"}
  <2>1. PICK i \in 1..Len(CallsOf(answer)) : Fragment(i - 1, CallsOf(answer)[i])
    BY <1>1 DEF MoreArguments
  <2>2. IndexOf(profile, answer, i) = i - 1
    BY <1>1 DEF IndexOf
  <2>3. stream = "streaming"
    BY <1>1 DEF MoreArguments, Answering
  <2> QED
    BY <1>1, <2>1, <2>2, <2>3, StreamingFragment
<1>2. CASE AnthropicArguments
  <2>1. /\ stream = "streaming" /\ profile = "anthropic" /\ answer # <<>> /\ Last(answer).kind = "call"
        /\ Fragment(Len(answer) - 1, Len(answer))
    BY <1>2 DEF AnthropicArguments, Answering
  <2>2. answer \in Seq(Blocks) /\ Len(answer) \in 1..Len(answer)
    BY <2>1, StreamingFacts
  <2>3. Len(answer) \in CallSet(answer)
    BY <2>1, <2>2 DEF CallSet, Last
  <2>4. PICK i \in 1..Len(CallsOf(answer)) : CallsOf(answer)[i] = Len(answer)
    <3>1. CallSet(answer) = {CallsOf(answer)[k] : k \in 1..Len(CallsOf(answer))}
      BY <2>2, CallsOfIs
    <3> QED
      BY <2>3, <3>1
  <2>5. IndexOf(profile, answer, i) = Len(answer) - 1
    BY <2>1, <2>4 DEF IndexOf
  <2> QED
    BY <2>1, <2>4, <2>5, StreamingFragment
<1> QED
  BY <1>1, <1>2

LEMMA StreamingCloses ==
    ASSUME Streaming, CloseOneCall, profile \notin {"google", "anthropic"}
    PROVE  Streaming'
<1>1. PICK i \in 1..Len(CallsOf(answer)) : CloseCall(i)
  BY DEF CloseOneCall
<1>2. /\ inProgress' = Repeated(inProgress, i - 1, Numbers(answer[CallsOf(answer)[i]].frags))
      /\ unended' \subseteq unended /\ UNCHANGED <<profile, turns, answer, finish, stream>>
      /\ stream = "streaming"
  BY <1>1 DEF CloseCall
<1>3. IndexOf(profile, answer, i) = i - 1
  BY DEF IndexOf
<1>4. CallsKept(profile, answer, inProgress) /\ CallsKept(profile, answer, inProgress')
  BY <1>2, <1>3, StreamingFacts, KeptEnds
<1>5. DOMAIN inProgress' = DOMAIN inProgress
  BY <1>4 DEF CallsKept
<1>6. \A j \in DOMAIN inProgress : inProgress'[j] = inProgress[j]
  BY <1>4 DEF CallsKept
<1>7. \A j \in DOMAIN inProgress' : inProgress'[j].call \in 1..Len(answer')
  BY <1>2, <1>5, <1>6, StreamingFacts
<1> QED
  BY <1>2, <1>4, <1>5, <1>7, StreamingFacts, StreamingChunk

LEMMA StreamingTurns == ASSUME Streaming, ToolTurn PROVE Streaming'
<1> DEFINE new == [i \in 1..Len(Assembled) |->
                             Assembled[i].args = <<>> \/ Assembled[i].call # CutCall]
<1>1. Assembled # <<>> /\ Leave("request", Append(turns, new))
  BY DEF ToolTurn
<1>2. PICK seen \in Seq(DOMAIN inProgress) :
              /\ Len(Assembled) = Len(seen) /\ DOMAIN Assembled = 1..Len(seen)
              /\ \A k \in 1..Len(seen) : Assembled[k] = inProgress[seen[k]]
  <2> StreamTypes
    BY DEF Streaming
  <2> QED
    BY AssembledIs
<1>3. Len(Assembled) \in Nat
  BY <1>2
<1>4. Len(Assembled) # 0
  <2> SUFFICES ASSUME Len(Assembled) = 0 PROVE FALSE
    OBVIOUS
  <2>1. DOMAIN Assembled = {} /\ Assembled = [k \in DOMAIN Assembled |-> Assembled[k]]
    BY <1>2 DEF Assembled
  <2>2. Assembled = <<>>
    BY <2>1
  <2> QED
    BY <2>2, <1>1
<1>5. new \in Seq(BOOLEAN) /\ Len(new) = Len(Assembled)
  BY <1>3
<1>6. new # <<>> /\ \A i \in 1..(Len(new) - 1) : new[i]
  <2>1. \A i \in 1..(Len(Assembled) - 1) : Assembled[i].call # CutCall
    BY CutIsLast
  <2>2. ASSUME NEW i \in 1..(Len(new) - 1) PROVE new[i]
    <3>1. i \in 1..Len(Assembled) /\ i \in 1..(Len(Assembled) - 1)
      BY <1>3, <1>5
    <3>2. Assembled[i].call # CutCall
      BY <2>1, <3>1
    <3>3. new[i] = (Assembled[i].args = <<>> \/ Assembled[i].call # CutCall)
      BY <3>1
    <3> HIDE DEF new
    <3> QED
      BY <3>2, <3>3
  <2>3. new # <<>>
    BY <1>4, <1>5
  <2> QED
    BY <2>2, <2>3
<1> HIDE DEF new
<1>7. /\ turns \in Seq(Seq(BOOLEAN))
      /\ \A t \in 1..Len(turns) : turns[t] # <<>> /\ \A i \in 1..(Len(turns[t]) - 1) : turns[t][i]
  BY DEF Streaming, StreamTypes, CutsLast
<1> DEFINE past == Append(turns, new)
<1>8. /\ past \in Seq(Seq(BOOLEAN)) /\ Len(past) = Len(turns) + 1 /\ past[Len(turns) + 1] = new
      /\ \A t \in 1..Len(turns) : past[t] = turns[t]
  BY <1>5, <1>7
<1>9. \A t \in 1..Len(past) : past[t] # <<>> /\ \A i \in 1..(Len(past[t]) - 1) : past[t][i]
  <2> HIDE DEF past
  <2>1. \A t \in 1..Len(past) : t \in 1..Len(turns) \/ t = Len(turns) + 1
    BY <1>7, <1>8
  <2> QED
    BY <2>1, <1>6, <1>7, <1>8
<1>10. Leave("request", past)
  BY <1>1
<1> HIDE DEF past
<1> QED
  BY <1>8, <1>9, <1>10, StreamingLeaves

LEMMA StreamingStep == Streaming /\ [StreamNext]_streamVars => Streaming'
<1> SUFFICES ASSUME Streaming, [StreamNext]_streamVars PROVE Streaming'
  OBVIOUS
<1>0. /\ stream \in {"request", "streaming", "closed", "failed", "refused", "answered"}
      /\ finish \in {"none"} \cup Reasons /\ turns \in Seq(Seq(BOOLEAN))
      /\ \A t \in 1..Len(turns) : turns[t] # <<>> /\ \A i \in 1..(Len(turns[t]) - 1) : turns[t][i]
      /\ stream = "refused" => ~Marshals
  BY DEF Streaming, StreamTypes, CutsLast
<1>1. CASE OpenAIRequest \/ DashScopeRequest \/ AnthropicRequest \/ GoogleRequest
  <2>1. /\ UNCHANGED <<profile, turns, answer, inProgress, unended, finish>>
        /\ stream' = "streaming" \/ (stream' = "refused" /\ ~Marshals)
    BY <1>1 DEF OpenAIRequest, DashScopeRequest, AnthropicRequest, GoogleRequest, Send
  <2> QED
    BY <1>0, <2>1, StreamingSame
<1>2. CASE Finish \/ EndOfStream \/ UNCHANGED streamVars
  <2>1. /\ UNCHANGED <<profile, turns, answer, inProgress, unended>>
        /\ finish' \in {"none"} \cup Reasons
        /\ stream' \in {stream, "closed"}
    BY <1>0, <1>2 DEF Finish, EndOfStream, streamVars
  <2> QED
    BY <1>0, <2>1, StreamingSame
<1>3. CASE StreamFails \/ LastTurn \/ PromptAgain
  BY <1>0, <1>3, StreamingLeaves DEF StreamFails, LastTurn, PromptAgain
<1>4. CASE OpenAIChunk \/ DashScopeChunk
  <2>1. profile \notin {"google", "anthropic"}
    BY <1>4 DEF OpenAIChunk, DashScopeChunk, Completions
  <2> QED
    BY <1>2, <1>4, <2>1, StreamingOpenCall, StreamingArguments, StreamingCloses
    DEF OpenAIChunk, DashScopeChunk
<1>5. CASE AnthropicFinish \/ GoogleFinish
  BY <1>2, <1>5 DEF AnthropicFinish, GoogleFinish
<1> QED
  BY <1>1, <1>2, <1>3, <1>4, <1>5, StreamingSays, StreamingArguments,
     StreamingAnthropicCall, StreamingGoogleCall, StreamingTurns DEF StreamNext

(* A body that does not marshal has a call that was cut off, the last of   *)
(* its answer.                                                             *)
LEMMA StreamingRefuses == Streaming => RefusedOnlyAfterCut
<1> SUFFICES ASSUME Streaming, stream = "refused" PROVE \E t \in 1..Len(turns) : ~Last(turns[t])
  BY DEF RefusedOnlyAfterCut
<1>1. PICK t \in 1..Len(turns) : ~(\A i \in 1..Len(turns[t]) : turns[t][i])
  BY DEF Streaming, Marshals
<1>2. PICK i \in 1..Len(turns[t]) : ~turns[t][i]
  BY <1>1
<1>3. turns[t] \in Seq(BOOLEAN) /\ Len(turns[t]) \in Nat
  BY DEF Streaming, StreamTypes
<1>4. \A k \in 1..(Len(turns[t]) - 1) : turns[t][k]
  BY DEF Streaming, CutsLast
<1>5. i = Len(turns[t])
  <2>1. i \notin 1..(Len(turns[t]) - 1)
    BY <1>2, <1>4
  <2> QED
    BY <1>3, <2>1
<1> QED
  BY <1>2, <1>5 DEF Last

LEMMA StreamingTypes == Streaming => StreamTypeOK
BY DEF Streaming, StreamTypes, StreamTypeOK, Blocks
-------------------------------------------------------------------------------
(* The calls the loop runs are those the model asked for, in its order,    *)
(* each with all the fragments that arrived and none of them twice         *)
(* (loop.go:371-424), for any number of calls and fragments, in whatever   *)
(* order fragments come and calls end.                                     *)
THEOREM CallsAsSaidAlways == Spec => []CallsAsSaid
<1>1. Init => Streaming
  BY StreamingInit DEF Init
<1>2. Streaming /\ [Next \/ (Stopped /\ UNCHANGED vars)]_vars => Streaming'
  <2>1. [Next \/ (Stopped /\ UNCHANGED vars)]_vars => [StreamNext]_streamVars
    BY DEF Next, Others, vars
  <2> QED
    BY <2>1, StreamingStep
<1> QED
  BY <1>1, <1>2, StreamedAsSaid, PTL DEF Spec
-------------------------------------------------------------------------------

(* What FlattenSeq puts where: the sequences one after the other, and      *)
(* nothing else.                                                           *)
LEMMA FlattenIs ==
    ASSUME NEW S, NEW n \in Nat \ {0}, NEW ss \in [1..n -> Seq(S)]
    PROVE  \E at \in [1..(n + 1) -> Nat] :
              /\ at[1] = 0 /\ \A i \in 1..n : at[i + 1] = at[i] + Len(ss[i])
              /\ FlattenSeq(ss) \in Seq(S) /\ Len(FlattenSeq(ss)) = at[n + 1]
              /\ \A i \in 1..n : \A k \in 1..Len(ss[i]) : FlattenSeq(ss)[at[i] + k] = ss[i][k]
              /\ \A x \in 1..at[n + 1] : \E i \in 1..n : x - at[i] \in 1..Len(ss[i])
<1> DEFINE F(f, m) == f = [i \in 1..m |-> IF i = 1 THEN ss[i] ELSE f[i - 1] \o ss[i]]
           B == {m \in Nat \ {0} : ~ \E f : F(f, m)}
           flatten == CHOOSE f : F(f, n)
<1>1. B = {}
  <2> SUFFICES ASSUME B # {} PROVE FALSE
    OBVIOUS
  <2>1. PICK m \in B : \A y \in B : m <= y
    BY Least, B \subseteq Nat
  <2>2. m # 1
    <3> DEFINE f == [i \in 1..1 |-> ss[1]]
    <3>1. F(f, 1)
      OBVIOUS
    <3> QED
      BY <2>1, <3>1
  <2>3. m - 1 \in Nat \ {0} /\ ~(m <= m - 1)
    BY <2>1, <2>2
  <2>4. PICK f : F(f, m - 1)
    BY <2>1, <2>3
  <2> DEFINE g == [i \in 1..m |-> IF i = m THEN f[m - 1] \o ss[m] ELSE f[i]]
  <2>5. \A i \in 1..m : i # m => g[i] = f[i] /\ i \in 1..(m - 1) /\ (i # 1 => g[i - 1] = f[i - 1])
    BY <2>1, <2>3
  <2>6. g[m] = f[m - 1] \o ss[m] /\ g[m - 1] = f[m - 1]
    <3>1. m \in 1..m /\ m - 1 \in 1..m /\ m - 1 # m
      BY <2>3
    <3> QED
      BY <3>1
  <2>7. \A i \in 1..m : g[i] = IF i = 1 THEN ss[i] ELSE g[i - 1] \o ss[i]
    <3> SUFFICES ASSUME NEW i \in 1..m PROVE g[i] = IF i = 1 THEN ss[i] ELSE g[i - 1] \o ss[i]
      OBVIOUS
    <3>1. CASE i = m
      BY <2>2, <2>6, <3>1
    <3>2. CASE i # m
      <4>1. f[i] = IF i = 1 THEN ss[i] ELSE f[i - 1] \o ss[i]
        BY <2>4, <2>5, <3>2
      <4>2. CASE i = 1
        BY <2>5, <3>2, <4>1, <4>2
      <4>3. CASE i # 1
        BY <2>5, <3>2, <4>1, <4>3
      <4> QED
        BY <4>2, <4>3
    <3> QED
      BY <3>1, <3>2
  <2>8. F(g, m)
    <3>1. g = [i \in 1..m |-> g[i]]
      OBVIOUS
    <3> HIDE DEF g
    <3> QED
      BY <2>7, <3>1
  <2> HIDE DEF g, F
  <2> QED
    BY <2>1, <2>8
<1>2. F(flatten, n)
  <2> HIDE DEF F
  <2> QED
    BY <1>1
<1> HIDE DEF flatten
<1>3. \A i \in 1..n : flatten[i] = IF i = 1 THEN ss[i] ELSE flatten[i - 1] \o ss[i]
  BY <1>2
<1>4. FlattenSeq(ss) = flatten[n]
  <2>1. Len(ss) = n /\ Len(ss) # 0
    OBVIOUS
  <2> QED
    BY <2>1 DEF FlattenSeq, flatten
<1> DEFINE at == [i \in 1..(n + 1) |-> IF i = 1 THEN 0 ELSE Len(flatten[i - 1])]
           G(m) == /\ flatten[m] \in Seq(S)
                   /\ m # 1 => /\ flatten[m - 1] \in Seq(S)
                                /\ Len(flatten[m]) = Len(flatten[m - 1]) + Len(ss[m])
                   /\ m = 1 => Len(flatten[m]) = Len(ss[m])
                   /\ \A i \in 1..m : \A k \in 1..Len(ss[i]) :
                         at[i] + k \in 1..Len(flatten[m]) /\ flatten[m][at[i] + k] = ss[i][k]
                   /\ \A x \in 1..Len(flatten[m]) : \E i \in 1..m : x - at[i] \in 1..Len(ss[i])
           C == {m \in 1..n : ~G(m)}
<1>5. \A i \in 1..n : ss[i] \in Seq(S) /\ Len(ss[i]) \in Nat
  OBVIOUS
<1>6. G(1)
  <2>1. flatten[1] = ss[1] /\ at[1] = 0 /\ 1 \in 1..n
    BY <1>3
  <2>2. flatten[1] \in Seq(S) /\ Len(flatten[1]) = Len(ss[1])
    BY <1>5, <2>1
  <2> HIDE DEF at
  <2>3. \A i \in 1..1 : i = 1
    OBVIOUS
  <2>4. \A i \in 1..1 : \A k \in 1..Len(ss[i]) :
          at[i] + k \in 1..Len(flatten[1]) /\ flatten[1][at[i] + k] = ss[i][k]
    BY <1>5, <2>1, <2>2, <2>3
  <2>5. \A x \in 1..Len(flatten[1]) : x - at[1] \in 1..Len(ss[1])
    BY <1>5, <2>1, <2>2
  <2> QED
    BY <2>2, <2>4, <2>5
<1>7. ASSUME NEW m \in 1..n, m # 1, G(m - 1) PROVE G(m)
  <2> DEFINE p == flatten[m - 1]
             q == ss[m]
  <2>1. flatten[m] = p \o q /\ m - 1 \in 1..n
    <3>1. m - 1 \in 1..n
      BY <1>7
    <3>2. flatten[m] = flatten[m - 1] \o ss[m]
      BY <1>3, <1>7
    <3> QED
      BY <3>1, <3>2
  <2>2. p \in Seq(S) /\ q \in Seq(S) /\ Len(p) \in Nat /\ Len(q) \in Nat
    BY <1>5, <1>7
  <2>3. at[m] = Len(p)
    BY <1>7
  <2> HIDE DEF at
  <2>4. \A i \in 1..(m - 1) : \A k \in 1..Len(ss[i]) : at[i] + k \in 1..Len(p) /\ p[at[i] + k] = ss[i][k]
    BY <1>7
  <2>5. \A x \in 1..Len(p) : \E i \in 1..(m - 1) : x - at[i] \in 1..Len(ss[i])
    BY <1>7
  <2> HIDE DEF p, q
  <2>6. /\ flatten[m] \in Seq(S) /\ Len(flatten[m]) = Len(p) + Len(q)
        /\ \A x \in 1..Len(p) : flatten[m][x] = p[x]
        /\ \A x \in 1..Len(q) : flatten[m][Len(p) + x] = q[x]
    BY <2>1, <2>2
  <2>7. \A i \in 1..m : i = m \/ i \in 1..(m - 1)
    OBVIOUS
  <2>8. ASSUME NEW i \in 1..m, NEW k \in 1..Len(ss[i])
        PROVE  at[i] + k \in 1..Len(flatten[m]) /\ flatten[m][at[i] + k] = ss[i][k]
    <3>1. CASE i = m
      <4>1. k \in 1..Len(q) /\ ss[i] = q /\ at[i] = Len(p)
        BY <2>3, <3>1 DEF q
      <4> QED
        BY <2>2, <2>6, <4>1
    <3>2. CASE i \in 1..(m - 1)
      <4>1. at[i] + k \in 1..Len(p) /\ p[at[i] + k] = ss[i][k]
        BY <2>4, <3>2
      <4>2. at[i] + k \in 1..(Len(p) + Len(q))
        BY <2>2, <4>1
      <4> QED
        BY <2>6, <4>1, <4>2
    <3> QED
      BY <2>7, <3>1, <3>2
  <2>9. ASSUME NEW x \in 1..Len(flatten[m]) PROVE \E i \in 1..m : x - at[i] \in 1..Len(ss[i])
    <3>1. x \in 1..(Len(p) + Len(q)) /\ (x \in 1..Len(p) \/ x - Len(p) \in 1..Len(q))
      BY <2>2, <2>6
    <3>2. CASE x \in 1..Len(p)
      <4>1. PICK i \in 1..(m - 1) : x - at[i] \in 1..Len(ss[i])
        BY <2>5, <3>2
      <4> QED
        BY <4>1
    <3>3. CASE x - Len(p) \in 1..Len(q)
      <4>1. m \in 1..m /\ x - at[m] \in 1..Len(ss[m])
        BY <2>3, <3>3 DEF q
      <4> QED
        BY <4>1
    <3> QED
      BY <3>1, <3>2, <3>3
  <2>10. flatten[m - 1] \in Seq(S) /\ Len(flatten[m]) = Len(flatten[m - 1]) + Len(ss[m])
    BY <2>2, <2>6 DEF p, q
  <2> QED
    BY <1>7, <2>6, <2>8, <2>9, <2>10
<1>8. C = {}
  <2> SUFFICES ASSUME C # {} PROVE FALSE
    OBVIOUS
  <2> HIDE DEF G
  <2>1. PICK m \in C : \A y \in C : m <= y
    BY Least, C \subseteq Nat
  <2>2. m \in 1..n /\ ~G(m)
    BY <2>1
  <2>3. m # 1
    BY <1>6, <2>2
  <2>4. m - 1 \in 1..n /\ ~(m <= m - 1)
    BY <2>2, <2>3
  <2>5. G(m - 1)
    BY <2>1, <2>4
  <2> QED
    BY <1>7, <2>2, <2>3, <2>5
<1>9. \A m \in 1..n : G(m)
  <2> HIDE DEF G
  <2> QED
    BY <1>8
<1>10. at \in [1..(n + 1) -> Nat]
  <2>1. \A m \in 1..n : Len(flatten[m]) \in Nat
    BY <1>9
  <2>2. \A i \in 1..(n + 1) : i = 1 \/ i - 1 \in 1..n
    OBVIOUS
  <2> QED
    BY <2>1, <2>2
<1>11. at[1] = 0 /\ at[n + 1] = Len(flatten[n])
  OBVIOUS
<1>12. ASSUME NEW i \in 1..n PROVE at[i + 1] = at[i] + Len(ss[i])
  <2>1. at[i + 1] = Len(flatten[i])
    OBVIOUS
  <2>2. CASE i = 1
    BY <1>5, <1>9, <1>11, <2>1, <2>2
  <2>3. CASE i # 1
    <3>1. at[i] = Len(flatten[i - 1])
      BY <2>3
    <3>2. Len(flatten[i]) = Len(flatten[i - 1]) + Len(ss[i])
      BY <1>9, <2>3
    <3> QED
      BY <2>1, <3>1, <3>2
  <2> QED
    BY <2>2, <2>3
<1>13. n \in 1..n /\ G(n)
  <2> HIDE DEF G
  <2> QED
    BY <1>9
<1> HIDE DEF at
<1>14. /\ FlattenSeq(ss) \in Seq(S) /\ Len(FlattenSeq(ss)) = at[n + 1]
       /\ \A i \in 1..n : \A k \in 1..Len(ss[i]) : FlattenSeq(ss)[at[i] + k] = ss[i][k]
       /\ \A x \in 1..at[n + 1] : \E i \in 1..n : x - at[i] \in 1..Len(ss[i])
  BY <1>4, <1>11, <1>13
<1> QED
  BY <1>10, <1>11, <1>12, <1>14

(***************************************************************************)
(* The limits of a request.                                                *)

LEMMA LimitsFit == ThinkingFits
<1> SUFFICES ASSUME NEW base \in TokenLimits, NEW output \in TokenLimits, NEW level \in Levels,
                    AdjustMaxTokens(base, output, level).budget > 0
             PROVE  LET limits == AdjustMaxTokens(base, output, level)
                        max    == MaxTokensSent(limits.max, base, output)
                    IN  limits.budget < max /\ max <= output
  BY DEF ThinkingFits
<1>1. base \in Nat /\ output \in Nat
  BY TokenAssumption
<1>2. BudgetForLevel(level) \in Nat
  BY DEF BudgetForLevel, Levels
<1> DEFINE budget == BudgetForLevel(level)
           max == IF base = 0 THEN output ELSE IF base + budget > output THEN output ELSE base + budget
           spent == IF max <= budget THEN (IF max > MinOutput THEN max - MinOutput ELSE 0) ELSE budget
<1>3. AdjustMaxTokens(base, output, level) = [max |-> max, budget |-> spent]
  BY DEF AdjustMaxTokens
<1> HIDE DEF budget
<1>4. budget \in Nat
  BY <1>2 DEF budget
<1>5. max \in Nat /\ max <= output
  BY <1>1, <1>4
<1>6. spent > 0 => spent < max /\ max # 0
  <2> HIDE DEF max
  <2> QED
    BY <1>4, <1>5 DEF MinOutput
<1> HIDE DEF max, spent
<1>7. spent > 0
  BY <1>3
<1>8. MaxTokensSent(max, base, output) = max
  BY <1>6, <1>7 DEF MaxTokensSent
<1> QED
  BY <1>3, <1>5, <1>6, <1>7, <1>8
-------------------------------------------------------------------------------
(***************************************************************************)
(* Calls and their results in a request.                                   *)

Wires == [role : {"user", "assistant", "tool"},
          calls : SUBSET (Nat \X Nat), answers : SUBSET (Nat \X Nat)]

(* A message with calls is followed by the result of each of them in turn. *)
Followed(msgs) ==
    /\ msgs \in Seq(Wires)
    /\ \A x \in 1..Len(msgs) :
          \/ msgs[x].calls = {}
          \/ \E t \in 1..Len(turns) :
                /\ msgs[x].calls = {<<t, i>> : i \in 1..Len(turns[t])}
                /\ \A k \in 1..Len(turns[t]) :
                      x + k \in 1..Len(msgs) /\ msgs[x + k].answers = {<<t, k>>}

LEMMA HistoryIs == ASSUME turns \in Seq(Seq(BOOLEAN)) PROVE Followed(History)
<1> DEFINE n == Len(turns)
           ss == [t \in 1..n |-> <<Asked(t)>> \o Results(t)]
           user == Wire("user", {}, {})
<1>1. n \in Nat /\ \A t \in 1..n : turns[t] \in Seq(BOOLEAN) /\ Len(turns[t]) \in Nat
  BY ElementOfSeq
<1>2. user \in Wires /\ user.calls = {}
  BY DEF Wire, Wires
<1>3. ASSUME NEW t \in 1..n
      PROVE  /\ ss[t] \in Seq(Wires) /\ Len(ss[t]) = Len(turns[t]) + 1
             /\ ss[t][1].calls = {<<t, i>> : i \in 1..Len(turns[t])}
             /\ \A k \in 1..Len(turns[t]) : ss[t][k + 1].calls = {} /\ ss[t][k + 1].answers = {<<t, k>>}
  <2> DEFINE m == Len(turns[t])
  <2>1. m \in Nat /\ t \in Nat
    BY <1>1
  <2>2. Asked(t) \in Wires /\ Asked(t).calls = {<<t, i>> : i \in 1..m}
    <3>1. {<<t, i>> : i \in 1..m} \in SUBSET (Nat \X Nat)
      BY <2>1
    <3> QED
      BY <3>1 DEF Asked, Wire, Wires
  <2>3. \A k \in 1..m : Wire("tool", {}, {<<t, k>>}) \in Wires
    BY <2>1 DEF Wire, Wires
  <2>4. Results(t) = [k \in 1..m |-> Wire("tool", {}, {<<t, k>>})]
    BY DEF Results
  <2>5. \A k \in 1..m : Results(t)[k].calls = {} /\ Results(t)[k].answers = {<<t, k>>}
    BY <2>4 DEF Wire
  <2> HIDE DEF m
  <2>6. Results(t) \in [1..m -> Wires]
    BY <2>3, <2>4
  <2>7. Results(t) \in Seq(Wires) /\ Len(Results(t)) = m
    BY <2>1, <2>6, SeqDef
  <2>8. /\ <<Asked(t)>> \in Seq(Wires) /\ Len(<<Asked(t)>>) = 1 /\ <<Asked(t)>>[1] = Asked(t)
    BY <2>2
  <2> DEFINE s == <<Asked(t)>> \o Results(t)
  <2>9. /\ s \in Seq(Wires) /\ Len(s) = m + 1 /\ s[1] = Asked(t)
        /\ \A k \in 1..m : s[k + 1] = Results(t)[k]
    BY <2>1, <2>7, <2>8
  <2>10. ss[t] = s
    OBVIOUS
  <2> HIDE DEF s, ss
  <2> QED
    BY <2>2, <2>5, <2>9, <2>10 DEF m
<1>4. CASE n = 0
  <2>1. ss = <<>> /\ Len(ss) = 0
    BY <1>4
  <2>2. FlattenSeq(ss) = <<>>
    BY <2>1 DEF FlattenSeq
  <2>3. History = <<user>>
    <3>1. History = <<user>> \o FlattenSeq(ss)
      BY DEF History
    <3>2. <<user>> \o <<>> = <<user>>
      OBVIOUS
    <3> QED
      BY <2>2, <3>1, <3>2
  <2> QED
    BY <1>2, <2>3 DEF Followed
<1>5. CASE n # 0
  <2>1. n \in Nat \ {0} /\ ss \in [1..n -> Seq(Wires)]
    BY <1>1, <1>3, <1>5
  <2> DEFINE G == FlattenSeq(ss)
  <2>2. History = <<user>> \o G
    BY DEF History
  <2> HIDE DEF ss, G
  <2>3. PICK at \in [1..(n + 1) -> Nat] :
              /\ at[1] = 0 /\ \A i \in 1..n : at[i + 1] = at[i] + Len(ss[i])
              /\ G \in Seq(Wires) /\ Len(G) = at[n + 1]
              /\ \A i \in 1..n : \A k \in 1..Len(ss[i]) : G[at[i] + k] = ss[i][k]
              /\ \A x \in 1..at[n + 1] : \E i \in 1..n : x - at[i] \in 1..Len(ss[i])
    BY <2>1, FlattenIs DEF G
  <2> HIDE DEF user
  <2>4. /\ History \in Seq(Wires) /\ Len(History) = Len(G) + 1 /\ Len(G) \in Nat
        /\ History[1] = user /\ \A x \in 1..Len(G) : History[x + 1] = G[x]
    BY <1>2, <2>2, <2>3
  <2> HIDE DEF n
  <2>9. ASSUME NEW i \in 1..n
        PROVE  /\ i \in Nat /\ at[i] \in Nat /\ at[i + 1] \in Nat /\ Len(turns[i]) \in Nat
               /\ at[i + 1] = at[i] + Len(turns[i]) + 1
    <3>1. i \in Nat /\ i \in 1..(n + 1) /\ i + 1 \in 1..(n + 1)
      BY <2>1
    <3>2. at[i] \in Nat /\ at[i + 1] \in Nat /\ Len(turns[i]) \in Nat
      BY <1>1, <3>1
    <3>3. at[i + 1] = at[i] + Len(ss[i])
      BY <2>3
    <3>4. Len(ss[i]) = Len(turns[i]) + 1
      BY <1>3
    <3> QED
      BY <3>1, <3>2, <3>3, <3>4
  <2>5. ASSUME NEW t \in 1..n PROVE at[t] \in Nat /\ at[t] + Len(turns[t]) + 1 <= Len(G)
    <3> DEFINE Short == {i \in t..n : at[t] + Len(turns[t]) + 1 > at[i + 1]}
    <3>2. Short = {}
      <4> SUFFICES ASSUME Short # {} PROVE FALSE
        OBVIOUS
      <4>1. PICK i \in Short : \A y \in Short : i <= y
        BY Least, Short \subseteq Nat
      <4>2. i \in t..n /\ i \in 1..n /\ t \in Nat /\ i \in Nat
        BY <2>1, <4>1
      <4>3. i # t
        BY <2>9, <4>1
      <4>4. i - 1 \in t..n /\ ~(i <= i - 1) /\ (i - 1) + 1 = i
        <5>1. n \in Nat
          BY <2>1
        <5> QED
          BY <4>2, <4>3, <5>1
      <4>5. i - 1 \notin Short
        BY <4>1, <4>4
      <4>6. at[t] + Len(turns[t]) + 1 > at[i + 1] /\ ~(at[t] + Len(turns[t]) + 1 > at[i])
        BY <4>1, <4>4, <4>5
      <4> QED
        <5>1. at[t] \in Nat /\ Len(turns[t]) \in Nat
          BY <2>9
        <5>2. at[i] \in Nat /\ Len(turns[i]) \in Nat /\ at[i + 1] = at[i] + Len(turns[i]) + 1
          BY <2>9, <4>2
        <5> QED
          BY <4>6, <5>1, <5>2, SMTT(40)
    <3>3. n \in t..n /\ n \notin Short
      <4>1. n \in t..n
        BY <2>1
      <4> QED
        BY <3>2, <4>1
    <3>4. at[t] \in Nat /\ at[n + 1] \in Nat /\ Len(turns[t]) \in Nat
      <4>1. n \in 1..n
        BY <2>1
      <4> QED
        BY <2>9, <4>1
    <3> QED
      BY <2>3, <3>3, <3>4
  <2>6. ASSUME NEW x \in 1..Len(History), History[x].calls # {}
        PROVE  \E t \in 1..n :
                  /\ History[x].calls = {<<t, i>> : i \in 1..Len(turns[t])}
                  /\ \A k \in 1..Len(turns[t]) :
                        x + k \in 1..Len(History) /\ History[x + k].answers = {<<t, k>>}
    <3>1. x # 1 /\ x - 1 \in 1..Len(G)
      BY <1>2, <2>4, <2>6 DEF user
    <3>2. History[x] = G[x - 1]
      BY <2>4, <3>1
    <3>3. PICK t \in 1..n : (x - 1) - at[t] \in 1..Len(ss[t])
      BY <2>3, <3>1
    <3> DEFINE k == (x - 1) - at[t]
    <3>4. /\ at[t] \in Nat /\ Len(turns[t]) \in Nat /\ Len(ss[t]) = Len(turns[t]) + 1
          /\ at[t] + Len(turns[t]) + 1 <= Len(G)
      BY <1>1, <1>3, <2>5
    <3>5. k \in 1..(Len(turns[t]) + 1) /\ at[t] + k = x - 1
      BY <3>1, <3>3, <3>4
    <3>6. G[x - 1] = ss[t][k]
      BY <2>3, <3>3, <3>5
    <3>7. k = 1
      <4> SUFFICES ASSUME k # 1 PROVE FALSE
        OBVIOUS
      <4> HIDE DEF k
      <4>1. k - 1 \in 1..Len(turns[t]) /\ (k - 1) + 1 = k
        BY <3>4, <3>5
      <4>2. ss[t][k].calls = {}
        BY <1>3, <4>1
      <4> QED
        BY <2>6, <3>2, <3>6, <4>2
    <3>8. History[x].calls = {<<t, i>> : i \in 1..Len(turns[t])}
      BY <1>3, <3>2, <3>6, <3>7
    <3>9. at[t] + 2 = x /\ Len(G) \in Nat
      <4>1. x \in Nat /\ Len(G) \in Nat
        BY <2>4
      <4> HIDE DEF k
      <4>2. at[t] + 1 = x - 1
        BY <3>5, <3>7
      <4>3. at[t] \in Nat
        BY <3>4
      <4> QED
        BY <4>1, <4>2, <4>3
    <3>10. ASSUME NEW j \in 1..Len(turns[t])
           PROVE  x + j \in 1..Len(History) /\ History[x + j].answers = {<<t, j>>}
      <4>1. j + 1 \in 1..Len(ss[t]) /\ at[t] + (j + 1) \in 1..Len(G) /\ x + j = (at[t] + (j + 1)) + 1
        <5> HIDE DEF k
        <5>1. j \in Nat /\ j >= 1 /\ j <= Len(turns[t])
          BY <3>4
        <5>2. j + 1 \in 1..Len(ss[t])
          BY <3>4, <5>1
        <5> DEFINE a == at[t]
        <5>5. /\ a \in Nat /\ Len(G) \in Nat /\ Len(turns[t]) \in Nat
              /\ a + Len(turns[t]) + 1 <= Len(G) /\ a + 2 = x
          BY <3>4, <3>9
        <5> HIDE DEF a
        <5>6. a + (j + 1) \in 1..Len(G)
          BY <5>1, <5>5
        <5>7. x + j = (a + (j + 1)) + 1
          BY <5>1, <5>5
        <5>3. at[t] + (j + 1) \in 1..Len(G)
          BY <5>6 DEF a
        <5>4. x + j = (at[t] + (j + 1)) + 1
          BY <5>7 DEF a
        <5> QED
          BY <5>2, <5>3, <5>4
      <4>2. G[at[t] + (j + 1)] = ss[t][j + 1]
        BY <2>3, <4>1
      <4>3. ss[t][j + 1].answers = {<<t, j>>}
        BY <1>3
      <4>4. x + j \in 1..Len(History) /\ History[x + j] = G[at[t] + (j + 1)]
        BY <2>4, <4>1
      <4> QED
        BY <4>2, <4>3, <4>4
    <3> QED
      BY <3>8, <3>10
  <2>7. History \in Seq(Wires)
    BY <2>4
  <2> HIDE DEF G
  <2>8. \A x \in 1..Len(History) : History[x].calls = {} \/ History[x].calls # {}
    OBVIOUS
  <2> QED
    BY <2>6, <2>7, <2>8 DEF n, Followed
<1> QED
  BY <1>1, <1>4, <1>5

LEMMA FollowedAsUser == ASSUME NEW msgs, Followed(msgs) PROVE Followed(AsUser(msgs))
<1> DEFINE other == AsUser(msgs)
<1>1. msgs \in Seq(Wires) /\ Len(msgs) \in Nat
  BY DEF Followed
<1>2. ASSUME NEW x \in 1..Len(msgs)
      PROVE  other[x] \in Wires /\ other[x].calls = msgs[x].calls /\ other[x].answers = msgs[x].answers
  <2>1. msgs[x] \in Wires
    BY <1>1, ElementOfSeq
  <2> DEFINE w == msgs[x]
             v == [w EXCEPT !.role = "user"]
  <2>2. other[x] = IF w.role = "tool" THEN v ELSE w
    BY DEF AsUser
  <2> HIDE DEF w, other
  <2>3. w \in Wires
    BY <2>1 DEF w
  <2>4. v \in Wires /\ v.calls = w.calls /\ v.answers = w.answers
    BY <2>3 DEF Wires
  <2> HIDE DEF v
  <2> QED
    BY <2>2, <2>3, <2>4 DEF w
<1>3. other = [x \in 1..Len(msgs) |-> other[x]]
  BY DEF AsUser
<1> HIDE DEF other
<1>4. other \in [1..Len(msgs) -> Wires]
  BY <1>2, <1>3
<1>5. other \in Seq(Wires) /\ Len(other) = Len(msgs)
  BY <1>1, <1>4, SeqDef
<1>6. ASSUME NEW x \in 1..Len(other), other[x].calls # {}
      PROVE  \E t \in 1..Len(turns) :
                /\ other[x].calls = {<<t, i>> : i \in 1..Len(turns[t])}
                /\ \A k \in 1..Len(turns[t]) :
                      x + k \in 1..Len(other) /\ other[x + k].answers = {<<t, k>>}
  <2>1. x \in 1..Len(msgs) /\ msgs[x].calls = other[x].calls
    BY <1>2, <1>5
  <2>2. PICK t \in 1..Len(turns) :
                /\ msgs[x].calls = {<<t, i>> : i \in 1..Len(turns[t])}
                /\ \A k \in 1..Len(turns[t]) :
                      x + k \in 1..Len(msgs) /\ msgs[x + k].answers = {<<t, k>>}
    BY <1>6, <2>1 DEF Followed
  <2> QED
    BY <1>2, <1>5, <2>1, <2>2
<1> QED
  BY <1>5, <1>6 DEF other, Followed

LEMMA FollowedPaired ==
    ASSUME NEW msgs, Followed(msgs), turns \in Seq(Seq(BOOLEAN))
    PROVE  ResultsFollowCalls(msgs)
<1> SUFFICES ASSUME NEW x \in 1..Len(msgs), NEW ofX \in msgs[x].calls
             PROVE  \E j \in (x + 1)..Len(msgs) :
                       /\ ofX \in msgs[j].answers
                       /\ \A k \in (x + 1)..j : /\ msgs[k].answers # {}
                                               /\ msgs[k].answers \subseteq msgs[x].calls
  BY DEF ResultsFollowCalls
<1>1. PICK t \in 1..Len(turns) :
        /\ msgs[x].calls = {<<t, i>> : i \in 1..Len(turns[t])}
        /\ \A k \in 1..Len(turns[t]) : x + k \in 1..Len(msgs) /\ msgs[x + k].answers = {<<t, k>>}
  BY DEF Followed
<1>2. Len(turns[t]) \in Nat /\ x \in Nat /\ Len(msgs) \in Nat
  BY ElementOfSeq DEF Followed
<1>3. PICK i \in 1..Len(turns[t]) : ofX = <<t, i>>
  BY <1>1
<1>4. x + i \in 1..Len(msgs) /\ msgs[x + i].answers = {<<t, i>>}
  BY <1>1
<1>5. x + i \in (x + 1)..Len(msgs)
  BY <1>2, <1>4
<1>6. ASSUME NEW k \in (x + 1)..(x + i)
      PROVE  msgs[k].answers # {} /\ msgs[k].answers \subseteq msgs[x].calls
  <2>1. k - x \in 1..Len(turns[t]) /\ x + (k - x) = k
    BY <1>2
  <2>2. msgs[k].answers = {<<t, k - x>>}
    BY <1>1, <2>1
  <2> QED
    BY <1>1, <2>1, <2>2
<1> QED
  BY <1>3, <1>4, <1>5, <1>6

(* A request is empty, or one of the conversions of the history. *)
Paired ==
    profile # "openrouter" => sent \in {<<>>, History, AsUser(History)}

LEMMA PairedRequests == Streaming /\ Paired => RequestPaired
<1> SUFFICES ASSUME Streaming, Paired, profile # "openrouter" PROVE ResultsFollowCalls(sent)
  BY DEF RequestPaired
<1>1. ResultsFollowCalls(<<>>)
  BY DEF ResultsFollowCalls
<1>2. ResultsFollowCalls(History) /\ ResultsFollowCalls(AsUser(History))
  BY HistoryIs, FollowedAsUser, FollowedPaired DEF Streaming, StreamTypes
<1> QED
  BY <1>1, <1>2 DEF Paired

LEMMA PairedInit == StreamInit => Paired
  BY DEF StreamInit, Paired

LEMMA PairedStep == Paired /\ [StreamNext]_streamVars => Paired'
<1> SUFFICES ASSUME Paired, [StreamNext]_streamVars PROVE Paired'
  OBVIOUS
<1>1. ASSUME turns' = turns PROVE History' = History /\ AsUser(History)' = AsUser(History)
  BY <1>1 DEF History, Asked, Results, AsUser
<1>2. ASSUME UNCHANGED <<profile, turns, sent>> PROVE Paired'
  BY <1>1, <1>2 DEF Paired
<1>3. ASSUME sent' = <<>> PROVE Paired'
  BY <1>3 DEF Paired
<1>4. ASSUME NEW msgs, NEW next, Send(msgs, next),
             profile # "openrouter" => msgs \in {<<>>, History, AsUser(History)}
      PROVE  Paired'
  <2>1. sent' = msgs /\ profile' = profile /\ turns' = turns
    BY <1>4 DEF Send
  <2> QED
    BY <1>1, <1>4, <2>1 DEF Paired
<1>5. CASE OpenAIRequest
  <2>1. profile # "openrouter" => OpenAIMessages = History
    BY DEF OpenAIMessages
  <2> QED
    BY <1>4, <1>5, <2>1 DEF OpenAIRequest
<1>6. CASE DashScopeRequest
  BY <1>4, <1>6 DEF DashScopeRequest, DashScopeMessages
<1>7. CASE GoogleRequest
  BY <1>4, <1>7 DEF GoogleRequest, GoogleMessages
<1>8. CASE AnthropicRequest
  BY <1>4, <1>8 DEF AnthropicRequest, AnthropicMessages
<1>9. CASE StreamFails \/ ToolTurn \/ LastTurn \/ PromptAgain
  BY <1>3, <1>9 DEF StreamFails, ToolTurn, LastTurn, PromptAgain, Leave
<1>10. CASE Say \/ OpenAIChunk \/ DashScopeChunk \/ AnthropicCall \/ AnthropicArguments
            \/ AnthropicFinish \/ GoogleCall \/ GoogleFinish \/ EndOfStream
  BY <1>2, <1>10 DEF Say, OpenAIChunk, DashScopeChunk, OpenCall, MoreArguments, Fragment, Finish,
                     CloseOneCall, CloseCall, AnthropicCall, AnthropicArguments, AnthropicFinish,
                     GoogleCall, GoogleFinish, EndOfStream, Chunk
<1>11. CASE UNCHANGED streamVars
  BY <1>2, <1>11 DEF streamVars
<1> QED
  BY <1>5, <1>6, <1>7, <1>8, <1>9, <1>10, <1>11 DEF StreamNext
-------------------------------------------------------------------------------
(***************************************************************************)
(* The frames of a prompt.                                                 *)

Parts == [kind : {"text", "frame", "group"}, n : Nat, count : Nat]

FrameAt(parts, i) == i \in 1..Len(parts) /\ parts[i].kind = "frame"
RunAt(parts, i) == CHOOSE k \in 1..Len(parts) :
                      /\ \A j \in i..(i + k - 1) : FrameAt(parts, j)
                      /\ ~FrameAt(parts, i + k)
MarkedAt(parts, i) ==
    IF FrameAt(parts, i) /\ ~FrameAt(parts, i - 1) /\ RunAt(parts, i) > 1
    THEN <<[kind |-> "group", n |-> 0, count |-> RunAt(parts, i)], parts[i]>>
    ELSE <<parts[i]>>

LEMMA GroupedAre ==
    ASSUME NEW parts PROVE Grouped(parts) = FlattenSeq([i \in 1..Len(parts) |-> MarkedAt(parts, i)])
  BY DEF Grouped, FrameAt, RunAt, MarkedAt

(* A part stands alone, or it is the first frame of a run, after its marker. *)
LEMMA MarkedIs ==
    ASSUME NEW parts \in Seq(Parts), NEW i \in 1..Len(parts)
    PROVE  \/ /\ MarkedAt(parts, i) = <<parts[i]>>
              /\ FrameAt(parts, i) => FrameAt(parts, i - 1) \/ ~FrameAt(parts, i + 1)
           \/ \E r \in Nat :
                 /\ MarkedAt(parts, i) = <<[kind |-> "group", n |-> 0, count |-> r], parts[i]>>
                 /\ r > 1 /\ FrameAt(parts, i) /\ ~FrameAt(parts, i - 1)
                 /\ \A j \in i..(i + r - 1) : FrameAt(parts, j)
                 /\ ~FrameAt(parts, i + r)
<1> DEFINE n == Len(parts)
           r == RunAt(parts, i)
<1>1. n \in Nat /\ i \in Nat
  OBVIOUS
<1>2. CASE FrameAt(parts, i) /\ ~FrameAt(parts, i - 1)
  <2> DEFINE Others2 == {j \in i..(n + 1) : ~FrameAt(parts, j)}
  <2>1. n + 1 \in Others2
    BY <1>1 DEF FrameAt
  <2>2. PICK e \in Others2 : \A y \in Others2 : e <= y
    <3>1. Others2 \subseteq Nat
      BY <1>1
    <3> HIDE DEF Others2
    <3> QED
      BY <2>1, <3>1, Least
  <2>3. e \in i..(n + 1) /\ ~FrameAt(parts, e) /\ e # i
    BY <1>2, <2>2
  <2>4. e - i \in 1..n /\ i + (e - i) = e
    BY <1>1, <2>3
  <2>5. \A j \in i..(i + (e - i) - 1) : FrameAt(parts, j)
    <3> SUFFICES ASSUME NEW j \in i..(i + (e - i) - 1), ~FrameAt(parts, j) PROVE FALSE
      OBVIOUS
    <3>1. j \in i..(n + 1) /\ ~(e <= j)
      BY <1>1, <2>3
    <3> QED
      BY <2>2, <3>1
  <2>6. \E k \in 1..n : (\A j \in i..(i + k - 1) : FrameAt(parts, j)) /\ ~FrameAt(parts, i + k)
    BY <2>3, <2>4, <2>5
  <2>7. r \in 1..n /\ (\A j \in i..(i + r - 1) : FrameAt(parts, j)) /\ ~FrameAt(parts, i + r)
    BY <2>6 DEF RunAt
  <2> HIDE DEF r
  <2>8. CASE r > 1
    <3>1. MarkedAt(parts, i) = <<[kind |-> "group", n |-> 0, count |-> r], parts[i]>>
      BY <1>2, <2>8 DEF MarkedAt, r
    <3> QED
      BY <1>1, <1>2, <2>7, <2>8, <3>1
  <2>9. CASE ~(r > 1)
    <3>1. r = 1
      BY <1>1, <2>7, <2>9
    <3>2. MarkedAt(parts, i) = <<parts[i]>>
      BY <2>9 DEF MarkedAt, r
    <3> QED
      BY <2>7, <3>1, <3>2
  <2> QED
    BY <2>8, <2>9
<1>3. CASE ~(FrameAt(parts, i) /\ ~FrameAt(parts, i - 1))
  BY <1>3 DEF MarkedAt
<1> QED
  BY <1>2, <1>3

LEMMA NextNumber ==
    ASSUME NEW i \in Nat
    PROVE  Numbers(i) \in Seq(Nat) /\ Append(Numbers(i), i + 1) = Numbers(i + 1)
<1>1. Numbers(i) \in [1..i -> Nat] /\ Numbers(i + 1) \in [1..(i + 1) -> Nat]
  BY DEF Numbers
<1>2. Numbers(i) \in Seq(Nat) /\ Len(Numbers(i)) = i
  BY <1>1, SeqDef
<1>3. Numbers(i + 1) \in Seq(Nat) /\ Len(Numbers(i + 1)) = i + 1
  BY <1>1, SeqDef
<1> DEFINE s == Append(Numbers(i), i + 1)
<1>4. s \in Seq(Nat) /\ Len(s) = i + 1
  BY <1>2
<1>5. \A j \in 1..(i + 1) : s[j] = IF j = i + 1 THEN i + 1 ELSE Numbers(i)[j]
  BY <1>2
<1>6. \A j \in 1..(i + 1) : s[j] = j /\ Numbers(i + 1)[j] = j
  BY <1>5 DEF Numbers
<1> HIDE DEF s
<1>7. s = Numbers(i + 1)
  BY <1>3, <1>4, <1>6
<1> QED
  BY <1>2, <1>7 DEF s

(* What is sent and how much of a group is left, after each part. *)
LEMMA ArrayPartsAre ==
    ASSUME NEW parts \in Seq(Parts)
    PROVE  \E after :
              /\ after[0] = [sent |-> <<>>, rest |-> 0]
              /\ \A i \in 1..Len(parts) : after[i] = Taken(after[i - 1], parts[i])
              /\ ArrayParts(parts) = after[Len(parts)].sent
<1> DEFINE n == Len(parts)
           F(f, m) == f = [i \in 0..m |-> IF i = 0 THEN [sent |-> <<>>, rest |-> 0]
                                           ELSE Taken(f[i - 1], parts[i])]
           B == {m \in Nat : ~ \E f : F(f, m)}
           after == CHOOSE f : F(f, n)
<1>1. B = {}
  <2> SUFFICES ASSUME B # {} PROVE FALSE
    OBVIOUS
  <2>1. PICK m \in B : \A y \in B : m <= y
    BY Least, B \subseteq Nat
  <2>2. m # 0
    <3> DEFINE f == [i \in 0..0 |-> [sent |-> <<>>, rest |-> 0]]
    <3>1. F(f, 0)
      OBVIOUS
    <3> QED
      BY <2>1, <3>1
  <2>3. m - 1 \in Nat /\ ~(m <= m - 1)
    BY <2>1, <2>2
  <2>4. PICK f : F(f, m - 1)
    BY <2>1, <2>3
  <2> DEFINE g == [i \in 0..m |-> IF i = m THEN Taken(f[m - 1], parts[m]) ELSE f[i]]
  <2>5. \A i \in 0..m : i # m => g[i] = f[i] /\ i \in 0..(m - 1) /\ (i # 0 => g[i - 1] = f[i - 1])
    BY <2>1, <2>3
  <2>6. g[m] = Taken(f[m - 1], parts[m]) /\ g[m - 1] = f[m - 1]
    BY <2>1, <2>3
  <2>7. \A i \in 0..m : g[i] = IF i = 0 THEN [sent |-> <<>>, rest |-> 0] ELSE Taken(g[i - 1], parts[i])
    <3> SUFFICES ASSUME NEW i \in 0..m
                 PROVE  g[i] = IF i = 0 THEN [sent |-> <<>>, rest |-> 0] ELSE Taken(g[i - 1], parts[i])
      OBVIOUS
    <3>1. CASE i = m
      BY <2>2, <2>6, <3>1
    <3>2. CASE i # m
      <4>1. f[i] = IF i = 0 THEN [sent |-> <<>>, rest |-> 0] ELSE Taken(f[i - 1], parts[i])
        BY <2>4, <2>5, <3>2
      <4>2. CASE i = 0
        BY <2>5, <3>2, <4>1, <4>2
      <4>3. CASE i # 0
        BY <2>5, <3>2, <4>1, <4>3
      <4> QED
        BY <4>2, <4>3
    <3> QED
      BY <3>1, <3>2
  <2>8. F(g, m)
    <3>1. g = [i \in 0..m |-> g[i]]
      OBVIOUS
    <3> HIDE DEF g
    <3> QED
      BY <2>7, <3>1
  <2> HIDE DEF g, F
  <2> QED
    BY <2>1, <2>8
<1>2. F(after, n)
  <2>1. n \in Nat
    OBVIOUS
  <2> HIDE DEF F
  <2> QED
    BY <1>1, <2>1
<1>3. ArrayParts(parts) = after[n].sent
  BY DEF ArrayParts
<1> HIDE DEF after
<1>4. n \in Nat
  OBVIOUS
<1>5. after[0] = [sent |-> <<>>, rest |-> 0]
  BY <1>2, <1>4
<1>6. \A i \in 1..n : after[i] = Taken(after[i - 1], parts[i])
  BY <1>2, <1>4
<1> QED
  BY <1>3, <1>5, <1>6

(* The parts of a prompt as the converters see them, none of them grouped. *)
LEMMA ContentsAre ==
    ASSUME NEW parts \in Contents
    PROVE  /\ parts \in Seq(Parts)
           /\ \A i \in 1..Len(parts) : parts[i].n = i /\ parts[i].kind \in {"text", "frame"}
           /\ ImageParts(parts) = Numbers(Len(parts))
<1>1. PICK kinds \in SeqOf({"text", "frame"}, MaxParts) :
        parts = [i \in 1..Len(kinds) |-> [kind |-> kinds[i], n |-> i, count |-> 0]]
  BY DEF Contents
<1>2. PICK m \in 0..MaxParts : kinds \in [1..m -> {"text", "frame"}]
  BY DEF SeqOf
<1>3. m \in Nat /\ Len(kinds) = m
  BY <1>2
<1>4. parts = [i \in 1..m |-> [kind |-> kinds[i], n |-> i, count |-> 0]]
  BY <1>1, <1>3
<1>5. \A i \in 1..m : parts[i] \in Parts /\ parts[i].n = i /\ parts[i].kind \in {"text", "frame"}
  <2> SUFFICES ASSUME NEW i \in 1..m
               PROVE  parts[i] \in Parts /\ parts[i].n = i /\ parts[i].kind \in {"text", "frame"}
    OBVIOUS
  <2>1. parts[i] = [kind |-> kinds[i], n |-> i, count |-> 0] /\ i \in Nat
    BY <1>3, <1>4
  <2>2. kinds[i] \in {"text", "frame"}
    BY <1>2
  <2> QED
    BY <2>1, <2>2 DEF Parts
<1>6. parts = [i \in 1..m |-> parts[i]]
  BY <1>4
<1>7. parts \in [1..m -> Parts]
  BY <1>5, <1>6
<1>8. parts \in Seq(Parts) /\ Len(parts) = m
  BY <1>3, <1>7, SeqDef
<1>9. ImageParts(parts) = Numbers(m)
  BY <1>5, <1>8 DEF ImageParts, Numbers
<1> QED
  BY <1>5, <1>8, <1>9

(* Parts without groups are sent one by one. *)
LEMMA SentSingly ==
    ASSUME NEW parts \in Contents PROVE ArrayParts(parts) = ImageParts(parts)
<1> DEFINE n == Len(parts)
<1>1. /\ parts \in Seq(Parts) /\ n \in Nat /\ ImageParts(parts) = Numbers(n)
      /\ \A i \in 1..n : parts[i].n = i /\ parts[i].kind \in {"text", "frame"}
  BY ContentsAre
<1>2. PICK after :
        /\ after[0] = [sent |-> <<>>, rest |-> 0]
        /\ \A i \in 1..n : after[i] = Taken(after[i - 1], parts[i])
        /\ ArrayParts(parts) = after[n].sent
  BY <1>1, ArrayPartsAre
<1> HIDE DEF n
<1> DEFINE I(i) == after[i] = [sent |-> Numbers(i), rest |-> 0]
           B == {i \in 0..n : ~I(i)}
<1>3. I(0)
  <2>1. Numbers(0) = <<>>
    BY DEF Numbers
  <2> QED
    BY <1>2, <2>1
<1>4. ASSUME NEW i \in 1..n, I(i - 1) PROVE I(i)
  <2>1. i - 1 \in Nat /\ (i - 1) + 1 = i
    BY <1>1
  <2>2. after[i] = [sent |-> Append(Numbers(i - 1), i), rest |-> 0]
    <3>1. parts[i].n = i /\ parts[i].kind # "group"
      BY <1>1
    <3>2. after[i - 1].rest = 0 /\ after[i - 1].sent = Numbers(i - 1)
      BY <1>4
    <3>3. ~(after[i - 1].rest > 0)
      BY <3>2
    <3>4. after[i] = Taken(after[i - 1], parts[i])
      BY <1>2
    <3> QED
      BY <3>1, <3>2, <3>3, <3>4 DEF Taken
  <2>3. Append(Numbers(i - 1), i) = Numbers(i)
    BY <2>1, NextNumber
  <2> QED
    BY <2>2, <2>3
<1>5. B = {}
  <2> SUFFICES ASSUME B # {} PROVE FALSE
    OBVIOUS
  <2> HIDE DEF I
  <2>1. PICK i \in B : \A y \in B : i <= y
    BY <1>1, Least, B \subseteq Nat
  <2>2. i \in 0..n /\ ~I(i) /\ i # 0
    BY <1>3, <2>1
  <2>3. i \in 1..n /\ i - 1 \in 0..n /\ ~(i <= i - 1)
    BY <1>1, <2>2
  <2>4. I(i - 1)
    BY <2>1, <2>3
  <2> QED
    BY <1>4, <2>2, <2>3, <2>4
<1>6. I(n)
  <2> HIDE DEF I
  <2>1. n \in 0..n
    BY <1>1
  <2> QED
    BY <1>5, <2>1
<1> QED
  BY <1>1, <1>2, <1>6

(* Where the parts of a prompt are after grouping: part i ends its block,  *)
(* and only a marker can stand before it.                                  *)
LaidOut(parts, grouped, at) ==
    /\ at[1] = 0 /\ grouped \in Seq(Parts) /\ Len(grouped) = at[Len(parts) + 1]
    /\ \A x \in 1..Len(grouped) :
          \E i \in 1..Len(parts) : x = at[i + 1] \/ (at[i + 1] = at[i] + 2 /\ x = at[i] + 1)
    /\ \A i \in 1..Len(parts) :
          /\ at[i + 1] \in {at[i] + 1, at[i] + 2} /\ at[i + 1] \in 1..at[Len(parts) + 1]
          /\ grouped[at[i + 1]] = parts[i]
          /\ at[i + 1] = at[i] + 1 =>
                (FrameAt(parts, i) => FrameAt(parts, i - 1) \/ ~FrameAt(parts, i + 1))
          /\ at[i + 1] = at[i] + 2 =>
                \E r \in Nat :
                   /\ grouped[at[i] + 1] = [kind |-> "group", n |-> 0, count |-> r]
                   /\ r > 1 /\ FrameAt(parts, i) /\ ~FrameAt(parts, i - 1)
                   /\ \A j \in i..(i + r - 1) : FrameAt(parts, j)
                   /\ ~FrameAt(parts, i + r)

LEMMA BlocksAre ==
    ASSUME NEW parts \in Contents, Len(parts) # 0
    PROVE  \E at \in [1..(Len(parts) + 1) -> Nat] : LaidOut(parts, Grouped(parts), at)
<1> DEFINE n == Len(parts)
           ss == [i \in 1..n |-> MarkedAt(parts, i)]
           G == FlattenSeq(ss)
           Marker(r) == [kind |-> "group", n |-> 0, count |-> r]
<1>1. parts \in Seq(Parts) /\ n \in Nat \ {0} /\ \A i \in 1..n : parts[i] \in Parts
  BY ContentsAre, ElementOfSeq
<1>2. \A r \in Nat : Marker(r) \in Parts
  BY DEF Parts
<1>3. ASSUME NEW i \in 1..n
      PROVE  /\ ss[i] \in Seq(Parts) /\ Len(ss[i]) \in {1, 2} /\ ss[i][Len(ss[i])] = parts[i]
             /\ Len(ss[i]) = 1 => (FrameAt(parts, i) => FrameAt(parts, i - 1) \/ ~FrameAt(parts, i + 1))
             /\ Len(ss[i]) = 2 => \E r \in Nat :
                   /\ ss[i][1] = Marker(r)
                   /\ r > 1 /\ FrameAt(parts, i) /\ ~FrameAt(parts, i - 1)
                   /\ \A j \in i..(i + r - 1) : FrameAt(parts, j)
                   /\ ~FrameAt(parts, i + r)
  <2> HIDE DEF Marker
  <2>1. ss[i] = MarkedAt(parts, i)
    OBVIOUS
  <2>2. parts[i] \in Parts
    BY <1>1
  <2> HIDE DEF ss
  <2>3. CASE /\ MarkedAt(parts, i) = <<parts[i]>>
             /\ FrameAt(parts, i) => FrameAt(parts, i - 1) \/ ~FrameAt(parts, i + 1)
    BY <2>1, <2>2, <2>3
  <2>4. ASSUME NEW r \in Nat,
               /\ MarkedAt(parts, i) = <<Marker(r), parts[i]>>
               /\ r > 1 /\ FrameAt(parts, i) /\ ~FrameAt(parts, i - 1)
               /\ \A j \in i..(i + r - 1) : FrameAt(parts, j)
               /\ ~FrameAt(parts, i + r)
        PROVE  <1>3!2
    <3>1. /\ ss[i] \in Seq(Parts) /\ Len(ss[i]) = 2 /\ ss[i][2] = parts[i] /\ ss[i][1] = Marker(r)
      BY <1>2, <2>1, <2>2, <2>4
    <3> QED
      BY <2>4, <3>1
  <2> QED
    BY <1>1, <2>3, <2>4, MarkedIs DEF Marker
<1>4. Grouped(parts) = G
  BY GroupedAre
<1>5. ss \in [1..n -> Seq(Parts)]
  BY <1>3
<1> HIDE DEF ss, n, G, Marker
<1>6. PICK at \in [1..(n + 1) -> Nat] :
              /\ at[1] = 0 /\ \A i \in 1..n : at[i + 1] = at[i] + Len(ss[i])
              /\ G \in Seq(Parts) /\ Len(G) = at[n + 1]
              /\ \A i \in 1..n : \A k \in 1..Len(ss[i]) : G[at[i] + k] = ss[i][k]
              /\ \A x \in 1..at[n + 1] : \E i \in 1..n : x - at[i] \in 1..Len(ss[i])
  <2>1. n \in Nat \ {0}
    BY <1>1
  <2> QED
    BY <1>5, <2>1, FlattenIs DEF G
<1>7. ASSUME NEW i \in 1..n
      PROVE  /\ i \in Nat /\ at[i] \in Nat /\ at[i + 1] \in Nat /\ at[n + 1] \in Nat
             /\ at[i + 1] = at[i] + Len(ss[i]) /\ Len(ss[i]) \in {1, 2}
  <2>1. i \in Nat /\ i \in 1..(n + 1) /\ i + 1 \in 1..(n + 1) /\ n + 1 \in 1..(n + 1)
    BY <1>1
  <2> QED
    BY <1>3, <1>6, <2>1
<1>8. ASSUME NEW i \in 1..n PROVE at[i + 1] <= at[n + 1]
  <2> DEFINE Above == {j \in i..n : at[i + 1] > at[j + 1]}
  <2>1. Above = {}
    <3> SUFFICES ASSUME Above # {} PROVE FALSE
      OBVIOUS
    <3>1. PICK j \in Above : \A y \in Above : j <= y
      <4>1. Above \subseteq Nat
        BY <1>7
      <4> HIDE DEF Above
      <4> QED
        BY <4>1, Least
    <3>2. j \in i..n /\ j \in 1..n /\ i \in Nat /\ j \in Nat /\ n \in Nat
      BY <1>1, <1>7, <3>1
    <3>3. j # i
      BY <1>7, <3>1
    <3>4. j - 1 \in i..n /\ ~(j <= j - 1) /\ (j - 1) + 1 = j
      BY <3>2, <3>3
    <3>5. j - 1 \notin Above
      BY <3>1, <3>4
    <3>6. at[i + 1] > at[j + 1] /\ ~(at[i + 1] > at[j])
      BY <3>1, <3>4, <3>5
    <3>7. at[i + 1] \in Nat
      BY <1>7
    <3>8. at[j] \in Nat /\ Len(ss[j]) \in {1, 2} /\ at[j + 1] = at[j] + Len(ss[j])
      BY <1>7, <3>2
    <3> QED
      BY <3>6, <3>7, <3>8
  <2>2. n \in i..n
    BY <1>1, <1>7
  <2>3. ~(at[i + 1] > at[n + 1]) /\ at[i + 1] \in Nat /\ at[n + 1] \in Nat
    BY <1>7, <2>1, <2>2
  <2> QED
    BY <2>3
<1>9. ASSUME NEW i \in 1..n
      PROVE  /\ at[i + 1] \in {at[i] + 1, at[i] + 2} /\ at[i + 1] \in 1..at[n + 1]
             /\ G[at[i + 1]] = parts[i]
             /\ at[i + 1] = at[i] + 1 =>
                   (FrameAt(parts, i) => FrameAt(parts, i - 1) \/ ~FrameAt(parts, i + 1))
             /\ at[i + 1] = at[i] + 2 =>
                   \E r \in Nat :
                      /\ G[at[i] + 1] = Marker(r)
                      /\ r > 1 /\ FrameAt(parts, i) /\ ~FrameAt(parts, i - 1)
                      /\ \A j \in i..(i + r - 1) : FrameAt(parts, j)
                      /\ ~FrameAt(parts, i + r)
  <2> DEFINE m == Len(ss[i])
  <2>1. m \in {1, 2} /\ at[i + 1] = at[i] + m /\ at[i] \in Nat /\ at[i + 1] \in Nat /\ at[n + 1] \in Nat
    BY <1>7
  <2>2. at[i + 1] <= at[n + 1]
    BY <1>8
  <2>3. \A k \in 1..m : G[at[i] + k] = ss[i][k]
    BY <1>6
  <2>5. ss[i][m] = parts[i]
    BY <1>3
  <2> HIDE DEF m
  <2>4. m \in 1..m /\ 1 \in 1..m
    BY <2>1
  <2>6. at[i + 1] \in {at[i] + 1, at[i] + 2} /\ at[i + 1] \in 1..at[n + 1]
    BY <2>1, <2>2
  <2>7. G[at[i + 1]] = parts[i]
    BY <2>1, <2>3, <2>4, <2>5
  <2>8. (at[i + 1] = at[i] + 1 => m = 1) /\ (at[i + 1] = at[i] + 2 => m = 2)
    <3>1. at[i + 1] = at[i] + m /\ at[i] \in Nat /\ m \in Nat
      BY <2>1
    <3> QED
      BY <3>1
  <2>9. G[at[i] + 1] = ss[i][1]
    BY <2>3, <2>4
  <2>10. m = 1 => (FrameAt(parts, i) => FrameAt(parts, i - 1) \/ ~FrameAt(parts, i + 1))
    BY <1>3 DEF m
  <2>11. m = 2 => \E r \in Nat :
                   /\ ss[i][1] = Marker(r)
                   /\ r > 1 /\ FrameAt(parts, i) /\ ~FrameAt(parts, i - 1)
                   /\ \A j \in i..(i + r - 1) : FrameAt(parts, j)
                   /\ ~FrameAt(parts, i + r)
    BY <1>3 DEF m
  <2> QED
    BY <2>6, <2>7, <2>8, <2>9, <2>10, <2>11
<1>10. ASSUME NEW x \in 1..Len(G)
       PROVE  \E i \in 1..n : x = at[i + 1] \/ (at[i + 1] = at[i] + 2 /\ x = at[i] + 1)
  <2>1. x \in 1..at[n + 1] /\ x \in Nat
    BY <1>6
  <2>2. PICK i \in 1..n : x - at[i] \in 1..Len(ss[i])
    BY <1>6, <2>1
  <2>3. at[i + 1] = at[i] + Len(ss[i]) /\ Len(ss[i]) \in {1, 2} /\ at[i] \in Nat
    BY <1>7
  <2> DEFINE a == at[i]
             m == Len(ss[i])
  <2>5. x \in Nat /\ a \in Nat /\ m \in {1, 2} /\ x - a \in 1..m /\ at[i + 1] = a + m
    BY <2>1, <2>2, <2>3
  <2> HIDE DEF a, m
  <2>6. x = a + m \/ (m = 2 /\ x = a + 1)
    BY <2>5
  <2>4. x = at[i + 1] \/ (at[i + 1] = at[i] + 2 /\ x = at[i] + 1)
    BY <2>5, <2>6 DEF a
  <2> QED
    BY <2>4
<1>11. LaidOut(parts, G, at)
  BY <1>6, <1>9, <1>10 DEF n, Marker, LaidOut
<1> QED
  BY <1>4, <1>11 DEF n

(* Images that have data are those of the parts. *)
LEMMA ImagesAre ==
    ASSUME NEW g \in Seq(Parts), NEW m \in Nat, NEW e \in [1..m -> Nat],
           \A j, k \in 1..m : j < k => e[j] < e[k],
           {x \in DOMAIN g : g[x].n # 0} = {e[k] : k \in 1..m},
           \A k \in 1..m : e[k] \in 1..Len(g) /\ g[e[k]].n = k
    PROVE  NoMarker(g) = Numbers(m)
<1>1. Ascending({e[k] : k \in 1..m}) = e
  BY AscendingOf
<1> DEFINE s == ImageParts(g)
<1>2. \A x \in 1..Len(g) : s[x] = g[x].n
  BY DEF ImageParts
<1> HIDE DEF s
<1>3. Those(s, {e[k] : k \in 1..m}) = [k \in 1..m |-> s[e[k]]]
  BY <1>1 DEF Those
<1>4. [k \in 1..m |-> s[e[k]]] = Numbers(m)
  BY <1>2 DEF Numbers
<1> QED
  BY <1>3, <1>4 DEF NoMarker, s

LEMMA ImagesOfParts == ASSUME NEW parts \in Contents PROVE NoMarker(parts) = ImageParts(parts)
<1> DEFINE n == Len(parts)
           e == [k \in 1..n |-> k]
<1>1. /\ parts \in Seq(Parts) /\ n \in Nat /\ ImageParts(parts) = Numbers(n)
      /\ \A i \in 1..n : parts[i].n = i
  BY ContentsAre
<1>2. DOMAIN parts = 1..n
  BY <1>1
<1> HIDE DEF n
<1>3. e \in [1..n -> Nat] /\ \A j, k \in 1..n : j < k => e[j] < e[k]
  BY <1>1
<1>4. {x \in DOMAIN parts : parts[x].n # 0} = 1..n
  BY <1>1, <1>2
<1>5. {e[k] : k \in 1..n} = 1..n
  OBVIOUS
<1>6. \A k \in 1..n : e[k] \in 1..n /\ parts[e[k]].n = k
  BY <1>1
<1> HIDE DEF e
<1>7. {x \in DOMAIN parts : parts[x].n # 0} = {e[k] : k \in 1..n}
  BY <1>4, <1>5
<1>8. \A k \in 1..n : e[k] \in 1..Len(parts) /\ parts[e[k]].n = k
  BY <1>6 DEF n
<1> QED
  BY <1>1, <1>3, <1>7, <1>8, ImagesAre

LEMMA ImagesOfGrouped ==
    ASSUME NEW parts \in Contents, Len(parts) # 0
    PROVE  NoMarker(Grouped(parts)) = ImageParts(parts)
<1> DEFINE n == Len(parts)
           G == Grouped(parts)
<1>1. /\ parts \in Seq(Parts) /\ n \in Nat \ {0} /\ ImageParts(parts) = Numbers(n)
      /\ \A i \in 1..n : parts[i].n = i
  BY ContentsAre
<1>2. PICK at \in [1..(n + 1) -> Nat] : LaidOut(parts, G, at)
  BY BlocksAre
<1> DEFINE e == [k \in 1..n |-> at[k + 1]]
<1>3. /\ at[1] = 0 /\ G \in Seq(Parts) /\ Len(G) = at[n + 1]
      /\ \A x \in 1..Len(G) :
            \E i \in 1..n : x = at[i + 1] \/ (at[i + 1] = at[i] + 2 /\ x = at[i] + 1)
  BY <1>2 DEF LaidOut
<1>4. ASSUME NEW i \in 1..n
      PROVE  /\ at[i] \in Nat /\ at[i + 1] \in Nat /\ at[i] < at[i + 1]
             /\ at[i + 1] \in 1..Len(G) /\ G[at[i + 1]] = parts[i]
             /\ at[i + 1] = at[i] + 2 => G[at[i] + 1].n = 0
  <2>1. i \in 1..(n + 1) /\ i + 1 \in 1..(n + 1)
    BY <1>1
  <2>2. at[i + 1] \in {at[i] + 1, at[i] + 2} /\ at[i + 1] \in 1..at[n + 1] /\ G[at[i + 1]] = parts[i]
    BY <1>2 DEF LaidOut
  <2>4. ASSUME at[i + 1] = at[i] + 2 PROVE G[at[i] + 1].n = 0
    <3>1. PICK r \in Nat : G[at[i] + 1] = [kind |-> "group", n |-> 0, count |-> r]
      BY <1>2, <2>4, SMTT(40) DEF LaidOut
    <3> HIDE DEF G
    <3> QED
      BY <3>1
  <2>5. at[i] \in Nat /\ at[i + 1] \in Nat
    BY <2>1
  <2> QED
    BY <1>3, <2>2, <2>4, <2>5
<1> HIDE DEF n, G
<1>5. e \in [1..n -> Nat] /\ \A k \in 1..n : e[k] = at[k + 1]
  BY <1>4
<1> HIDE DEF e
<1>6. \A j, k \in 1..n : j < k => e[j] < e[k]
  <2> SUFFICES ASSUME NEW j \in 1..n, {k \in 1..n : j < k /\ ~(e[j] < e[k])} # {} PROVE FALSE
    OBVIOUS
  <2> DEFINE B == {k \in 1..n : j < k /\ ~(e[j] < e[k])}
  <2>1. PICK k \in B : \A y \in B : k <= y
    BY Least, B \subseteq Nat
  <2>2. k \in 1..n /\ j < k /\ ~(e[j] < e[k]) /\ k \in Nat /\ j \in Nat /\ n \in Nat
    BY <1>1, <2>1
  <2>3. k - 1 \in 1..n /\ ~(k <= k - 1) /\ (k - 1) + 1 = k /\ (j = k - 1 \/ j < k - 1)
    BY <2>2
  <2>4. k - 1 \notin B
    BY <2>1, <2>3
  <2>5. e[k - 1] = at[k] /\ e[k] = at[k + 1]
    BY <1>5, <2>2, <2>3
  <2>6. at[k] < at[k + 1]
    BY <1>4, <2>2
  <2>7. j = k - 1 \/ e[j] < e[k - 1]
    BY <2>3, <2>4
  <2>8. e[j] \in Nat /\ e[k - 1] \in Nat /\ e[k] \in Nat
    BY <1>5, <2>2, <2>3
  <2> QED
    <3>1. e[k - 1] < e[k]
      BY <2>5, <2>6
    <3>2. e[j] < e[k]
      <4>1. CASE j = k - 1
        BY <3>1, <4>1
      <4>2. CASE e[j] < e[k - 1]
        BY <2>8, <3>1, <4>2
      <4> QED
        BY <2>7, <4>1, <4>2
    <3> QED
      BY <2>2, <3>2
<1>7. \A k \in 1..n : e[k] \in 1..Len(G) /\ G[e[k]].n = k
  BY <1>1, <1>4, <1>5
<1>8. {x \in DOMAIN G : G[x].n # 0} = {e[k] : k \in 1..n}
  <2>1. DOMAIN G = 1..Len(G)
    BY <1>3
  <2>2. ASSUME NEW x \in 1..Len(G), G[x].n # 0 PROVE \E k \in 1..n : x = e[k]
    <3>1. PICK i \in 1..n : x = at[i + 1] \/ (at[i + 1] = at[i] + 2 /\ x = at[i] + 1)
      BY <1>3
    <3>2. x = at[i + 1]
      BY <1>4, <2>2, <3>1
    <3> QED
      BY <1>5, <3>2
  <2>3. \A k \in 1..n : k # 0
    BY <1>1
  <2> QED
    BY <1>7, <2>1, <2>2, <2>3
<1>9. n \in Nat
  BY <1>1
<1>10. NoMarker(G) = Numbers(n)
  BY <1>3, <1>5, <1>6, <1>7, <1>8, <1>9, ImagesAre
<1> QED
  BY <1>1, <1>10 DEF G

(* The arrays of frames are the frames: after part i all up to it are      *)
(* sent, and what is left of a group are the frames that follow it.        *)
LEMMA SentInGroups ==
    ASSUME NEW parts \in Contents, Len(parts) # 0
    PROVE  ArrayParts(Grouped(parts)) = ImageParts(parts)
<1> DEFINE n == Len(parts)
           G == Grouped(parts)
           Frame(i) == FrameAt(parts, i)
<1>1. /\ parts \in Seq(Parts) /\ n \in Nat \ {0} /\ ImageParts(parts) = Numbers(n)
      /\ \A i \in 1..n : parts[i].n = i /\ parts[i].kind # "group"
  BY ContentsAre
<1>2. PICK at \in [1..(n + 1) -> Nat] : LaidOut(parts, G, at)
  BY BlocksAre
<1>3. at[1] = 0 /\ G \in Seq(Parts) /\ Len(G) = at[n + 1]
  BY <1>2 DEF LaidOut
<1>4. PICK after :
        /\ after[0] = [sent |-> <<>>, rest |-> 0]
        /\ \A x \in 1..Len(G) : after[x] = Taken(after[x - 1], G[x])
        /\ ArrayParts(G) = after[Len(G)].sent
  BY <1>3, ArrayPartsAre
<1> DEFINE Left(i, rest) ==
              /\ after[at[i + 1]] = [sent |-> Numbers(i), rest |-> rest]
              /\ rest = 0 => (Frame(i) => ~Frame(i + 1))
              /\ rest > 0 => /\ Frame(i) /\ ~Frame(i + rest + 1)
                             /\ \A j \in (i + 1)..(i + rest) : Frame(j)
           I(i) == \E rest \in Nat : Left(i, rest)
           B == {i \in 0..n : ~I(i)}
<1>5. ~Frame(0) /\ \A i \in 1..n : ~Frame(i) \/ Frame(i)
  BY DEF FrameAt
<1>6. I(0)
  <2>1. Numbers(0) = <<>>
    BY DEF Numbers
  <2> HIDE DEF Frame
  <2> QED
    BY <1>3, <1>4, <1>5, <2>1
<1>7. ASSUME NEW i \in 1..n, I(i - 1) PROVE I(i)
  <2>1. /\ i \in Nat /\ i - 1 \in Nat /\ (i - 1) + 1 = i
        /\ i \in 1..(n + 1) /\ i + 1 \in 1..(n + 1)
    BY <1>1
  <2>2. PICK rest \in Nat :
           /\ after[at[i]] = [sent |-> Numbers(i - 1), rest |-> rest]
           /\ rest = 0 => (Frame(i - 1) => ~Frame(i))
           /\ rest > 0 => /\ Frame(i - 1) /\ ~Frame(i + rest)
                          /\ \A j \in i..(i - 1 + rest) : Frame(j)
    <3>1. PICK rest \in Nat : Left(i - 1, rest)
      BY <1>7
    <3> HIDE DEF Frame
    <3>2. after[at[i]] = [sent |-> Numbers(i - 1), rest |-> rest]
      BY <2>1, <3>1
    <3>3. rest = 0 => (Frame(i - 1) => ~Frame(i))
      BY <2>1, <3>1
    <3>4. rest > 0 => /\ Frame(i - 1) /\ ~Frame(i - 1 + rest + 1)
                      /\ \A j \in (i - 1 + 1)..(i - 1 + rest) : Frame(j)
      BY <3>1
    <3>5. i - 1 + rest + 1 = i + rest
      BY <2>1
    <3> QED
      BY <2>1, <3>2, <3>3, <3>4, <3>5
  <2>3. Append(Numbers(i - 1), i) = Numbers(i)
    BY <2>1, NextNumber
  <2>4. /\ at[i] \in Nat /\ at[i + 1] \in Nat /\ at[i + 1] \in 1..Len(G)
        /\ at[i + 1] \in {at[i] + 1, at[i] + 2}
        /\ G[at[i + 1]] = parts[i] /\ parts[i].n = i /\ parts[i].kind # "group"
    BY <1>1, <1>2, <1>3, <2>1 DEF LaidOut
  <2>5. CASE at[i + 1] = at[i] + 1
    <3>1. Frame(i) => Frame(i - 1) \/ ~Frame(i + 1)
      BY <1>2, <2>5 DEF LaidOut
    <3>2. after[at[i + 1]] = Taken(after[at[i]], parts[i])
      <4>1. at[i + 1] - 1 = at[i]
        BY <2>4, <2>5
      <4> QED
        BY <1>4, <2>4, <4>1
    <3> HIDE DEF Frame
    <3>3. CASE rest = 0
      <4>1. after[at[i + 1]] = [sent |-> Numbers(i), rest |-> 0]
        <5>1. after[at[i]].rest = 0 /\ after[at[i]].sent = Numbers(i - 1) /\ ~(0 > 0)
          BY <2>2, <3>3
        <5> QED
          BY <2>3, <2>4, <3>2, <5>1 DEF Taken
      <4>2. Frame(i) => ~Frame(i + 1)
        BY <2>2, <3>1, <3>3
      <4>3. Left(i, 0)
        BY <4>1, <4>2
      <4> HIDE DEF Left
      <4> QED
        BY <4>3
    <3>4. CASE rest > 0
      <4>1. after[at[i + 1]] = [sent |-> Numbers(i), rest |-> rest - 1]
        <5>1. after[at[i]].rest = rest /\ after[at[i]].sent = Numbers(i - 1)
          BY <2>2
        <5> QED
          BY <2>3, <2>4, <3>2, <3>4, <5>1 DEF Taken
      <4>2. i \in i..(i - 1 + rest) /\ rest - 1 \in Nat /\ i + (rest - 1) + 1 = i + rest
        BY <2>1, <3>4
      <4>3. Frame(i) /\ ~Frame(i + rest)
        BY <2>2, <3>4, <4>2
      <4>4. \A j \in (i + 1)..(i + (rest - 1)) : j \in i..(i - 1 + rest)
        BY <2>1, <3>4
      <4>5. \A j \in (i + 1)..(i + (rest - 1)) : Frame(j)
        BY <2>2, <3>4, <4>4
      <4>6. rest - 1 = 0 => i + rest = i + 1
        BY <2>1
      <4>7. Left(i, rest - 1)
        BY <4>1, <4>2, <4>3, <4>5, <4>6
      <4> HIDE DEF Left
      <4> QED
        BY <4>2, <4>7
    <3>5. rest = 0 \/ rest > 0
      OBVIOUS
    <3> HIDE DEF I
    <3> QED
      BY <3>3, <3>4, <3>5
  <2>6. CASE at[i + 1] = at[i] + 2
    <3>1. PICK r \in Nat :
             /\ G[at[i] + 1] = [kind |-> "group", n |-> 0, count |-> r]
             /\ r > 1 /\ Frame(i) /\ ~Frame(i - 1)
             /\ \A j \in i..(i + r - 1) : Frame(j)
             /\ ~Frame(i + r)
      BY <1>2, <2>6 DEF LaidOut
    <3> HIDE DEF Frame
    <3>2. rest = 0
      BY <2>2, <3>1
    <3>3. /\ after[at[i] + 1] = Taken(after[at[i]], G[at[i] + 1])
          /\ after[at[i + 1]] = Taken(after[at[i] + 1], parts[i])
      <4>1. at[i] + 1 \in 1..Len(G) /\ (at[i] + 1) - 1 = at[i] /\ at[i + 1] - 1 = at[i] + 1
        <5>1. Len(G) \in Nat
          BY <1>3
        <5> QED
          BY <2>4, <2>6, <5>1
      <4> QED
        BY <1>4, <2>4, <4>1
    <3>4. after[at[i] + 1] = [sent |-> Numbers(i - 1), rest |-> r]
      BY <2>2, <3>1, <3>2, <3>3 DEF Taken
    <3>5. after[at[i + 1]] = [sent |-> Numbers(i), rest |-> r - 1]
      <4>1. after[at[i] + 1].rest = r /\ after[at[i] + 1].sent = Numbers(i - 1) /\ r > 0
        BY <3>1, <3>4
      <4> QED
        BY <2>3, <2>4, <3>3, <4>1 DEF Taken
    <3>6. r - 1 \in Nat /\ r - 1 > 0 /\ i + (r - 1) + 1 = i + r
      BY <2>1, <3>1
    <3>7. \A j \in (i + 1)..(i + (r - 1)) : j \in i..(i + r - 1)
      BY <2>1
    <3>8. Left(i, r - 1)
      BY <3>1, <3>5, <3>6, <3>7
    <3> HIDE DEF Left
    <3> QED
      BY <3>6, <3>8
  <2> QED
    BY <2>4, <2>5, <2>6
<1> HIDE DEF I, Left, G
<1>8. B = {}
  <2> SUFFICES ASSUME B # {} PROVE FALSE
    OBVIOUS
  <2>1. PICK i \in B : \A y \in B : i <= y
    BY <1>1, Least, B \subseteq Nat
  <2>2. i \in 0..n /\ ~I(i) /\ i # 0
    BY <1>6, <2>1
  <2>3. i \in 1..n /\ i - 1 \in 0..n /\ ~(i <= i - 1)
    BY <1>1, <2>2
  <2>4. I(i - 1)
    BY <2>1, <2>3
  <2> QED
    BY <1>7, <2>2, <2>3, <2>4
<1>9. I(n)
  <2>1. n \in 0..n
    BY <1>1
  <2> QED
    BY <1>8, <2>1
<1>10. ArrayParts(G) = Numbers(n)
  BY <1>3, <1>4, <1>9 DEF I, Left
<1> QED
  BY <1>1, <1>10 DEF G

LEMMA FramesOnce == FramesSentOnce
<1> SUFFICES ASSUME NEW parts \in Contents, NEW p \in {"openai", "qwen", "dashscope", "google"}
             PROVE  /\ SentParts(p, parts) = ImageParts(parts)
                    /\ p = "openai" \/ SentParts(p, Grouped(parts)) = ImageParts(parts)
  BY DEF FramesSentOnce
<1>1. \A q \in Seq(Parts) : /\ p \in {"qwen", "dashscope"} => SentParts(p, q) = ArrayParts(q)
                            /\ p = "openai" => SentParts(p, q) = ImageParts(q)
                            /\ p = "google" => SentParts(p, q) = NoMarker(q)
  BY DEF SentParts
<1>2. parts \in Seq(Parts)
  BY ContentsAre
<1>3. SentParts(p, parts) = ImageParts(parts)
  BY <1>1, <1>2, SentSingly, ImagesOfParts
<1>4. CASE Len(parts) = 0
  <2> DEFINE ss == [i \in 1..Len(parts) |-> MarkedAt(parts, i)]
  <2>1. parts = <<>>
    BY <1>2, <1>4
  <2>2. ss = <<>> /\ Len(ss) = 0
    BY <1>4
  <2>3. FlattenSeq(ss) = <<>>
    BY <2>2 DEF FlattenSeq
  <2>4. Grouped(parts) = parts
    BY <2>1, <2>3, GroupedAre
  <2> QED
    BY <1>3, <2>4
<1>5. CASE Len(parts) # 0
  <2>1. Grouped(parts) \in Seq(Parts)
    BY <1>5, BlocksAre DEF LaidOut
  <2>2. /\ ArrayParts(Grouped(parts)) = ImageParts(parts)
        /\ NoMarker(Grouped(parts)) = ImageParts(parts)
    BY <1>5, SentInGroups, ImagesOfGrouped
  <2> QED
    BY <1>1, <1>3, <2>1, <2>2
<1> QED
  BY <1>4, <1>5
-------------------------------------------------------------------------------
(* What is sent is what was said and shown: in every protocol but the one  *)
(* that wants an answer in between, each call of a request is followed by  *)
(* its result with nothing but results of the same message between them    *)
(* (loop.go:231-249); every frame of a prompt is sent once and in its      *)
(* place, grouped or not (video.go:71-114); only a history with a cut      *)
(* call is refused; and a thinking budget leaves room for an answer        *)
(* (stream_options.go:27-63).  For any prompts, turns and limits.          *)
THEOREM RequestsFaithfulAlways == Spec => []RequestsFaithful
<1> DEFINE Requesting == Streaming /\ Paired
<1>1. Init => Requesting
  BY StreamingInit, PairedInit DEF Init
<1>2. Requesting /\ [Next \/ (Stopped /\ UNCHANGED vars)]_vars => Requesting'
  <2>1. [Next \/ (Stopped /\ UNCHANGED vars)]_vars => [StreamNext]_streamVars
    BY DEF Next, Others, vars
  <2> QED
    BY <2>1, StreamingStep, PairedStep
<1>3. Requesting => RequestsFaithful
  BY PairedRequests, FramesOnce, StreamingRefuses, LimitsFit DEF RequestsFaithful
<1> HIDE DEF Requesting
<1> QED
  BY <1>1, <1>2, <1>3, PTL DEF Spec
===============================================================================
