---------------------------- MODULE StreamConfig_proofs ----------------------------
(***************************************************************************)
(* What is proved of StreamConfig.  The check of the tags with a stack is  *)
(* compared with the recursive definition of Balanced through what is left *)
(* after each tag (Run), the first element and the closing tag that ends   *)
(* it.  The list of the stream manager is described by what each element   *)
(* of the file has contributed when the parser is at a given place         *)
(* (ListAt): one lemma for each step of the parser, and the two properties *)
(* of an accepted file are what ListAt says at the end.  A recursive       *)
(* function of the model is a CHOOSE: that it obeys its definition follows *)
(* from Iterate.                                                           *)
(***************************************************************************)
EXTENDS StreamConfig, SequenceTheorems, Iteration_proofs, TLAPS

-----------------------------------------------------------------------------
(* Tags *)

(* What is left of the tags is a stack of names and a verdict.             *)
Left == [open : Seq(STRING), verdict : {"fine", "crash", "mismatch"}]

(* A tag leaves a stack and a verdict again.                               *)
LEMMA NestTyped ==
  ASSUME NEW left \in Left, NEW tag \in AnyTag
  PROVE  Nest(left, tag) \in Left
<1>1. left.open \in Seq(STRING) /\ left.verdict \in {"fine", "crash", "mismatch"} /\ tag.name \in STRING
  BY DEF Left, AnyTag
<1>2. <<tag.name>> \in Seq(STRING)
  BY <1>1
<1>3. <<tag.name>> \o left.open \in Seq(STRING)
  BY <1>1, <1>2, ConcatProperties
<1>4. left.open # <<>> => Tail(left.open) \in Seq(STRING)
  BY <1>1, HeadTailProperties
<1> QED
  BY <1>1, <1>3, <1>4 DEF Nest, Left

(* What is left after each tag: the function of Nesting, as a name.        *)
Run(tags) ==
  CHOOSE f : f = [k \in 0..Len(tags) |-> IF k = 0 THEN NoTags ELSE Nest(f[k-1], tags[k])]

(* The recursive function of Nesting exists, and obeys its definition.     *)
LEMMA AnyRunFacts ==
  ASSUME NEW t \in Seq(AnyTag)
  PROVE  /\ Nesting(t) = Run(t)[Len(t)]
         /\ Run(t)[0] = NoTags
         /\ \A k \in 0..Len(t) : Run(t)[k] \in Left
         /\ \A k \in 1..Len(t) : Run(t)[k] = Nest(Run(t)[k-1], t[k])
<1> DEFINE n == Len(t)
           step == [k \in Nat |-> [v \in Left |-> IF k + 1 \in 1..n THEN Nest(v, t[k+1]) ELSE v]]
<1>1. n \in Nat /\ \A k \in 1..n : t[k] \in AnyTag
  BY LenProperties, ElementOfSeq
<1>2. NoTags \in Left
  BY DEF NoTags, Left
<1>3. step \in [Nat -> [Left -> Left]]
  BY <1>1, NestTyped
<1>4. PICK f : Loop(f, Left, NoTags, step)
  <2> HIDE DEF step
  <2> QED
    BY <1>2, <1>3, Iterate
<1>5. f \in [Nat -> Left] /\ f[0] = NoTags /\ \A k \in Nat : f[k+1] = step[k][f[k]]
  BY <1>4 DEF Loop
<1>6. \A k \in 1..n : f[k] = Nest(f[k-1], t[k])
  <2> SUFFICES ASSUME NEW k \in 1..n PROVE f[k] = Nest(f[k-1], t[k])
    OBVIOUS
  <2>1. k - 1 \in Nat /\ (k - 1) + 1 = k /\ f[k-1] \in Left
    BY <1>1, <1>5
  <2>2. f[k] = step[k-1][f[k-1]]
    BY <1>5, <2>1
  <2> QED
    BY <1>1, <2>1, <2>2
<1> DEFINE g == [k \in 0..n |-> f[k]]
<1>7. g = [k \in 0..Len(t) |-> IF k = 0 THEN NoTags ELSE Nest(g[k-1], t[k])]
  <2> HIDE DEF step
  <2>1. ASSUME NEW k \in 0..n PROVE g[k] = IF k = 0 THEN NoTags ELSE Nest(g[k-1], t[k])
    <3>1. CASE k = 0
      BY <1>1, <1>5, <3>1
    <3>2. CASE k # 0
      <4>1. k \in 1..n /\ k - 1 \in 0..n
        BY <1>1, <3>2
      <4> QED
        BY <1>6, <3>2, <4>1
    <3> QED
      BY <3>1, <3>2
  <2> QED
    BY <2>1
<1> HIDE DEF g
<1>8. Run(t) = [k \in 0..Len(t) |-> IF k = 0 THEN NoTags ELSE Nest(Run(t)[k-1], t[k])]
  BY <1>7 DEF Run
<1>9. Nesting(t) = Run(t)[Len(t)]
  BY DEF Nesting, Run
<1>10. Run(t)[0] = NoTags /\ \A k \in 1..n : Run(t)[k] = Nest(Run(t)[k-1], t[k])
  <2>1. 0 \in 0..n /\ \A k \in 1..n : k \in 0..n /\ k # 0
    BY <1>1
  <2> QED
    BY <1>8, <2>1
<1> DEFINE S == {k \in Nat : k <= n => Run(t)[k] \in Left}
<1>11. Nat \subseteq S
  <2>1. 0 \in S
    BY <1>2, <1>10
  <2>2. ASSUME NEW k \in Nat, k \in S PROVE k + 1 \in S
    <3> SUFFICES ASSUME k + 1 <= n PROVE Run(t)[k+1] \in Left
      OBVIOUS
    <3>1. k + 1 \in 1..n /\ (k + 1) - 1 = k /\ Run(t)[k] \in Left
      BY <1>1, <2>2
    <3>2. Run(t)[k+1] = Nest(Run(t)[k], t[k+1])
      BY <1>10, <3>1
    <3> QED
      BY <1>1, <3>1, <3>2, NestTyped
  <2> HIDE DEF S
  <2> QED
    BY <2>1, <2>2, SetInduction
<1>12. \A k \in 0..n : Run(t)[k] \in Left
  BY <1>1, <1>11
<1> QED
  BY <1>9, <1>10, <1>12

(* Ordinary tags are tags.                                                 *)
LEMMA OrdinaryTags ==
  ASSUME NEW t \in Seq(Tag)
  PROVE  t \in Seq(AnyTag)
<1>1. Len(t) \in Nat /\ t \in [1..Len(t) -> Tag]
  BY LenProperties
<1>2. Tag \subseteq AnyTag
  BY DEF Tag, AnyTag
<1>3. t \in [1..Len(t) -> AnyTag]
  BY <1>1, <1>2
<1> QED
  BY <1>1, <1>3, SeqDef

(* The same for ordinary tags, which are all that is dealt with up to      *)
(* OkIsBalanced.                                                           *)
LEMMA RunFacts ==
  ASSUME NEW t \in Seq(Tag)
  PROVE  /\ Nesting(t) = Run(t)[Len(t)]
         /\ Run(t)[0] = NoTags
         /\ \A k \in 0..Len(t) : Run(t)[k] \in Left
         /\ \A k \in 1..Len(t) : Run(t)[k] = Nest(Run(t)[k-1], t[k])
BY OrdinaryTags, AnyRunFacts

(* The tags have been in order so far.                                     *)
Fine(left) == left.verdict = "fine"

(* A verdict stays: what is fine in the end was fine before.               *)
LEMMA VerdictStays ==
  ASSUME NEW t \in Seq(Tag), NEW j \in 0..Len(t), NEW k \in 0..Len(t), j <= k, ~Fine(Run(t)[j])
  PROVE  Run(t)[k] = Run(t)[j]
<1> DEFINE S == {i \in Nat : j + i <= Len(t) => Run(t)[j+i] = Run(t)[j]}
<1>1. Len(t) \in Nat
  BY LenProperties
<1>2. 0 \in S
  OBVIOUS
<1>3. ASSUME NEW i \in Nat, i \in S PROVE i + 1 \in S
  <2> SUFFICES ASSUME j + (i + 1) <= Len(t) PROVE Run(t)[j+(i+1)] = Run(t)[j]
    OBVIOUS
  <2>1. j + (i+1) \in 1..Len(t) /\ (j + (i+1)) - 1 = j + i /\ Run(t)[j+i] = Run(t)[j]
    BY <1>1, <1>3
  <2>2. Run(t)[j+(i+1)] = Nest(Run(t)[j+i], t[j+(i+1)])
    BY <2>1, RunFacts
  <2> QED
    BY <2>1, <2>2 DEF Nest, Fine
<1> HIDE DEF S
<1>4. k - j \in S
  BY <1>1, <1>2, <1>3, SetInduction
<1> QED
  BY <1>1, <1>4 DEF S

(* What is left, with names below that are not touched.                    *)
Above(left, c) == [open |-> left.open \o c, verdict |-> "fine"]

(* What a tag does does not depend on the names below, unless it closes    *)
(* one of them.                                                            *)
LEMMA NestAbove ==
  ASSUME NEW left \in Left, Fine(left), NEW c \in Seq(STRING), NEW tag \in Tag
  PROVE  /\ Fine(Nest(left, tag)) => Nest(Above(left, c), tag) = Above(Nest(left, tag), c)
         /\ ~Fine(Nest(left, tag)) =>
              \/ ~Fine(Nest(Above(left, c), tag))
              \/ Len(Nest(Above(left, c), tag).open) < Len(c)
<1> DEFINE o == left.open
           u == Nest(left, tag)
           w == Nest(Above(left, c), tag)
<1>1. o \in Seq(STRING) /\ left = [open |-> o, verdict |-> "fine"]
  BY DEF Left, Fine
<1>2. u = Nest([open |-> o, verdict |-> "fine"], tag) /\ w = Nest([open |-> o \o c, verdict |-> "fine"], tag)
  BY <1>1 DEF Above
<1> HIDE DEF o, u, w
<1>3. SUFFICES /\ Fine(u) => w = [open |-> u.open \o c, verdict |-> "fine"]
               /\ ~Fine(u) => ~Fine(w) \/ Len(w.open) < Len(c)
  BY DEF u, w, Above
<1>4. tag.kind \in {"open", "close", "single"} /\ tag.name \in STRING
  BY DEF Tag
<1>5. CASE tag.kind = "single"
  BY <1>2, <1>5 DEF Nest, Fine
<1>6. CASE tag.kind = "open"
  <2>1. u = [open |-> <<tag.name>> \o o, verdict |-> "fine"]
    BY <1>2, <1>6 DEF Nest
  <2>2. w = [open |-> <<tag.name>> \o (o \o c), verdict |-> "fine"]
    BY <1>2, <1>6 DEF Nest
  <2>3. <<tag.name>> \in Seq(STRING)
    BY <1>4
  <2>4. (<<tag.name>> \o o) \o c = <<tag.name>> \o (o \o c)
    BY <2>3, <1>1, ConcatAssociative
  <2>5. u.open = <<tag.name>> \o o /\ u.verdict = "fine"
    BY <2>1
  <2>6. w = [open |-> u.open \o c, verdict |-> "fine"]
    BY <2>2, <2>4, <2>5, Zenon
  <2> QED
    BY <2>5, <2>6 DEF Fine
<1>7. CASE tag.kind = "close" /\ o = <<>>
  <2>1. u.verdict = "crash"
    BY <1>2, <1>7 DEF Nest
  <2>2. o \o c = c
    BY <1>7, <1>1, ConcatEmptySeq
  <2>3. CASE c = <<>>
    BY <1>2, <1>7, <2>1, <2>2, <2>3 DEF Nest, Fine
  <2>4. CASE c # <<>>
    <3>1. Len(Tail(c)) < Len(c)
      BY <2>4, <1>1, HeadTailProperties, LenProperties, EmptySeq
    <3>2. ~Fine(w) \/ w.open = Tail(c)
      BY <1>2, <1>7, <2>2, <2>4 DEF Nest, Fine
    <3> QED
      BY <2>1, <3>1, <3>2 DEF Fine
  <2> QED
    BY <2>3, <2>4
<1>8. CASE tag.kind = "close" /\ o # <<>>
  <2>1. o \o c # <<>> /\ Head(o \o c) = Head(o) /\ Tail(o \o c) = Tail(o) \o c
    <3>1. Len(o) \in Nat \ {0} /\ Len(c) \in Nat
      BY <1>8, <1>1, EmptySeq, LenProperties
    <3>2. o \o c \in Seq(STRING) /\ Len(o \o c) = Len(o) + Len(c) /\ (o \o c)[1] = o[1]
      BY <3>1, <1>1, ConcatProperties
    <3>3. o \o c # <<>>
      BY <3>1, <3>2
    <3>4. Tail(o) \in Seq(STRING) /\ Len(Tail(o)) = Len(o) - 1
          /\ \A i \in 1..Len(Tail(o)) : Tail(o)[i] = o[i+1]
      BY <1>8, <1>1, HeadTailProperties
    <3>5. Tail(o \o c) \in Seq(STRING) /\ Len(Tail(o \o c)) = Len(o) + Len(c) - 1
          /\ \A i \in 1..Len(o) + Len(c) - 1 : Tail(o \o c)[i] = (o \o c)[i+1]
      BY <3>2, <3>3, <1>1, HeadTailProperties
    <3>6. Tail(o) \o c \in Seq(STRING) /\ Len(Tail(o) \o c) = Len(o) - 1 + Len(c)
          /\ \A i \in 1..Len(o) - 1 + Len(c) :
               (Tail(o) \o c)[i] = IF i <= Len(o) - 1 THEN Tail(o)[i] ELSE c[i - (Len(o) - 1)]
      BY <3>4, <1>1, ConcatProperties
    <3>7. \A i \in 1..Len(o) + Len(c) : (o \o c)[i] = IF i <= Len(o) THEN o[i] ELSE c[i - Len(o)]
      BY <1>1, ConcatProperties
    <3>8. ASSUME NEW i \in 1..Len(o) + Len(c) - 1 PROVE Tail(o \o c)[i] = (Tail(o) \o c)[i]
      <4>1. i + 1 \in 1..Len(o) + Len(c) /\ i \in 1..Len(o) - 1 + Len(c)
        BY <3>1
      <4>2. (i + 1) - Len(o) = i - (Len(o) - 1)
        BY <3>1
      <4>3. CASE i <= Len(o) - 1
        BY <3>1, <3>4, <3>5, <3>6, <3>7, <4>1, <4>3
      <4>4. CASE i > Len(o) - 1
        BY <3>1, <3>5, <3>6, <3>7, <4>1, <4>2, <4>4
      <4> QED
        BY <3>1, <4>3, <4>4
    <3>9. Tail(o \o c) = Tail(o) \o c
      BY <3>1, <3>5, <3>6, <3>8, SeqEqual
    <3> QED
      BY <3>2, <3>3, <3>9
  <2> QED
    BY <1>2, <1>8, <2>1 DEF Nest, Fine
<1> QED
  BY <1>4, <1>5, <1>6, <1>7, <1>8

(* The tags after the first a, up to the b-th.                             *)
Part(s, t, a, b) == s = SubSeq(t, a+1, b)

(* The tags of a part, by their number in the whole.                       *)
LEMMA PartFacts ==
  ASSUME NEW t \in Seq(Tag), NEW a \in 0..Len(t), NEW b \in a..Len(t), NEW s, Part(s, t, a, b)
  PROVE  /\ Len(t) \in Nat /\ a \in Nat /\ b \in Nat /\ b <= Len(t)
         /\ s \in Seq(Tag) /\ Len(s) = b - a /\ \A i \in 1..b-a : s[i] = t[a+i]
<1>1. Len(t) \in Nat /\ \A i \in 1..Len(t) : t[i] \in Tag
  BY LenProperties, ElementOfSeq
<1>2. a \in Nat /\ b \in Nat /\ a + 1 \in Int /\ b \in Int
  BY <1>1
<1>3. \A i \in (a+1)..b : t[i] \in Tag
  BY <1>1, <1>2
<1>4. /\ SubSeq(t, a+1, b) \in Seq(Tag)
      /\ Len(SubSeq(t, a+1, b)) = IF a+1 <= b THEN b-(a+1)+1 ELSE 0
      /\ \A i \in 1..b-(a+1)+1 : SubSeq(t, a+1, b)[i] = t[(a+1)+i-1]
  BY <1>2, <1>3, SubSeqProperties
<1> QED
  BY <1>1, <1>2, <1>4 DEF Part

(* A part that is in order is in order above any names, too.               *)
LEMMA LiftForward ==
  ASSUME NEW t \in Seq(Tag), NEW a \in 0..Len(t), NEW b \in a..Len(t),
         NEW s, Part(s, t, a, b), Fine(Run(t)[a]),
         NEW l \in a..b, Fine(Run(s)[l-a])
  PROVE  Run(t)[l] = Above(Run(s)[l-a], Run(t)[a].open)
<1> DEFINE j == l - a
<1>1. /\ Len(t) \in Nat /\ a \in Nat /\ b \in Nat /\ j \in Nat /\ j <= b - a /\ a + j = l
      /\ s \in Seq(Tag) /\ Len(s) = b - a /\ \A i \in 1..b-a : s[i] = t[a+i]
  BY PartFacts
<1> DEFINE c == Run(t)[a].open
           Lifted(i) == Run(t)[a+i] = Above(Run(s)[i], c)
           S == {i \in Nat : i <= j => Lifted(i)}
<1>2. c \in Seq(STRING)
  <2>1. Run(t)[a] \in Left
    BY RunFacts
  <2> QED
    BY <2>1 DEF Left
<1>3. 0 \in S
  <2>1. Run(s)[0].open = <<>>
    <3>1. Run(s)[0] = NoTags
      BY <1>1, RunFacts
    <3> QED
      BY <3>1 DEF NoTags
  <2>2. <<>> \o c = c
    BY <1>2, ConcatEmptySeq
  <2>3. Run(t)[a] \in Left
    BY RunFacts
  <2>4. Run(t)[a] = [open |-> c, verdict |-> "fine"]
    BY <2>3 DEF Left, Fine
  <2>5. a + 0 = a
    BY <1>1
  <2>6. Lifted(0)
    BY <2>1, <2>2, <2>4, <2>5 DEF Above
  <2> QED
    BY <2>6
<1>4. ASSUME NEW i \in Nat, i \in S PROVE i + 1 \in S
  <2> SUFFICES ASSUME i + 1 <= j PROVE Lifted(i+1)
    OBVIOUS
  <2>1. /\ i \in 0..Len(s) /\ i + 1 \in 1..Len(s) /\ (i + 1) - 1 = i
        /\ a + (i+1) \in 1..Len(t) /\ (a + (i+1)) - 1 = a + i /\ i + 1 \in 1..b-a
    BY <1>1
  <2>2. Lifted(i)
    BY <1>1, <1>4
  <2>3. Run(s)[i] \in Left /\ Fine(Run(s)[i]) /\ Fine(Run(s)[i+1])
    <3>1. j \in 0..Len(s) /\ Fine(Run(s)[j]) /\ i + 1 \in 0..Len(s) /\ i <= j
      BY <1>1, <2>1
    <3> QED
      BY <1>1, <2>1, <3>1, RunFacts, VerdictStays
  <2>4. Run(s)[i+1] = Nest(Run(s)[i], s[i+1])
    BY <1>1, <2>1, RunFacts
  <2>5. Run(t)[a+(i+1)] = Nest(Run(t)[a+i], t[a+(i+1)])
    BY <2>1, RunFacts
  <2>6. s[i+1] = t[a+(i+1)] /\ s[i+1] \in Tag
    BY <1>1, <2>1, ElementOfSeq
  <2> HIDE DEF c
  <2> QED
    BY <1>2, <2>2, <2>3, <2>4, <2>5, <2>6, NestAbove
<1>5. j \in S
  <2> HIDE DEF S
  <2> QED
    BY <1>1, <1>3, <1>4, SetInduction
<1> QED
  BY <1>1, <1>5

(* A part that is in order above some names, and does not close them, is   *)
(* in order by itself.                                                     *)
LEMMA LiftBack ==
  ASSUME NEW t \in Seq(Tag), NEW a \in 0..Len(t), NEW b \in a..Len(t),
         NEW s, Part(s, t, a, b), Fine(Run(t)[a]),
         \A i \in a..b : Fine(Run(t)[i]) /\ Len(Run(t)[i].open) >= Len(Run(t)[a].open)
  PROVE  Fine(Run(s)[b-a])
<1>1. /\ Len(t) \in Nat /\ a \in Nat /\ b \in Nat /\ b - a \in Nat
      /\ s \in Seq(Tag) /\ Len(s) = b - a /\ \A i \in 1..b-a : s[i] = t[a+i]
  BY PartFacts
<1> DEFINE S == {i \in Nat : i <= b - a => Fine(Run(s)[i])}
<1>2. 0 \in S
  <2>1. Run(s)[0] = NoTags
    BY <1>1, RunFacts
  <2> QED
    BY <2>1 DEF NoTags, Fine
<1>3. ASSUME NEW i \in Nat, i \in S PROVE i + 1 \in S
  <2> SUFFICES ASSUME i + 1 <= b - a, ~Fine(Run(s)[i+1]) PROVE FALSE
    OBVIOUS
  <2>1. /\ i \in 0..Len(s) /\ i + 1 \in 1..Len(s) /\ (i + 1) - 1 = i
        /\ a + (i+1) \in 1..Len(t) /\ (a + (i+1)) - 1 = a + i /\ i + 1 \in 1..b-a
        /\ i \in 0..b-a /\ a + (i+1) \in a..b /\ i <= b - a /\ a + (i+1) \in 0..Len(t)
    BY <1>1
  <2>2. Fine(Run(s)[i])
    BY <1>3, <2>1
  <2>3. Run(t)[a+i] = Above(Run(s)[i], Run(t)[a].open)
    <3>1. a + i \in a..b /\ (a + i) - a = i
      BY <1>1, <2>1
    <3> QED
      BY <2>2, <3>1, LiftForward
  <2>4. Run(s)[i] \in Left /\ Run(t)[a] \in Left /\ Run(t)[a+(i+1)] \in Left
    BY <1>1, <2>1, RunFacts
  <2>5. Run(t)[a].open \in Seq(STRING) /\ Run(t)[a+(i+1)].open \in Seq(STRING)
    BY <2>4 DEF Left
  <2>6. Run(s)[i+1] = Nest(Run(s)[i], s[i+1])
    BY <1>1, <2>1, RunFacts
  <2>7. Run(t)[a+(i+1)] = Nest(Run(t)[a+i], t[a+(i+1)])
    BY <2>1, RunFacts
  <2>8. s[i+1] = t[a+(i+1)] /\ s[i+1] \in Tag
    BY <1>1, <2>1, ElementOfSeq
  <2>9. ~Fine(Run(t)[a+(i+1)]) \/ Len(Run(t)[a+(i+1)].open) < Len(Run(t)[a].open)
    BY <2>2, <2>3, <2>4, <2>5, <2>6, <2>7, <2>8, NestAbove
  <2>10. Len(Run(t)[a+(i+1)].open) \in Nat /\ Len(Run(t)[a].open) \in Nat
    BY <2>5, LenProperties
  <2> QED
    BY <2>1, <2>9, <2>10
<1>4. b - a \in S
  <2> HIDE DEF S
  <2> QED
    BY <1>1, <1>2, <1>3, SetInduction
<1> QED
  BY <1>4

(* The check with the stack lets the tags pass.                            *)
Ok(t) == Run(t)[Len(t)] = NoTags

(* What passes was fine at each tag.                                       *)
LEMMA FineBefore ==
  ASSUME NEW t \in Seq(Tag), NEW b \in 0..Len(t), Fine(Run(t)[b]), NEW i \in 0..b
  PROVE  Fine(Run(t)[i])
<1>1. Len(t) \in Nat /\ i \in 0..Len(t) /\ i <= b
  BY LenProperties
<1> QED
  BY <1>1, VerdictStays

(* No names below: nothing changes.                                        *)
LEMMA AboveNothing ==
  ASSUME NEW left \in Left
  PROVE  Above(left, <<>>) = [open |-> left.open, verdict |-> "fine"]
<1>1. left.open \in Seq(STRING)
  BY DEF Left
<1>2. left.open \o <<>> = left.open
  BY <1>1, ConcatEmptySeq
<1> QED
  BY <1>2 DEF Above

(* Where nothing is open, the rest has to be in order by itself.           *)
LEMMA RestOk ==
  ASSUME NEW t \in Seq(Tag), NEW a \in 0..Len(t), Run(t)[a] = NoTags,
         NEW s, Part(s, t, a, Len(t))
  PROVE  Ok(t) <=> Ok(s)
<1> DEFINE n == Len(t)
<1>1. /\ n \in Nat /\ a \in Nat /\ n \in a..n /\ n - a \in Nat /\ n - a \in 0..n-a /\ n \in 0..n
      /\ s \in Seq(Tag) /\ Len(s) = n - a
  <2>1. n \in Nat /\ a \in Nat /\ n \in a..n
    BY LenProperties
  <2> QED
    BY <2>1, PartFacts
<1>2. Fine(Run(t)[a]) /\ Run(t)[a].open = <<>>
  BY DEF NoTags, Fine
<1>3. Fine(Run(s)[n-a]) => Run(t)[n] = Above(Run(s)[n-a], <<>>)
  BY <1>1, <1>2, LiftForward
<1>4. Run(s)[n-a] \in Left
  BY <1>1, RunFacts
<1>5. ASSUME Ok(s) PROVE Ok(t)
  <2>1. Run(s)[n-a] = NoTags
    BY <1>1, <1>5 DEF Ok
  <2>2. Fine(Run(s)[n-a])
    BY <2>1 DEF NoTags, Fine
  <2>3. Run(t)[n] = Above(NoTags, <<>>) /\ NoTags \in Left
    BY <1>3, <1>4, <2>1, <2>2
  <2>4. Above(NoTags, <<>>) = NoTags
    BY <2>3, AboveNothing DEF NoTags
  <2> QED
    BY <2>3, <2>4 DEF Ok
<1>6. ASSUME Ok(t) PROVE Ok(s)
  <2>1. Run(t)[n] = NoTags
    BY <1>6 DEF Ok
  <2>2. Fine(Run(t)[n])
    BY <2>1 DEF NoTags, Fine
  <2>3. ASSUME NEW i \in a..n PROVE Fine(Run(t)[i]) /\ Len(Run(t)[i].open) >= Len(Run(t)[a].open)
    <3>1. i \in 0..n
      BY <1>1
    <3>2. Run(t)[i] \in Left
      BY <3>1, RunFacts
    <3>3. Len(Run(t)[i].open) \in Nat
      BY <3>2, LenProperties DEF Left
    <3>4. Len(Run(t)[a].open) = 0
      BY <1>2
    <3> QED
      BY <1>1, <2>2, <3>1, <3>3, <3>4, FineBefore
  <2>4. Fine(Run(s)[n-a])
    BY <1>1, <1>2, <2>3, LiftBack
  <2>5. NoTags = [open |-> Run(s)[n-a].open, verdict |-> "fine"]
    BY <1>3, <1>4, <2>1, <2>4, AboveNothing
  <2>6. Run(s)[n-a] = NoTags
    BY <1>4, <2>4, <2>5 DEF Left, Fine, NoTags
  <2> QED
    BY <1>1, <2>6 DEF Ok
<1> QED
  BY <1>5, <1>6

(* The definition of Balanced, one level of it.                            *)
Unfold(f, t) ==
  \/ t = <<>>
  \/ /\ t[1].kind = "single"
     /\ f[Tail(t)]
  \/ /\ t[1].kind = "open"
     /\ \E k \in 2..Len(t) :
          /\ t[k] = [kind |-> "close", name |-> t[1].name]
          /\ f[SubSeq(t, 2, k-1)]
          /\ f[SubSeq(t, k+1, Len(t))]

(* The verdict of the check on each sequence of tags.                      *)
OkOf == [t \in Seq(Tag) |-> Ok(t)]

(* The parts of the tags that Balanced asks about.                         *)
LEMMA Parts ==
  ASSUME NEW t \in Seq(Tag), t # <<>>
  PROVE  /\ Len(t) \in Nat \ {0} /\ t[1] \in Tag
         /\ Tail(t) \in Seq(Tag) /\ Tail(t) = SubSeq(t, 2, Len(t)) /\ Len(Tail(t)) = Len(t) - 1
         /\ \A k \in 2..Len(t) :
              /\ t[k] \in Tag
              /\ SubSeq(t, 2, k-1) \in Seq(Tag) /\ Len(SubSeq(t, 2, k-1)) = k - 2
              /\ SubSeq(t, k+1, Len(t)) \in Seq(Tag) /\ Len(SubSeq(t, k+1, Len(t))) = Len(t) - k
<1>1. Len(t) \in Nat \ {0}
  BY EmptySeq
<1>2. t[1] \in Tag
  BY <1>1, ElementOfSeq
<1>3. Tail(t) \in Seq(Tag) /\ Tail(t) = SubSeq(t, 2, Len(t)) /\ Len(Tail(t)) = Len(t) - 1
  BY HeadTailProperties, TailIsSubSeq
<1>4. ASSUME NEW k \in 2..Len(t)
      PROVE  /\ t[k] \in Tag
             /\ SubSeq(t, 2, k-1) \in Seq(Tag) /\ Len(SubSeq(t, 2, k-1)) = k - 2
             /\ SubSeq(t, k+1, Len(t)) \in Seq(Tag) /\ Len(SubSeq(t, k+1, Len(t))) = Len(t) - k
  <2>1. /\ k \in 1..Len(t) /\ 1 \in 0..Len(t) /\ k - 1 \in 1..Len(t) /\ 1 + 1 = 2 /\ (k-1) - 1 = k - 2
        /\ k \in 0..Len(t) /\ Len(t) \in k..Len(t)
    BY <1>1
  <2>2. Part(SubSeq(t, 2, k-1), t, 1, k-1) /\ Part(SubSeq(t, k+1, Len(t)), t, k, Len(t))
    BY DEF Part
  <2>3. SubSeq(t, 2, k-1) \in Seq(Tag) /\ Len(SubSeq(t, 2, k-1)) = (k-1) - 1
    BY <2>1, <2>2, PartFacts
  <2>4. SubSeq(t, k+1, Len(t)) \in Seq(Tag) /\ Len(SubSeq(t, k+1, Len(t))) = Len(t) - k
    BY <2>1, <2>2, PartFacts
  <2> QED
    BY <2>1, <2>3, <2>4, ElementOfSeq
<1> QED
  BY <1>1, <1>2, <1>3, <1>4

(* Only a closing tag leaves nothing open where something was.             *)
LEMMA ClosesLast ==
  ASSUME NEW left \in Left, NEW name \in STRING, NEW tag \in Tag,
         Fine(Nest(Above(left, <<name>>), tag)), Nest(Above(left, <<name>>), tag).open = <<>>
  PROVE  tag.kind = "close" /\ left.open = <<>> /\ tag.name = name
<1> DEFINE o == left.open
           w == Nest(Above(left, <<name>>), tag)
<1>1. o \in Seq(STRING) /\ w = Nest([open |-> o \o <<name>>, verdict |-> "fine"], tag)
  BY DEF Left, Above
<1>2. Fine(w) /\ w.open = <<>>
  OBVIOUS
<1> HIDE DEF o, w
<1>3. SUFFICES tag.kind = "close" /\ o = <<>> /\ tag.name = name
  BY DEF o
<1>4. tag.kind \in {"open", "close", "single"} /\ tag.name \in STRING
  BY DEF Tag
<1>5. /\ o \o <<name>> \in Seq(STRING) /\ Len(o \o <<name>>) = Len(o) + 1 /\ Len(o) \in Nat
      /\ (o \o <<name>>)[Len(o) + 1] = name
  <2>1. <<name>> \in Seq(STRING) /\ Len(<<name>>) = 1 /\ <<name>>[1] = name
    OBVIOUS
  <2>2. Len(o) \in Nat /\ Len(o) + 1 \in 1..Len(o)+1 /\ Len(o) + 1 - Len(o) = 1
    BY <1>1, LenProperties
  <2> QED
    BY <1>1, <2>1, <2>2, ConcatProperties
<1>6. o \o <<name>> # <<>>
  BY <1>5
<1>7. tag.kind # "single"
  BY <1>1, <1>2, <1>6 DEF Nest
<1>8. tag.kind # "open"
  <2> SUFFICES ASSUME tag.kind = "open" PROVE FALSE
    OBVIOUS
  <2>1. w.open = <<tag.name>> \o (o \o <<name>>)
    BY <1>1 DEF Nest
  <2>2. <<tag.name>> \in Seq(STRING) /\ Len(<<tag.name>>) = 1
    BY <1>4
  <2>3. Len(<<tag.name>> \o (o \o <<name>>)) = 1 + (Len(o) + 1)
    BY <1>5, <2>2, ConcatProperties
  <2> QED
    BY <1>5, <1>2, <2>1, <2>3
<1>9. tag.kind = "close"
  BY <1>4, <1>7, <1>8
<1>10. Tail(o \o <<name>>) = <<>> /\ Head(o \o <<name>>) = tag.name
  BY <1>1, <1>2, <1>6, <1>9 DEF Nest, Fine
<1>11. Len(Tail(o \o <<name>>)) = Len(o) + 1 - 1
  BY <1>5, <1>6, HeadTailProperties
<1>12. Len(o) = 0
  BY <1>5, <1>10, <1>11
<1>13. o = <<>>
  BY <1>1, <1>12, EmptySeq
<1>14. (o \o <<name>>)[1] = name
  BY <1>5, <1>12
<1>15. Head(o \o <<name>>) = (o \o <<name>>)[1]
  BY <1>5
<1> QED
  BY <1>9, <1>10, <1>13, <1>14, <1>15

(* The check obeys the definition of Balanced, one level of it.            *)
LEMMA OkUnfolds ==
  ASSUME NEW t \in Seq(Tag)
  PROVE  Ok(t) <=> Unfold(OkOf, t)
<1> DEFINE n == Len(t)
<1>1. CASE t = <<>>
  <2>1. Run(t)[0] = NoTags /\ Len(t) = 0
    BY <1>1, RunFacts
  <2> QED
    BY <1>1, <2>1 DEF Ok, Unfold
<1>2. CASE t # <<>> /\ t[1].kind = "single"
  <2>1. n \in Nat \ {0} /\ 1 \in 0..n /\ 1 \in 1..n /\ Tail(t) \in Seq(Tag) /\ Part(Tail(t), t, 1, n)
    BY <1>2, Parts DEF Part
  <2>2. Run(t)[1] = NoTags
    <3>1. Run(t)[1] = Nest(Run(t)[0], t[1]) /\ Run(t)[0] = NoTags
      BY <2>1, RunFacts
    <3> QED
      BY <1>2, <3>1 DEF Nest
  <2>3. Ok(t) <=> Ok(Tail(t))
    BY <2>1, <2>2, RestOk
  <2>4. OkOf[Tail(t)] = Ok(Tail(t))
    BY <2>1 DEF OkOf
  <2>5. Unfold(OkOf, t) <=> OkOf[Tail(t)]
    BY <1>2 DEF Unfold
  <2> QED
    BY <2>3, <2>4, <2>5
<1>3. CASE t # <<>> /\ t[1].kind = "close"
  <2>1. n \in Nat \ {0} /\ 1 \in 0..n /\ 1 \in 1..n /\ n \in 0..n
    BY <1>3, Parts
  <2>2. ~Fine(Run(t)[1])
    <3>1. Run(t)[1] = Nest(Run(t)[0], t[1]) /\ Run(t)[0] = NoTags
      BY <2>1, RunFacts
    <3> QED
      BY <1>3, <3>1 DEF Nest, NoTags, Fine
  <2>3. ~Ok(t)
    <3>1. Ok(t) => Fine(Run(t)[n])
      BY DEF Ok, NoTags, Fine
    <3>2. 1 \in 0..n
      BY <2>1
    <3> QED
      BY <2>1, <2>2, <3>1, FineBefore
  <2>4. ~Unfold(OkOf, t)
    BY <1>3 DEF Unfold
  <2> QED
    BY <2>3, <2>4
<1>4. CASE t # <<>> /\ t[1].kind = "open"
  <2>1. /\ n \in Nat \ {0} /\ 1 \in 0..n /\ 1 \in 1..n /\ t[1] \in Tag
        /\ \A k \in 2..n :
              /\ t[k] \in Tag
              /\ SubSeq(t, 2, k-1) \in Seq(Tag) /\ Len(SubSeq(t, 2, k-1)) = k - 2
              /\ SubSeq(t, k+1, n) \in Seq(Tag)
    BY <1>4, Parts
  <2> DEFINE name == t[1].name
  <2>2. Run(t)[1] = [open |-> <<name>>, verdict |-> "fine"]
    <3>1. Run(t)[1] = Nest(Run(t)[0], t[1]) /\ Run(t)[0] = NoTags
      BY <2>1, RunFacts
    <3>2. name \in STRING
      BY <2>1 DEF Tag
    <3>3. <<name>> \o <<>> = <<name>>
      BY <3>2, ConcatEmptySeq
    <3> QED
      BY <1>4, <3>1, <3>3 DEF Nest, NoTags
  (* A part that is in order by itself is closed by its tag.               *)
  <2>3. ASSUME NEW k \in 2..n, t[k] = [kind |-> "close", name |-> name], Ok(SubSeq(t, 2, k-1))
        PROVE  Run(t)[k] = NoTags
    <3> DEFINE s == SubSeq(t, 2, k-1)
    <3>1. /\ k \in Nat /\ k - 1 \in 1..n /\ k - 2 = (k-1) - 1 /\ k - 1 \in 1..k-1
          /\ k \in 1..n /\ Part(s, t, 1, k-1)
      BY <2>1 DEF Part
    <3>2. Run(s)[k-2] = NoTags
      BY <2>1, <2>3, <3>1 DEF Ok
    <3>3. Fine(Run(s)[k-2]) /\ Fine(Run(t)[1]) /\ Run(s)[k-2].open = <<>>
      BY <2>2, <3>2 DEF NoTags, Fine
    <3>4. Run(t)[k-1] = Above(Run(s)[k-2], Run(t)[1].open)
      <4> HIDE DEF s
      <4> QED
        BY <2>1, <3>1, <3>3, LiftForward
    <3>5. Run(t)[k-1] = [open |-> <<name>>, verdict |-> "fine"]
      <4>1. <<>> \o <<name>> = <<name>>
        BY <2>1, ConcatEmptySeq DEF Tag
      <4>2. Run(t)[1].open = <<name>>
        BY <2>2
      <4> QED
        BY <3>1, <3>3, <3>4, <4>1, <4>2 DEF Above
    <3>6. Run(t)[k] = Nest(Run(t)[k-1], t[k])
      BY <3>1, RunFacts
    <3>7. Tail(<<name>>) = <<>> /\ Head(<<name>>) = name /\ <<name>> # <<>>
      OBVIOUS
    <3> QED
      BY <2>3, <3>5, <3>6, <3>7 DEF Nest, NoTags
  <2>4. ASSUME Unfold(OkOf, t) PROVE Ok(t)
    <3>1. PICK k \in 2..n : /\ t[k] = [kind |-> "close", name |-> name]
                            /\ OkOf[SubSeq(t, 2, k-1)]
                            /\ OkOf[SubSeq(t, k+1, n)]
      BY <1>4, <2>4 DEF Unfold
    <3>2. Ok(SubSeq(t, 2, k-1)) /\ Ok(SubSeq(t, k+1, n))
      BY <2>1, <3>1 DEF OkOf
    <3>3. Run(t)[k] = NoTags
      BY <2>3, <3>1, <3>2
    <3>4. k \in 0..n /\ Part(SubSeq(t, k+1, n), t, k, n)
      BY <2>1 DEF Part
    <3> QED
      BY <3>2, <3>3, <3>4, RestOk
  <2>5. ASSUME Ok(t) PROVE Unfold(OkOf, t)
    <3> DEFINE Z == {k \in 2..n : Run(t)[k].open = <<>>}
    <3>1. Run(t)[n] = NoTags /\ Fine(Run(t)[n])
      BY <2>5 DEF Ok, NoTags, Fine
    <3>2. n \in Z
      <4>1. Run(t)[n].open = <<>>
        BY <3>1 DEF NoTags
      <4>2. n # 1
        <5>1. Run(t)[1].open # <<>>
          BY <2>2
        <5> QED
          BY <4>1, <5>1
      <4>3. n \in 2..n
        BY <2>1, <4>2
      <4> QED
        BY <4>1, <4>3
    <3>3. PICK k \in Z : \A i \in Z : k <= i
      <4>1. Z \in SUBSET Nat /\ Z # {}
        BY <3>2
      <4> HIDE DEF Z
      <4> QED
        BY <4>1, LeastNumber
    <3>4. /\ k \in 2..n /\ k \in Nat /\ k - 1 \in 1..n /\ k - 2 = (k-1) - 1 /\ k - 1 \in 1..k-1
          /\ k \in 1..n /\ k \in 0..n /\ n \in 0..n /\ k - 1 \in 0..n
      BY <2>1
    <3>5. Run(t)[k].open = <<>>
      OBVIOUS
    <3>6. \A i \in 0..n : Run(t)[i] \in Left /\ Fine(Run(t)[i])
      BY <3>1, <3>4, RunFacts, FineBefore
    <3> DEFINE s == SubSeq(t, 2, k-1)
    <3>7. Part(s, t, 1, k-1) /\ Part(SubSeq(t, k+1, n), t, k, n)
      BY DEF Part
    <3>8. ASSUME NEW i \in 1..k-1 PROVE Fine(Run(t)[i]) /\ Len(Run(t)[i].open) >= Len(Run(t)[1].open)
      <4>1. i \in 0..n /\ (i = 1 \/ (i \in 2..n /\ i < k))
        BY <2>1, <3>4
      <4>2. Run(t)[i].open # <<>>
        <5>1. Run(t)[1].open # <<>>
          BY <2>2
        <5>2. i \in Z => k <= i
          BY <3>3
        <5> QED
          BY <3>4, <4>1, <5>1, <5>2
      <4>3. Run(t)[i].open \in Seq(STRING)
        BY <3>6, <4>1 DEF Left
      <4>4. Len(Run(t)[i].open) \in Nat \ {0}
        BY <4>2, <4>3, EmptySeq
      <4>5. Len(Run(t)[1].open) = 1
        BY <2>2
      <4> QED
        BY <3>6, <4>1, <4>4, <4>5
    <3>9. Fine(Run(s)[k-2])
      <4>1. Fine(Run(t)[1])
        BY <2>2 DEF Fine
      <4>2. Fine(Run(s)[(k-1)-1])
        <5> HIDE DEF s
        <5> QED
          BY <2>1, <3>4, <3>8, <3>7, <4>1, LiftBack
      <4> QED
        BY <3>4, <4>2
    <3>10. Run(t)[k-1] = Above(Run(s)[k-2], Run(t)[1].open)
      <4>1. Fine(Run(t)[1])
        BY <2>2 DEF Fine
      <4> HIDE DEF s
      <4> QED
        BY <2>1, <3>4, <3>9, <3>7, <4>1, LiftForward
    <3>11. Run(s)[k-2] \in Left
      <4>1. s \in Seq(Tag) /\ Len(s) = k - 2 /\ k - 2 \in 0..k-2
        BY <2>1, <3>4
      <4> QED
        BY <4>1, RunFacts
    <3> DEFINE o == Run(s)[k-2].open
    <3>12. Run(t)[k] = Nest(Run(t)[k-1], t[k])
      BY <3>4, RunFacts
    <3>13. t[k].kind = "close" /\ o = <<>> /\ t[k].name = name
      <4>1. Fine(Run(t)[k]) /\ t[k] \in Tag /\ name \in STRING
        BY <2>1, <3>4, <3>6 DEF Tag
      <4>2. Run(t)[k-1] = Above(Run(s)[k-2], <<name>>)
        <5>1. Run(t)[1].open = <<name>>
          BY <2>2
        <5> QED
          BY <3>10, <5>1
      <4>3. Fine(Nest(Above(Run(s)[k-2], <<name>>), t[k])) /\ Nest(Above(Run(s)[k-2], <<name>>), t[k]).open = <<>>
        BY <3>5, <3>12, <4>1, <4>2
      <4> HIDE DEF name, s
      <4> QED
        BY <3>11, <4>1, <4>3, ClosesLast
    <3>14. t[k] = [kind |-> "close", name |-> name]
      BY <2>1, <3>4, <3>13 DEF Tag
    <3>15. Ok(SubSeq(t, 2, k-1))
      <4>1. Run(s)[k-2] = NoTags
        BY <3>9, <3>11, <3>13 DEF Left, NoTags, Fine
      <4>2. s = SubSeq(t, 2, k-1) /\ Len(s) = k - 2
        BY <2>1, <3>4
      <4> QED
        BY <4>1, <4>2 DEF Ok
    <3>16. Run(t)[k] = NoTags
      BY <3>4, <3>5, <3>6 DEF Left, Fine, NoTags
    <3>17. Ok(SubSeq(t, k+1, n))
      BY <2>5, <3>4, <3>16, <3>7, RestOk
    <3>18. OkOf[SubSeq(t, 2, k-1)] /\ OkOf[SubSeq(t, k+1, n)]
      BY <2>1, <3>4, <3>15, <3>17 DEF OkOf
    <3> QED
      BY <1>4, <3>4, <3>14, <3>18 DEF Unfold
  <2> QED
    BY <2>4, <2>5
<1>5. t = <<>> \/ t[1].kind \in {"open", "close", "single"}
  BY Parts DEF Tag
<1> QED
  BY <1>1, <1>2, <1>3, <1>4, <1>5

(* So does Balanced: the recursion is over shorter sequences, and is well  *)
(* defined.                                                                *)
LEMMA BalancedUnfolds ==
  ASSUME NEW t \in Seq(Tag)
  PROVE  Balanced[t] <=> Unfold(Balanced, t)
<1> DEFINE Body(f) == [tags \in Seq(Tag) |->
              \/ tags = <<>>
              \/ /\ tags[1].kind = "single"
                 /\ f[Tail(tags)]
              \/ /\ tags[1].kind = "open"
                 /\ \E k \in 2..Len(tags) :
                      /\ tags[k] = [kind |-> "close", name |-> tags[1].name]
                      /\ f[SubSeq(tags, 2, k-1)]
                      /\ f[SubSeq(tags, k+1, Len(tags))]]
<1>1. OkOf = Body(OkOf)
  <2>1. ASSUME NEW tags \in Seq(Tag) PROVE OkOf[tags] = Body(OkOf)[tags]
    <3>1. OkOf[tags] = Ok(tags)
      BY DEF OkOf
    <3>2. Ok(tags) <=> Unfold(OkOf, tags)
      BY OkUnfolds
    <3>3. Body(OkOf)[tags] = Unfold(OkOf, tags)
      BY Zenon DEF Unfold
    <3>4. Ok(tags) \in BOOLEAN /\ Unfold(OkOf, tags) \in BOOLEAN
      BY DEF Ok, Unfold
    <3> HIDE DEF Body
    <3> QED
      BY <3>1, <3>2, <3>3, <3>4
  <2>2. OkOf = [tags \in Seq(Tag) |-> OkOf[tags]] /\ Body(OkOf) = [tags \in Seq(Tag) |-> Body(OkOf)[tags]]
    BY Zenon DEF OkOf
  <2> HIDE DEF Body
  <2> QED
    BY <2>1, <2>2, Zenon
<1>2. Balanced = Body(Balanced)
  <2>1. \E f : f = Body(f)
    BY <1>1, Zenon
  <2> QED
    BY <2>1, Zenon DEF Balanced
<1>3. Balanced[t] = Body(Balanced)[t]
  <2> HIDE DEF Body
  <2> QED
    BY <1>2, Zenon
<1>4. Body(Balanced)[t] = Unfold(Balanced, t)
  BY Zenon DEF Unfold
<1> QED
  BY <1>3, <1>4, Zenon

(* The stack comes to nothing exactly for what is well-formed.             *)
LEMMA OkIsBalanced ==
  ASSUME NEW t \in Seq(Tag)
  PROVE  Balanced[t] <=> Ok(t)
<1> DEFINE S == {i \in Nat : \A u \in Seq(Tag) : Len(u) <= i => (Balanced[u] <=> Ok(u))}
<1>1. 0 \in S
  <2> SUFFICES ASSUME NEW u \in Seq(Tag), Len(u) <= 0 PROVE Balanced[u] <=> Ok(u)
    OBVIOUS
  <2>1. u = <<>>
    BY EmptySeq
  <2>2. Unfold(Balanced, u) /\ Unfold(OkOf, u)
    BY <2>1 DEF Unfold
  <2> QED
    BY <2>2, BalancedUnfolds, OkUnfolds
<1>2. ASSUME NEW i \in Nat, i \in S PROVE i + 1 \in S
  <2> SUFFICES ASSUME NEW u \in Seq(Tag), Len(u) <= i + 1 PROVE Balanced[u] <=> Ok(u)
    OBVIOUS
  <2>1. ASSUME NEW v \in Seq(Tag), Len(v) <= i PROVE Balanced[v] <=> OkOf[v]
    BY <1>2, <2>1 DEF OkOf
  <2>2. CASE u = <<>>
    <3>1. Unfold(Balanced, u) /\ Unfold(OkOf, u)
      BY <2>2 DEF Unfold
    <3> QED
      BY <3>1, BalancedUnfolds, OkUnfolds
  <2>3. CASE u # <<>>
    <3>1. /\ Balanced[Tail(u)] <=> OkOf[Tail(u)]
          /\ \A k \in 2..Len(u) :
               /\ Balanced[SubSeq(u, 2, k-1)] <=> OkOf[SubSeq(u, 2, k-1)]
               /\ Balanced[SubSeq(u, k+1, Len(u))] <=> OkOf[SubSeq(u, k+1, Len(u))]
      <4>1. Len(u) \in Nat \ {0} /\ Tail(u) \in Seq(Tag) /\ Len(Tail(u)) <= i
        BY <2>3, Parts
      <4>2. ASSUME NEW k \in 2..Len(u)
            PROVE  /\ SubSeq(u, 2, k-1) \in Seq(Tag) /\ Len(SubSeq(u, 2, k-1)) <= i
                   /\ SubSeq(u, k+1, Len(u)) \in Seq(Tag) /\ Len(SubSeq(u, k+1, Len(u))) <= i
        BY <2>3, <4>1, Parts
      <4> QED
        BY <2>1, <4>1, <4>2
    <3>2. Unfold(Balanced, u) <=> Unfold(OkOf, u)
      BY <3>1, Zenon DEF Unfold
    <3> QED
      BY <3>2, BalancedUnfolds, OkUnfolds
  <2> QED
    BY <2>2, <2>3
<1>3. Len(t) \in S
  <2>1. Len(t) \in Nat
    BY LenProperties
  <2> HIDE DEF S
  <2> QED
    BY <1>1, <1>2, <2>1, SetInduction
<1> QED
  BY <1>3

(* The run over the first tags is the beginning of the run over all.       *)
LEMMA RunOfPrefix ==
  ASSUME NEW t \in Seq(AnyTag), NEW k \in 0..Len(t), NEW s, s = SubSeq(t, 1, k)
  PROVE  s \in Seq(AnyTag) /\ Len(s) = k /\ Run(s)[k] = Run(t)[k]
<1>1. Len(t) \in Nat /\ k \in Nat /\ k <= Len(t) /\ \A i \in 1..Len(t) : t[i] \in AnyTag
  BY LenProperties, ElementOfSeq
<1>2. s \in Seq(AnyTag) /\ Len(s) = k /\ \A i \in 1..k : s[i] = t[i]
  BY <1>1, SubSeqProperties
<1> DEFINE S == {i \in Nat : i <= k => Run(s)[i] = Run(t)[i]}
<1>3. 0 \in S
  BY <1>2, AnyRunFacts
<1>4. ASSUME NEW i \in Nat, i \in S PROVE i + 1 \in S
  <2> SUFFICES ASSUME i + 1 <= k PROVE Run(s)[i+1] = Run(t)[i+1]
    OBVIOUS
  <2>1. /\ i + 1 \in 1..Len(s) /\ i + 1 \in 1..Len(t) /\ i + 1 \in 1..k /\ (i + 1) - 1 = i
        /\ Run(s)[i] = Run(t)[i]
    BY <1>1, <1>2, <1>4
  <2>2. Run(s)[i+1] = Nest(Run(s)[i], s[i+1]) /\ Run(t)[i+1] = Nest(Run(t)[i], t[i+1])
    BY <1>2, <2>1, AnyRunFacts
  <2> QED
    BY <1>2, <2>1, <2>2
<1>5. k \in S
  <2> HIDE DEF S
  <2> QED
    BY <1>1, <1>3, <1>4, SetInduction
<1> QED
  BY <1>1, <1>2, <1>5

(* The null node is dereferenced at a closing tag after tags that are      *)
(* well-formed, as far as they are ordinary.                               *)
LEMMA CrashAtClosing ==
  ASSUME NEW t \in Seq(AnyTag), Nesting(t).verdict = "crash"
  PROVE  \E k \in DOMAIN t :
            t[k].kind = "close" /\ (SubSeq(t, 1, k-1) \in Seq(Tag) => Balanced[SubSeq(t, 1, k-1)])
<1> DEFINE n == Len(t)
           Z == {k \in 0..n : Run(t)[k].verdict = "crash"}
<1>1. n \in Nat /\ DOMAIN t = 1..n
  BY LenProperties
<1>2. n \in Z
  BY <1>1, AnyRunFacts
<1>3. PICK k \in Z : \A i \in Z : k <= i
  <2>1. Z \in SUBSET Nat /\ Z # {}
    BY <1>1, <1>2
  <2> HIDE DEF Z
  <2> QED
    BY <2>1, LeastNumber
<1>4. k # 0
  <2>1. Run(t)[0].verdict # "crash"
    BY AnyRunFacts DEF NoTags
  <2> QED
    BY <2>1
<1>5. k \in 1..n /\ k - 1 \in 0..n /\ k - 1 \notin Z
  BY <1>1, <1>3, <1>4
<1>6. Run(t)[k] = Nest(Run(t)[k-1], t[k]) /\ Run(t)[k-1] \in Left /\ t[k] \in AnyTag
  BY <1>5, AnyRunFacts, ElementOfSeq
<1>7. t[k].kind = "close" /\ Run(t)[k-1].open = <<>> /\ Run(t)[k-1].verdict = "fine"
  <2>1. Run(t)[k].verdict = "crash" /\ Run(t)[k-1].verdict # "crash"
    BY <1>5
  <2> QED
    BY <1>6, <2>1 DEF Nest, Left, AnyTag
<1>8. Run(t)[k-1] = NoTags
  BY <1>6, <1>7 DEF Left, NoTags
<1> DEFINE s == SubSeq(t, 1, k-1)
<1>9. Len(s) = k - 1 /\ Run(s)[k-1] = NoTags
  <2> HIDE DEF s
  <2> SUFFICES ASSUME s = SubSeq(t, 1, k-1) PROVE Len(s) = k - 1 /\ Run(s)[k-1] = NoTags
    BY DEF s
  <2> QED
    BY <1>5, <1>8, RunOfPrefix
<1>10. s \in Seq(Tag) => Balanced[s]
  <2> HIDE DEF s
  <2>1. Ok(s)
    BY <1>9 DEF Ok
  <2> QED
    BY <2>1, OkIsBalanced
<1> QED
  BY <1>1, <1>5, <1>7, <1>10

(* The tags that are looked at are the first ones, and all of them when    *)
(* they are ordinary.                                                      *)
LEMMA ScannedFacts ==
  ASSUME NEW t \in Seq(AnyTag)
  PROVE  Scanned(t) \in Seq(AnyTag) /\ (t \in Seq(Tag) => Scanned(t) = t)
<1> DEFINE I == {i \in 1..Len(t) : t[i].kind = "empty"}
           empty == IF I # {} THEN Min(I) ELSE 0
<1>1. Scanned(t) = IF empty = 0 THEN t ELSE SubSeq(t, 1, empty - 1)
  BY DEF Scanned, SelectInSeq
<1>2. Len(t) \in Nat
  BY LenProperties
<1>3. CASE I = {}
  BY <1>1, <1>3
<1>4. CASE I # {}
  <2>1. PICK k \in I : \A i \in I : k <= i
    <3>1. I \in SUBSET Nat
      BY <1>2
    <3> HIDE DEF I
    <3> QED
      BY <1>4, <3>1, LeastNumber
  <2>2. Min(I) \in I
    <3> HIDE DEF I
    <3> QED
      BY <2>1 DEF Min
  <2>3. empty \in 1..Len(t) /\ empty - 1 \in 0..Len(t) /\ t[empty].kind = "empty"
    BY <1>2, <1>4, <2>2
  <2>4. Scanned(t) \in Seq(AnyTag)
    <3> HIDE DEF empty
    <3>1. Scanned(t) = SubSeq(t, 1, empty - 1)
      BY <1>1, <1>2, <2>3
    <3> QED
      BY <2>3, <3>1, RunOfPrefix
  <2>5. t \notin Seq(Tag)
    <3> SUFFICES ASSUME t \in Seq(Tag) PROVE FALSE
      OBVIOUS
    <3> HIDE DEF empty
    <3>1. t[empty] \in Tag
      BY <2>3, ElementOfSeq
    <3> QED
      BY <2>3, <3>1 DEF Tag
  <2> QED
    BY <2>4, <2>5
<1> QED
  BY <1>3, <1>4

-----------------------------------------------------------------------------
(* The order of the elements *)

(* The elements of one kind among the first k of the file.                 *)
Kept(file, immutable) ==
  CHOOSE f : f = [k \in 0..Len(file) |->
    IF k = 0 THEN <<>>
    ELSE IF file[k].immutable = immutable THEN Append(f[k-1], file[k])
    ELSE f[k-1]]

(* The recursive function of OfKind exists, and obeys its definition.      *)
LEMMA KeptFacts ==
  ASSUME NEW file \in Seq(Element), NEW b \in BOOLEAN
  PROVE  /\ OfKind(file, b) = Kept(file, b)[Len(file)]
         /\ Kept(file, b)[0] = <<>>
         /\ \A k \in 1..Len(file) :
              Kept(file, b)[k] = IF file[k].immutable = b THEN Append(Kept(file, b)[k-1], file[k])
                                 ELSE Kept(file, b)[k-1]
<1> DEFINE n == Len(file)
           Add(v, k) == IF file[k].immutable = b THEN Append(v, file[k]) ELSE v
           step == [k \in Nat |-> [v \in Seq(Element) |-> IF k + 1 \in 1..n THEN Add(v, k+1) ELSE v]]
<1>1. n \in Nat /\ \A k \in 1..n : file[k] \in Element
  BY LenProperties, ElementOfSeq
<1>2. \A v \in Seq(Element) : \A k \in 1..n : Add(v, k) \in Seq(Element)
  BY <1>1, AppendProperties
<1> HIDE DEF Add
<1>3. step \in [Nat -> [Seq(Element) -> Seq(Element)]]
  BY <1>2
<1>4. PICK f : Loop(f, Seq(Element), <<>>, step)
  <2>1. <<>> \in Seq(Element)
    BY EmptySeq
  <2> HIDE DEF step
  <2> QED
    BY <1>3, <2>1, Iterate
<1>5. f \in [Nat -> Seq(Element)] /\ f[0] = <<>> /\ \A k \in Nat : f[k+1] = step[k][f[k]]
  BY <1>4 DEF Loop
<1>6. ASSUME NEW k \in 1..n PROVE f[k] = Add(f[k-1], k)
  <2>1. k - 1 \in Nat /\ (k - 1) + 1 = k /\ f[k-1] \in Seq(Element)
    BY <1>1, <1>5
  <2>2. f[k] = step[k-1][f[k-1]]
    BY <1>5, <2>1
  <2> QED
    BY <1>1, <2>1, <2>2
<1> DEFINE g == [k \in 0..n |-> f[k]]
<1>7. g = [k \in 0..n |-> IF k = 0 THEN <<>> ELSE Add(g[k-1], k)]
  <2> HIDE DEF step
  <2>1. ASSUME NEW k \in 0..n PROVE g[k] = IF k = 0 THEN <<>> ELSE Add(g[k-1], k)
    <3>1. CASE k = 0
      BY <1>1, <1>5, <3>1
    <3>2. CASE k # 0
      <4>1. k \in 1..n /\ k - 1 \in 0..n
        BY <1>1, <3>2
      <4> QED
        BY <1>6, <3>2, <4>1
    <3> QED
      BY <3>1, <3>2
  <2> QED
    BY <2>1
<1> HIDE DEF g
<1>8. Kept(file, b) = [k \in 0..n |-> IF k = 0 THEN <<>> ELSE Add(Kept(file, b)[k-1], k)]
  BY <1>7, Zenon DEF Kept, Add
<1>9. OfKind(file, b) = Kept(file, b)[Len(file)]
  BY Zenon DEF OfKind, Kept
<1>10. Kept(file, b)[0] = <<>> /\ \A k \in 1..n : Kept(file, b)[k] = Add(Kept(file, b)[k-1], k)
  <2>1. 0 \in 0..n /\ \A k \in 1..n : k \in 0..n /\ k # 0
    BY <1>1
  <2> HIDE DEF n
  <2> QED
    BY <1>8, <2>1
<1> QED
  BY <1>9, <1>10 DEF Add

(* They are those elements, each of them, and once.                        *)
Selects(s, file, b, k) ==
  /\ s \in Seq(Element)
  /\ \A j \in 1..Len(s) : \E l \in 1..k : s[j] = file[l] /\ file[l].immutable = b
  /\ \A l \in 1..k : file[l].immutable = b => \E j \in 1..Len(s) : s[j] = file[l]
  /\ \A i, j \in 1..Len(s) : i # j => s[i].name # s[j].name

(* No two elements have the same name.                                     *)
NamesDiffer(file) == \A k, l \in 1..Len(file) : k # l => file[k].name # file[l].name

(* OfKind selects the elements of its kind.                                *)
LEMMA OfKindSelects ==
  ASSUME NEW file \in Seq(Element), NEW b \in BOOLEAN, NamesDiffer(file)
  PROVE  Selects(OfKind(file, b), file, b, Len(file))
<1> DEFINE n == Len(file)
           K(k) == Kept(file, b)[k]
           S == {k \in Nat : k <= n => Selects(K(k), file, b, k)}
<1>1. n \in Nat /\ \A k \in 1..n : file[k] \in Element
  BY LenProperties, ElementOfSeq
<1>2. 0 \in S
  <2>1. K(0) = <<>>
    BY KeptFacts
  <2>2. Selects(<<>>, file, b, 0)
    BY EmptySeq DEF Selects
  <2> QED
    BY <2>1, <2>2
<1>3. ASSUME NEW k \in Nat, k \in S PROVE k + 1 \in S
  <2> SUFFICES ASSUME k + 1 <= n PROVE Selects(K(k+1), file, b, k+1)
    OBVIOUS
  <2>1. k + 1 \in 1..n /\ (k + 1) - 1 = k /\ \A l \in 1..k+1 : l \in 1..k \/ l = k+1
    BY <1>1
  <2>2. Selects(K(k), file, b, k)
    BY <1>1, <1>3
  <2>3. K(k+1) = IF file[k+1].immutable = b THEN Append(K(k), file[k+1]) ELSE K(k)
    BY <2>1, KeptFacts
  <2> HIDE DEF K
  <2>4. CASE file[k+1].immutable # b
    <3>1. K(k+1) = K(k)
      BY <2>3, <2>4
    <3>2. \A l \in 1..k : l \in 1..k+1
      OBVIOUS
    <3>3. \A j \in 1..Len(K(k)) : \E l \in 1..k+1 : K(k)[j] = file[l] /\ file[l].immutable = b
      BY <2>2, <3>2 DEF Selects
    <3>4. \A l \in 1..k+1 : file[l].immutable = b => \E j \in 1..Len(K(k)) : K(k)[j] = file[l]
      BY <2>1, <2>2, <2>4 DEF Selects
    <3> QED
      BY <2>2, <3>1, <3>3, <3>4 DEF Selects
  <2>5. CASE file[k+1].immutable = b
    <3> DEFINE s == K(k)
               u == Append(s, file[k+1])
               m == Len(s)
    <3>1. s \in Seq(Element) /\ file[k+1] \in Element /\ m \in Nat
      BY <1>1, <2>1, <2>2, LenProperties DEF Selects
    <3>2. /\ u \in Seq(Element) /\ Len(u) = m + 1 /\ u[m+1] = file[k+1]
          /\ \A i \in 1..m : u[i] = s[i]
      BY <3>1, AppendProperties
    <3>3. \A j \in 1..m+1 : j \in 1..m \/ j = m + 1
      BY <3>1
    <3>4. \A j \in 1..m+1 : \E l \in 1..k+1 : u[j] = file[l] /\ file[l].immutable = b
      <4> SUFFICES ASSUME NEW j \in 1..m+1 PROVE \E l \in 1..k+1 : u[j] = file[l] /\ file[l].immutable = b
        OBVIOUS
      <4>1. CASE j = m + 1
        BY <2>1, <2>5, <3>2, <4>1
      <4>2. CASE j \in 1..m
        <5>1. PICK l \in 1..k : s[j] = file[l] /\ file[l].immutable = b
          BY <2>2, <4>2 DEF Selects
        <5> QED
          BY <3>2, <4>2, <5>1
      <4> QED
        BY <3>3, <4>1, <4>2
    <3>5. \A l \in 1..k+1 : file[l].immutable = b => \E j \in 1..m+1 : u[j] = file[l]
      <4> SUFFICES ASSUME NEW l \in 1..k+1, file[l].immutable = b PROVE \E j \in 1..m+1 : u[j] = file[l]
        OBVIOUS
      <4>1. CASE l = k + 1
        BY <3>1, <3>2, <4>1
      <4>2. CASE l \in 1..k
        <5>1. PICK j \in 1..m : s[j] = file[l]
          BY <2>2, <4>2 DEF Selects
        <5>2. j \in 1..m+1 /\ u[j] = file[l]
          BY <3>1, <3>2, <5>1
        <5> QED
          BY <5>2
      <4> QED
        BY <2>1, <4>1, <4>2
    <3>6. ASSUME NEW j \in 1..m PROVE s[j].name # file[k+1].name
      <4>1. PICK l \in 1..k : s[j] = file[l]
        BY <2>2 DEF Selects
      <4>2. l \in 1..n /\ l # k + 1
        BY <1>1, <2>1
      <4> QED
        BY <2>1, <4>1, <4>2 DEF NamesDiffer
    <3>7. \A i, j \in 1..m+1 : i # j => u[i].name # u[j].name
      <4> SUFFICES ASSUME NEW i \in 1..m+1, NEW j \in 1..m+1, i # j PROVE u[i].name # u[j].name
        OBVIOUS
      <4>1. CASE i \in 1..m /\ j \in 1..m
        BY <2>2, <3>2, <4>1 DEF Selects
      <4>2. CASE i = m + 1 /\ j \in 1..m
        BY <3>2, <3>6, <4>2
      <4>3. CASE i \in 1..m /\ j = m + 1
        BY <3>2, <3>6, <4>3
      <4> QED
        BY <3>3, <4>1, <4>2, <4>3
    <3>8. Selects(u, file, b, k+1)
      <4> HIDE DEF u, s, m
      <4> QED
        BY <3>2, <3>4, <3>5, <3>7 DEF Selects
    <3> QED
      BY <2>3, <2>5, <3>8
  <2> QED
    BY <2>4, <2>5
<1>4. n \in S
  <2> HIDE DEF S
  <2> QED
    BY <1>1, <1>2, <1>3, SetInduction
<1>5. OfKind(file, b) = K(n)
  BY KeptFacts
<1> QED
  BY <1>4, <1>5

(* The order: the elements of the file, each once, and the immutable ones  *)
(* before the others.                                                      *)
LEMMA OrderFacts ==
  ASSUME NEW file \in Seq(Element), NamesDiffer(file)
  PROVE  /\ ParseOrder(file) \in Seq(Element)
         /\ Len(ParseOrder(file)) \in Nat
         /\ DOMAIN ParseOrder(file) = 1..Len(ParseOrder(file))
         /\ \A i \in 1..Len(ParseOrder(file)) : \E k \in 1..Len(file) : ParseOrder(file)[i] = file[k]
         /\ \A k \in 1..Len(file) : \E i \in 1..Len(ParseOrder(file)) : ParseOrder(file)[i] = file[k]
         /\ \A i, j \in 1..Len(ParseOrder(file)) :
              /\ i # j => ParseOrder(file)[i].name # ParseOrder(file)[j].name
              /\ i < j /\ ~ParseOrder(file)[i].immutable => ~ParseOrder(file)[j].immutable
<1> DEFINE n == Len(file)
           s == OfKind(file, TRUE)
           u == OfKind(file, FALSE)
           o == ParseOrder(file)
           a == Len(s)
           c == Len(u)
<1>1. Selects(s, file, TRUE, n) /\ Selects(u, file, FALSE, n)
  BY OfKindSelects
<1>2. n \in Nat /\ \A k \in 1..n : file[k] \in Element /\ file[k].immutable \in BOOLEAN
  <2>1. n \in Nat /\ \A k \in 1..n : file[k] \in Element
    BY LenProperties, ElementOfSeq
  <2>2. \A e \in Element : e.immutable \in BOOLEAN
    BY DEF Element
  <2> QED
    BY <2>1, <2>2
<1>3. s \in Seq(Element) /\ u \in Seq(Element) /\ a \in Nat /\ c \in Nat
  BY <1>1, LenProperties DEF Selects
<1>4. /\ o \in Seq(Element) /\ Len(o) = a + c
      /\ \A i \in 1..a+c : o[i] = IF i <= a THEN s[i] ELSE u[i-a]
  BY <1>3, ConcatProperties DEF ParseOrder
<1>5. DOMAIN o = 1..Len(o)
  BY <1>4, LenProperties
<1> HIDE DEF s, u, o
<1>6. ASSUME NEW i \in 1..a+c
      PROVE  \/ i \in 1..a /\ o[i] = s[i]
             \/ i - a \in 1..c /\ o[i] = u[i-a] /\ i > a
  BY <1>3, <1>4
<1>7. ASSUME NEW i \in 1..a+c
      PROVE  \E k \in 1..n : o[i] = file[k] /\ (file[k].immutable <=> i <= a)
  <2>1. CASE i \in 1..a /\ o[i] = s[i]
    <3>1. PICK k \in 1..n : s[i] = file[k] /\ file[k].immutable = TRUE
      BY <1>1, <2>1 DEF Selects
    <3> QED
      BY <2>1, <3>1
  <2>2. CASE i - a \in 1..c /\ o[i] = u[i-a] /\ i > a
    <3>1. PICK k \in 1..n : u[i-a] = file[k] /\ file[k].immutable = FALSE
      BY <1>1, <2>2 DEF Selects
    <3>2. ~ (i <= a)
      BY <1>3, <2>2
    <3> QED
      BY <2>2, <3>1, <3>2
  <2> QED
    BY <1>6, <2>1, <2>2
<1>8. ASSUME NEW k \in 1..n PROVE \E i \in 1..a+c : o[i] = file[k]
  <2>1. CASE file[k].immutable = TRUE
    <3>1. PICK i \in 1..a : s[i] = file[k]
      BY <1>1, <2>1 DEF Selects
    <3>2. i \in 1..a+c /\ o[i] = s[i]
      BY <1>3, <1>4
    <3> QED
      BY <3>1, <3>2
  <2>2. CASE file[k].immutable = FALSE
    <3>1. PICK j \in 1..c : u[j] = file[k]
      BY <1>1, <2>2 DEF Selects
    <3>2. j + a \in 1..a+c /\ (j + a) - a = j /\ ~ (j + a <= a)
      BY <1>3
    <3>3. o[j + a] = u[j]
      BY <1>4, <3>2
    <3> QED
      BY <3>1, <3>2, <3>3
  <2> QED
    BY <1>2, <2>1, <2>2
<1>9. ASSUME NEW i \in 1..a+c, NEW j \in 1..a+c, i # j PROVE o[i].name # o[j].name
  <2>1. /\ \A x, y \in 1..a : x # y => s[x].name # s[y].name
        /\ \A x, y \in 1..c : x # y => u[x].name # u[y].name
    BY <1>1 DEF Selects
  <2>2. CASE i <= a /\ j <= a
    <3>1. i \in 1..a /\ j \in 1..a /\ o[i] = s[i] /\ o[j] = s[j]
      BY <1>3, <1>6, <2>2
    <3>2. s[i].name # s[j].name
      BY <1>9, <2>1, <3>1
    <3> QED
      BY <3>1, <3>2
  <2>3. CASE i > a /\ j > a
    <3>1. i - a \in 1..c /\ j - a \in 1..c /\ o[i] = u[i-a] /\ o[j] = u[j-a]
      BY <1>3, <1>6, <2>3
    <3>2. i - a # j - a
      BY <1>3, <1>9
    <3>3. u[i-a].name # u[j-a].name
      BY <2>1, <3>1, <3>2
    <3> QED
      BY <3>1, <3>3
  <2>4. CASE ~ (i <= a <=> j <= a)
    <3>1. PICK k \in 1..n : o[i] = file[k] /\ (file[k].immutable <=> i <= a)
      BY <1>7
    <3>2. PICK l \in 1..n : o[j] = file[l] /\ (file[l].immutable <=> j <= a)
      BY <1>7
    <3>3. k # l
      BY <2>4, <3>1, <3>2
    <3> QED
      BY <3>1, <3>2, <3>3 DEF NamesDiffer
  <2> QED
    BY <1>3, <2>2, <2>3, <2>4
<1>10. ASSUME NEW i \in 1..a+c, NEW j \in 1..a+c, i < j, ~o[i].immutable PROVE ~o[j].immutable
  <2>1. PICK k \in 1..n : o[i] = file[k] /\ (file[k].immutable <=> i <= a)
    BY <1>7
  <2>2. PICK l \in 1..n : o[j] = file[l] /\ (file[l].immutable <=> j <= a)
    BY <1>7
  <2>3. ~ (i <= a) => ~ (j <= a)
    BY <1>3, <1>10
  <2> QED
    BY <1>10, <2>1, <2>2, <2>3
<1> HIDE DEF a, c, n
<1>11. /\ o \in Seq(Element) /\ Len(o) \in Nat /\ DOMAIN o = 1..Len(o)
       /\ \A i \in 1..Len(o) : \E k \in 1..n : o[i] = file[k]
       /\ \A k \in 1..n : \E i \in 1..Len(o) : o[i] = file[k]
       /\ \A i, j \in 1..Len(o) :
              /\ i # j => o[i].name # o[j].name
              /\ i < j /\ ~o[i].immutable => ~o[j].immutable
  <2>1. Len(o) \in Nat
    BY <1>4, LenProperties
  <2>2. \A i \in 1..Len(o) : \E k \in 1..n : o[i] = file[k]
    BY <1>4, <1>7
  <2>3. \A k \in 1..n : \E i \in 1..Len(o) : o[i] = file[k]
    BY <1>4, <1>8
  <2>4. \A i, j \in 1..Len(o) :
              /\ i # j => o[i].name # o[j].name
              /\ i < j /\ ~o[i].immutable => ~o[j].immutable
    BY <1>4, <1>9, <1>10
  <2> QED
    BY <1>4, <1>5, <2>1, <2>2, <2>3, <2>4
<1> QED
  BY <1>11 DEF o, n

-----------------------------------------------------------------------------
(* Checks *)

(* What the parser reads of an element is there when its attributes have   *)
(* been checked.                                                           *)
LEMMA CheckedIsRead ==
  ASSUME NEW e, AttributesOk(e)
  PROVE  ~ReadsMissing(e)
BY DEF AttributesOk, ReadsMissing

(* What ConfigAssumption says of the file that is found.                   *)
LEMMA ConfigFacts ==
  ASSUME config \in Configs
  PROVE  /\ config.tags \in Seq(AnyTag) /\ config.streams \in Seq(Element)
         /\ config.dirs \in Seq({"absent", "open", "locked"})
         /\ config.dirs # <<>> /\ config.dirs[1] # "absent"
BY ConfigAssumption

(* The stages after the checks.                                            *)
Checked == {"mesh", "setup", "create", "alarms", "fields", "accepted"}
Parsing == {"create", "alarms", "fields", "accepted"}

(* The mesh stream is in the file, as an immutable one.                    *)
MeshThere == \E k \in Named(config.streams, MeshStream) : config.streams[k].immutable

(* What the parser crashes on at the element it is at.                     *)
UncheckedThere ==
  \/ Stray(Here.input) \/ Stray(Here.output)
  \/ /\ ~Here.immutable
     /\ \/ Here.unnamed # {}
        \/ \E f \in ToSet(config.streams) : f.name \in Here.subs /\ UnnamedField(f)

(* While the file is parsed, at is past 0, so a failure tells where it was *)
(* noticed.                                                                *)
CheckInv ==
  /\ config \in Configs
  /\ phase \in Phases
  /\ phase \in {"check", "mesh", "setup"} => at = 0
  /\ phase \in Parsing => at \in Nat \ {0}
  /\ phase \in Checked => Nesting(Scanned(config.tags)) = NoTags /\ StreamsOk(config.streams)
  /\ phase = "fields" => ~Here.immutable
  /\ phase = "failed" => \/ at \in Nat \ {0}
                         \/ Nesting(Scanned(config.tags)) # NoTags
                         \/ ~StreamsOk(config.streams)
                         \/ ~MeshThere
  /\ phase = "crashed" => \/ at = 0 /\ Nesting(Scanned(config.tags)).verdict = "crash"
                          \/ at # 0 /\ UncheckedThere

(* The order in which a file that was checked is parsed.                   *)
LEMMA CheckedOrder ==
  ASSUME config \in Configs, StreamsOk(config.streams)
  PROVE  /\ NamesDiffer(config.streams)
         /\ Order \in Seq(Element) /\ Len(Order) \in Nat /\ DOMAIN Order = 1..Len(Order)
         /\ \A i \in 1..Len(Order) :
              /\ Order[i] \in Element
              /\ AttributesOk(Order[i])
              /\ \E k \in 1..Len(config.streams) : Order[i] = config.streams[k]
         /\ \A k \in 1..Len(config.streams) : \E i \in 1..Len(Order) : Order[i] = config.streams[k]
         /\ \A i, j \in 1..Len(Order) :
              /\ i # j => Order[i].name # Order[j].name
              /\ i < j /\ ~Order[i].immutable => ~Order[j].immutable
<1> DEFINE file == config.streams
<1>1. file \in Seq(Element) /\ DOMAIN file = 1..Len(file)
  BY ConfigFacts, LenProperties
<1>2. NamesDiffer(file)
  BY <1>1 DEF StreamsOk, Unique, NamesDiffer
<1>3. \A k \in 1..Len(file) : AttributesOk(file[k])
  BY <1>1 DEF StreamsOk
<1> HIDE DEF file
<1>4. /\ Order \in Seq(Element) /\ Len(Order) \in Nat /\ DOMAIN Order = 1..Len(Order)
      /\ \A i \in 1..Len(Order) : \E k \in 1..Len(file) : Order[i] = file[k]
      /\ \A k \in 1..Len(file) : \E i \in 1..Len(Order) : Order[i] = file[k]
      /\ \A i, j \in 1..Len(Order) :
           /\ i # j => Order[i].name # Order[j].name
           /\ i < j /\ ~Order[i].immutable => ~Order[j].immutable
  BY <1>1, <1>2, OrderFacts DEF Order, file
<1>5. \A i \in 1..Len(Order) : Order[i] \in Element
  BY <1>4, ElementOfSeq
<1>6. \A i \in 1..Len(Order) : AttributesOk(Order[i])
  BY <1>3, <1>4
<1> QED
  BY <1>2, <1>4, <1>5, <1>6 DEF file

(* The invariant of the checks is inductive.                               *)
LEMMA CheckInductive ==
  (Init => CheckInv) /\ (CheckInv /\ [Next]_vars => CheckInv')
<1>1. Init => CheckInv
  BY DEF Init, CheckInv, Phases, Checked, Parsing
<1>2. CheckInv /\ [Next]_vars => CheckInv'
  <2> SUFFICES ASSUME CheckInv, [Next]_vars PROVE CheckInv'
    OBVIOUS
  <2> USE DEF CheckInv, Phases, Checked, Parsing
  <2>1. CASE Check
    <3>1. phase = "check" /\ UNCHANGED <<config, dirs, at, mgr>>
      BY <2>1 DEF Check
    <3>2. \/ phase' = "crashed" /\ Nesting(Scanned(config.tags)).verdict = "crash"
          \/ phase' = "mesh" /\ Nesting(Scanned(config.tags)) = NoTags /\ StreamsOk(config.streams)
          \/ phase' = "failed" /\ ~(Nesting(Scanned(config.tags)) = NoTags /\ StreamsOk(config.streams))
      BY <2>1 DEF Check
    <3> QED
      BY <3>1, <3>2
  <2>2. CASE FindMesh
    <3>1. phase = "mesh" /\ UNCHANGED <<config, dirs, at, mgr>>
      BY <2>2 DEF FindMesh
    <3>2. phase' = "setup" \/ (phase' = "failed" /\ ~MeshThere)
      BY <2>2 DEF FindMesh, MeshThere
    <3>3. MeshThere' <=> MeshThere
      BY <3>1 DEF MeshThere
    <3> QED
      BY <3>1, <3>2, <3>3
  <2>3. CASE SetUpImmutable
    BY <2>3 DEF SetUpImmutable
  <2>4. CASE Create
    <3>1. phase = "create" /\ at <= Len(Order) /\ UNCHANGED <<config, at>>
      BY <2>4 DEF Create
    <3>2. ~ReadsMissing(Here)
      <4>1. at \in 1..Len(Order)
        BY <3>1, CheckedOrder
      <4> QED
        BY <3>1, <4>1, CheckedOrder, CheckedIsRead DEF Here
    <3>3. \/ phase' = "failed" \/ phase' = "alarms"
          \/ phase' = "crashed" /\ (Stray(Here.input) \/ Stray(Here.output))
      BY <2>4, <3>2 DEF Create, WritesAstray
    <3>4. UncheckedThere' <=> UncheckedThere
      BY <3>1 DEF UncheckedThere, Here, Order
    <3> QED
      BY <3>1, <3>3, <3>4 DEF UncheckedThere
  <2>5. CASE AddAlarms
    <3>1. phase = "alarms" /\ UNCHANGED config /\ (at' = at \/ at' = at + 1)
      BY <2>5 DEF AddAlarms
    <3>2. phase' \in {"failed", "create"} \/ (phase' = "fields" /\ ~Here.immutable /\ at' = at)
      BY <2>5 DEF AddAlarms
    <3>3. at' = at => Here' = Here
      BY <3>1 DEF Here, Order
    <3> QED
      BY <3>1, <3>2, <3>3
  <2>6. CASE AddFields
    <3>1. phase = "fields" /\ UNCHANGED config /\ ~Here.immutable
      BY <2>6 DEF AddFields
    <3>2. \/ phase' = "failed" /\ at' = at
          \/ phase' = "create" /\ at' = at + 1
          \/ /\ phase' = "crashed" /\ at' = at
             /\ \E k \in 1..3 : Groups(mgr, Here, config.streams)[k].unnamed
      BY <2>6 DEF AddFields
    <3>3. ASSUME NEW k \in 1..3, Groups(mgr, Here, config.streams)[k].unnamed PROVE UncheckedThere
      <4> DEFINE groups == Groups(mgr, Here, config.streams)
                 included == \E f \in ToSet(config.streams) :
                               /\ ~f.immutable /\ f.name \in Here.subs
                               /\ FromFile(mgr, Here, f.name)
                               /\ UnnamedField(f)
      <4>1. /\ groups[1].unnamed <=> FALSE
            /\ groups[2].unnamed <=> UnnamedField(Here)
            /\ groups[3].unnamed <=> "stream" \in Here.unnamed \/ included
        BY DEF Groups
      <4>2. UnnamedField(Here) => Here.unnamed # {}
        BY DEF UnnamedField
      <4>3. k = 1 \/ k = 2 \/ k = 3
        OBVIOUS
      <4> HIDE DEF groups
      <4>4. groups[k].unnamed
        BY <3>3 DEF groups
      <4> QED
        BY <3>1, <4>1, <4>2, <4>3, <4>4 DEF UncheckedThere
    <3>4. at' = at => (UncheckedThere' <=> UncheckedThere)
      BY <3>1 DEF UncheckedThere, Here, Order
    <3> QED
      BY <3>1, <3>2, <3>3, <3>4
  <2>7. CASE Accept
    BY <2>7 DEF Accept
  <2>8. CASE UNCHANGED vars
    <3>1. (UncheckedThere' <=> UncheckedThere) /\ (Here' = Here) /\ (MeshThere' <=> MeshThere)
      BY <2>8 DEF vars, MeshThere, UncheckedThere, Here, Order
    <3> QED
      BY <2>8, <3>1 DEF vars
  <2> QED
    BY <2>1, <2>2, <2>3, <2>4, <2>5, <2>6, <2>7, <2>8 DEF Next
<1> QED
  BY <1>1, <1>2

(* Where all tags are ordinary, the check by a stack agrees with the       *)
(* definition of well-formed XML (xml_syntax_check): the rest of the       *)
(* program is reached with balanced tags only, and balanced tags are not   *)
(* what a file is refused for.                                             *)
THEOREM NestingIsBalanced == Spec => []NestingIsBalance
<1>1. CheckInv => NestingIsBalance
  <2> SUFFICES ASSUME CheckInv PROVE NestingIsBalance
    OBVIOUS
  <2> DEFINE tags == config.tags
             seen == Scanned(tags)
  <2>1. tags \in Seq(AnyTag) /\ (tags \in Seq(Tag) => seen = tags)
    BY ConfigFacts, ScannedFacts DEF CheckInv
  <2>2. seen \in Seq(Tag) => (Balanced[seen] <=> Nesting(seen) = NoTags)
    BY OkIsBalanced, RunFacts DEF Ok
  <2>3. (MeshStream \notin {config.streams[k].name : k \in
             {j \in DOMAIN config.streams : config.streams[j].immutable}}) <=> ~MeshThere
    BY DEF MeshThere, Named
  <2>4. phase \in Phases \ {"check", "failed", "crashed"} /\ seen \in Seq(Tag) => Balanced[seen]
    BY <2>2 DEF CheckInv, Checked, Phases
  <2>5. phase = "failed" /\ at = 0 /\ tags \in Seq(Tag) /\ Balanced[tags] =>
          ~StreamsOk(config.streams) \/ ~MeshThere
    BY <2>1, <2>2 DEF CheckInv
  <2> QED
    BY <2>3, <2>4, <2>5 DEF NestingIsBalance
<1> QED
  BY <1>1, CheckInductive, PTL DEF Spec

(* The parser repeats none of the checks, and the attributes of the        *)
(* streams that it reads are all there: it crashes only on a closing tag   *)
(* where nothing is open, a reference without its second colon, and a      *)
(* child without a name.                                                   *)
THEOREM OnlyUncheckedCrashes == Spec => []AttributesAreThere
<1>1. CheckInv => AttributesAreThere
  <2> SUFFICES ASSUME CheckInv, phase = "crashed" PROVE AttributesAreThere
    BY DEF AttributesAreThere
  <2>1. CASE at = 0
    <3>1. Scanned(config.tags) \in Seq(AnyTag)
      BY ConfigFacts, ScannedFacts DEF CheckInv
    <3>2. Nesting(Scanned(config.tags)).verdict = "crash"
      BY <2>1 DEF CheckInv
    <3> DEFINE seen == Scanned(config.tags)
    <3>3. \E k \in DOMAIN seen :
            seen[k].kind = "close" /\ (SubSeq(seen, 1, k-1) \in Seq(Tag) => Balanced[SubSeq(seen, 1, k-1)])
      <4> HIDE DEF seen
      <4> SUFFICES ASSUME seen \in Seq(AnyTag), Nesting(seen).verdict = "crash"
                   PROVE  \E k \in DOMAIN seen :
                            /\ seen[k].kind = "close"
                            /\ SubSeq(seen, 1, k-1) \in Seq(Tag) => Balanced[SubSeq(seen, 1, k-1)]
        BY <3>1, <3>2 DEF seen
      <4> QED
        BY CrashAtClosing
    <3> QED
      BY <2>1, <3>3 DEF AttributesAreThere
  <2>2. CASE at # 0
    BY <2>2 DEF CheckInv, UncheckedThere, AttributesAreThere
  <2> QED
    BY <2>1, <2>2
<1> QED
  BY <1>1, CheckInductive, PTL DEF Spec

-----------------------------------------------------------------------------
(* Intervals *)

(* The parts of an element that the intervals are made of.                 *)
LEMMA ElementFacts ==
  ASSUME NEW e \in Element
  PROVE  /\ e.immutable \in BOOLEAN /\ e.name \in STRING /\ e.type \in SUBSET {"input", "output"}
         /\ e.input \in Interval /\ e.output \in Interval
         /\ e.fint \in {<<>>} \cup {<<w>> : w \in Times \cup {"none", "input_interval", "output_interval"}}
         /\ e.file \in {"none", "there", "gone"}
BY DEF Element

(* An interval is a word at most, or a reference, whole or not.            *)
LEMMA IntervalCases ==
  ASSUME NEW iv \in Interval
  PROVE  \/ iv = Absent
         \/ \E w \in Times \cup {"none", "initial_only", "final_only"} : iv = <<w>>
         \/ Len(iv) = 2
         \/ /\ Len(iv) = 3 /\ iv[1] = "stream" /\ iv[2] \in STRING \ Words
            /\ iv = <<iv[1], iv[2], iv[3]>>
BY DEF Interval, Absent

(* An interval that can be expanded becomes what it stands for.            *)
LEMMA ExtractIsValue ==
  ASSUME NEW file \in Seq(Element), NamesDiffer(file), NEW e, NEW attr, NEW iv \in Interval,
         Extract(iv, attr, e, file) # Bad
  PROVE  /\ Extract(iv, attr, e, file) = Value(iv, file)
         /\ Len(iv) = 3 => iv[3] \in {"input_interval", "output_interval"}
<1>1. CASE Len(iv) # 3
  BY <1>1 DEF Extract, Value, Stray
<1>2. CASE Len(iv) = 3
  <2>1. iv[1] = "stream"
    BY <1>2, IntervalCases DEF Absent
  <2> DEFINE other == Named(file, iv[2])
             p == CHOOSE k \in other : TRUE
             o == file[p]
             f == CHOOSE x \in ToSet(file) : x.name = iv[2]
  <2>2. /\ iv[3] \in {"input_interval", "output_interval"} /\ other # {}
        /\ Extract(iv, attr, e, file) = IF iv[3] = "input_interval" THEN o.input ELSE o.output
    BY <1>2, <2>1 DEF Extract, Stray
  <2>3. p \in other
    BY <2>2
  <2>4. p \in 1..Len(file) /\ o.name = iv[2]
    BY <2>3, LenProperties DEF Named
  <2>5. o \in ToSet(file) /\ \A x \in ToSet(file) : x.name = iv[2] => x = o
    <3>1. DOMAIN file = 1..Len(file)
      BY LenProperties
    <3>2. \A x \in ToSet(file) : \E k \in 1..Len(file) : x = file[k]
      BY <3>1 DEF ToSet
    <3>3. o \in ToSet(file)
      BY <2>4, <3>1 DEF ToSet
    <3> HIDE DEF o
    <3>4. \A k \in 1..Len(file) : file[k].name = iv[2] => k = p
      BY <2>4 DEF NamesDiffer, o
    <3> QED
      BY <3>2, <3>3, <3>4 DEF o
  <2>6. f = o
    <3> HIDE DEF o
    <3> QED
      BY <2>4, <2>5
  <2>7. Value(iv, file) = IF iv[3] = "input_interval" THEN f.input ELSE f.output
    BY <1>2 DEF Value
  <2> HIDE DEF f, o
  <2> QED
    BY <2>2, <2>6, <2>7
<1> QED
  BY <1>1, <1>2

(* An interval that is there, and can be expanded, is plain exactly when   *)
(* it is a time or refers to another interval.                             *)
LEMMA PlainInterval ==
  ASSUME NEW file \in Seq(Element), NamesDiffer(file), NEW e, NEW attr, NEW iv \in Interval,
         iv # Absent, Extract(iv, attr, e, file) # Bad
  PROVE  /\ Plain(iv) => IsTime(Value(iv, file)) \/ Len(iv) = 3
         /\ ~Plain(iv) => ~IsTime(Value(iv, file))
<1>1. CASE \E w \in Times \cup {"none", "initial_only", "final_only"} : iv = <<w>>
  <2>1. PICK w \in Times \cup {"none", "initial_only", "final_only"} : iv = <<w>>
    BY <1>1
  <2>2. Value(iv, file) = iv /\ Len(iv) = 1 /\ iv[1] = w /\ DOMAIN iv = {1}
    BY <2>1 DEF Value
  <2>3. IsTime(Value(iv, file)) <=> w \in Times
    BY <2>2 DEF IsTime
  <2>4. Plain(iv) <=> w \notin {"none", "initial_only", "final_only"}
    BY <2>2 DEF Plain, Mentions
  <2>5. w \in Times => w \notin {"none", "initial_only", "final_only"}
    BY ConfigAssumption DEF Words
  <2> QED
    BY <2>3, <2>4, <2>5
<1>2. CASE Len(iv) = 3
  <2>1. iv[1] = "stream" /\ iv[2] \notin Words /\ DOMAIN iv = 1..3
    <3>1. iv[1] = "stream" /\ iv[2] \notin Words /\ iv = <<iv[1], iv[2], iv[3]>>
      <4>1. \/ iv = Absent
            \/ \E w \in Times \cup {"none", "initial_only", "final_only"} : iv = <<w>>
            \/ Len(iv) = 2
            \/ /\ Len(iv) = 3 /\ iv[1] = "stream" /\ iv[2] \in STRING \ Words
               /\ iv = <<iv[1], iv[2], iv[3]>>
        BY IntervalCases
      <4>2. ~\E w \in Times \cup {"none", "initial_only", "final_only"} : iv = <<w>>
        BY <1>2
      <4>3. Len(iv) # 2
        BY <1>2
      <4> QED
        BY <4>1, <4>2, <4>3, Zenon
    <3>2. DOMAIN <<iv[1], iv[2], iv[3]>> = 1..3
      OBVIOUS
    <3> QED
      BY <3>1, <3>2, Zenon
  <2>2. iv[3] \in {"input_interval", "output_interval"}
    BY <1>2, ExtractIsValue
  <2>3. \A k \in 1..3 : k = 1 \/ k = 2 \/ k = 3
    OBVIOUS
  <2>4. Plain(iv)
    BY <2>1, <2>2, <2>3 DEF Plain, Mentions, Words
  <2> QED
    BY <1>2, <2>4
<1>3. Len(iv) # 2
  BY DEF Extract, Stray
<1> QED
  BY <1>1, <1>2, <1>3, IntervalCases

(* What is taken from an interval for the names of the files.              *)
Taken(iv, attr, e, file) == IF Plain(iv) THEN Extract(iv, attr, e, file) ELSE No

(* It is the interval that was asked for, or what was borrowed is no time. *)
LEMMA TakenIsWanted ==
  ASSUME NEW file \in Seq(Element), NamesDiffer(file), NEW e \in Element, NEW attr, NEW iv \in Interval,
         iv # Absent, Extract(iv, attr, e, file) # Bad,
         iv \in {e.input, e.output}, NEW other
  PROVE  /\ \/ Taken(iv, attr, e, file) \in BorrowedNoTime(e, file)
            \/ Taken(iv, attr, e, file) =
                 IF IsTime(Value(iv, file)) THEN Value(iv, file) ELSE No
         /\ Plain(iv) =>
              \/ Taken(iv, attr, e, file) \in BorrowedNoTime(e, file)
              \/ /\ IsTime(Value(iv, file))
                 /\ Taken(iv, attr, e, file) = Value(iv, file)
         /\ ~Plain(iv) => ~IsTime(Value(iv, file))
<1>1. CASE ~Plain(iv)
  BY <1>1, PlainInterval DEF Taken
<1>2. CASE Plain(iv)
  <2>1. Taken(iv, attr, e, file) = Value(iv, file)
    BY <1>2, ExtractIsValue DEF Taken
  <2>2. CASE IsTime(Value(iv, file))
    BY <1>2, <2>1, <2>2
  <2>3. CASE ~IsTime(Value(iv, file))
    <3>1. Len(iv) = 3
      BY <1>2, <2>3, PlainInterval
    <3>2. Value(iv, file) \in BorrowedNoTime(e, file)
      BY <2>3, <3>1 DEF BorrowedNoTime
    <3> QED
      BY <2>1, <2>3, <3>2
  <2> QED
    BY <2>2, <2>3
<1> QED
  BY <1>1, <1>2

(* The file interval is the documented one, but for a borrowed interval    *)
(* that is not a time.                                                     *)
LEMMA FileIntervalIsWanted ==
  ASSUME NEW file \in Seq(Element), NamesDiffer(file), NEW e \in Element, AttributesOk(e),
         InputOf(e, file) # Bad, OutputOf(e, file) # Bad
  PROVE  FileInterval(e, file) \in BorrowedNoTime(e, file) \cup {WantedInterval(e, file)}
<1> DEFINE in == Taken(e.input, "input_interval", e, file)
           out == Taken(e.output, "output_interval", e, file)
           vi == Value(e.input, file)
           vo == Value(e.output, file)
           B == BorrowedNoTime(e, file)
           W == WantedInterval(e, file)
           F == FileInterval(e, file)
           reads == "input" \in e.type /\ (Plain(e.input) \/ "output" \notin e.type)
<1>1. /\ e.type \in SUBSET {"input", "output"} /\ e.input \in Interval /\ e.output \in Interval
      /\ e.fint \in {<<>>} \cup {<<w>> : w \in Times \cup {"none", "input_interval", "output_interval"}}
  BY ElementFacts
<1>2. ASSUME e.input # Absent
      PROVE  /\ in \in B \/ in = IF IsTime(vi) THEN vi ELSE No
             /\ Plain(e.input) => in \in B \/ (IsTime(vi) /\ in = vi)
             /\ ~Plain(e.input) => ~IsTime(vi)
  BY <1>1, <1>2, TakenIsWanted DEF InputOf
<1>3. ASSUME e.output # Absent
      PROVE  out \in B \/ out = IF IsTime(vo) THEN vo ELSE No
  BY <1>1, <1>3, TakenIsWanted DEF OutputOf
<1>4. CASE e.fint = Absent
  <2>1. \A v : ~Mentions(e.fint, v)
    BY <1>4 DEF Mentions, Absent
  <2>2. /\ {"input", "output"} # {"input"} /\ {"input", "output"} # {"output"} /\ {"input", "output"} # {}
        /\ {"input"} # {"output"} /\ {"input"} # {} /\ {"output"} # {}
    <3>1. /\ "input" \in {"input", "output"} /\ "output" \in {"input", "output"}
          /\ "input" \in {"input"} /\ "output" \notin {"input"}
          /\ "output" \in {"output"} /\ "input" \notin {"output"}
      OBVIOUS
    <3> QED
      BY <3>1, Zenon
  <2>3. F = IF reads THEN in ELSE IF "output" \in e.type THEN out ELSE No
    <3>1. CASE reads
      BY <1>4, <2>1, <3>1 DEF FileInterval, Taken, InputOf, OutputOf
    <3>2. CASE ~reads
      BY <1>4, <2>1, <3>2 DEF FileInterval, Taken, InputOf, OutputOf
    <3> QED
      BY <3>1, <3>2
  <2>4. CASE e.type = {"input", "output"}
    <3>1. W = IF IsTime(vi) THEN vi ELSE IF IsTime(vo) THEN vo ELSE No
      BY <1>4, <2>4, <2>1, <2>2 DEF WantedInterval
    <3>2. e.input # Absent /\ e.output # Absent
      BY <2>4 DEF AttributesOk
    <3>3. F = IF Plain(e.input) THEN in ELSE out
      BY <2>3, <2>4
    <3> HIDE DEF in, out, vi, vo, B, W, F
    <3> QED
      BY <1>2, <1>3, <3>1, <3>2, <3>3 DEF F, B, W
  <2>5. CASE e.type = {"input"}
    <3>1. W = IF IsTime(vi) THEN vi ELSE No
      BY <1>4, <2>5, <2>1, <2>2 DEF WantedInterval
    <3>2. e.input # Absent
      BY <2>5 DEF AttributesOk
    <3>3. F = in
      BY <2>3, <2>5
    <3> HIDE DEF in, out, vi, vo, B, W, F
    <3> QED
      BY <1>2, <3>1, <3>2, <3>3 DEF F, B, W
  <2>6. CASE e.type = {"output"}
    <3>1. W = IF IsTime(vo) THEN vo ELSE No
      BY <1>4, <2>6, <2>1, <2>2 DEF WantedInterval
    <3>2. e.output # Absent
      BY <2>6 DEF AttributesOk
    <3>3. F = out
      BY <2>3, <2>6
    <3> HIDE DEF in, out, vi, vo, B, W, F
    <3> QED
      BY <1>3, <3>1, <3>2, <3>3 DEF F, B, W
  <2>7. CASE e.type = {}
    <3>1. W = No
      BY <1>4, <2>7, <2>1, <2>2 DEF WantedInterval
    <3>2. F = No
      BY <2>3, <2>7
    <3> HIDE DEF in, out, vi, vo, B, W, F
    <3> QED
      BY <3>1, <3>2 DEF F, B, W
  <2>8. e.type \in {{"input", "output"}, {"input"}, {"output"}, {}}
    BY <1>1
  <2> QED
    BY <2>4, <2>5, <2>6, <2>7, <2>8
<1>5. CASE e.fint # Absent
  <2>1. PICK w \in Times \cup {"none", "input_interval", "output_interval"} : e.fint = <<w>>
    BY <1>1, <1>5 DEF Absent
  <2>2. \A v : Mentions(e.fint, v) <=> v = w
    BY <2>1 DEF Mentions
  <2>3. CASE w = "input_interval"
    <3>1. F = in /\ W = IF IsTime(vi) THEN vi ELSE No
      BY <1>5, <2>2, <2>3 DEF FileInterval, WantedInterval, Taken, InputOf
    <3>2. e.input # Absent
      BY <2>2, <2>3 DEF AttributesOk
    <3> HIDE DEF in, out, vi, vo, B, W, F
    <3> QED
      BY <1>2, <3>1, <3>2 DEF F, B, W
  <2>4. CASE w = "output_interval"
    <3>1. F = out /\ W = IF IsTime(vo) THEN vo ELSE No
      BY <1>5, <2>2, <2>4 DEF FileInterval, WantedInterval, Taken, OutputOf
    <3>2. e.output # Absent
      BY <2>2, <2>4 DEF AttributesOk
    <3> HIDE DEF in, out, vi, vo, B, W, F
    <3> QED
      BY <1>3, <3>1, <3>2 DEF F, B, W
  <2>5. CASE w \notin {"input_interval", "output_interval"}
    <3>1. ~Mentions(e.fint, "input_interval") /\ ~Mentions(e.fint, "output_interval")
      BY <2>2, <2>5
    <3>2. F = e.fint /\ W = e.fint
      BY <1>5, <3>1 DEF FileInterval, WantedInterval
    <3> QED
      BY <3>2
  <2> QED
    BY <2>3, <2>4, <2>5
<1> QED
  BY <1>4, <1>5

-----------------------------------------------------------------------------
(* Directories *)

(* What a directory may be.                                                *)
Dirs == {"absent", "open", "locked"}

(* What build_stream_path knows: the directories, whether the last one it  *)
(* looked at is writable, and whether it goes on.                          *)
Walks(n) == [dirs : [1..n -> Dirs], writable : BOOLEAN, ok : BOOLEAN]

(* One step of build_stream_path, the body of the recursion of BuildPath.  *)
WalkOn(w, k, n) ==
  CASE ~w.ok -> w
    [] w.ok /\ w.dirs[k] # "absent" ->
         [w EXCEPT !.writable = (w.dirs[k] = "open"),
                   !.ok = (k < n \/ w.dirs[k] = "open")]
    [] w.ok /\ w.dirs[k] = "absent" /\ w.dirs[k-1] = "open" ->
         [w EXCEPT !.dirs[k] = "open"]
    [] OTHER -> [w EXCEPT !.ok = w.writable]

(* The same as a relation, case by case.                                   *)
WalkStep(w, v, k, n) ==
  /\ ~w.ok => v = w
  /\ w.ok /\ w.dirs[k] # "absent" =>
       /\ v.dirs = w.dirs
       /\ v.writable <=> w.dirs[k] = "open"
       /\ v.ok <=> k < n \/ w.dirs[k] = "open"
  /\ w.ok /\ w.dirs[k] = "absent" /\ w.dirs[k-1] = "open" =>
       /\ v.dirs = [w.dirs EXCEPT ![k] = "open"]
       /\ v.writable <=> w.writable
       /\ v.ok
  /\ w.ok /\ w.dirs[k] = "absent" /\ w.dirs[k-1] # "open" =>
       /\ v.dirs = w.dirs
       /\ v.writable <=> w.writable
       /\ v.ok <=> w.writable

(* The step is defined, and is what the relation says.                     *)
LEMMA WalkOnTyped ==
  ASSUME NEW n \in Nat, NEW w \in Walks(n), NEW k \in 2..n
  PROVE  WalkOn(w, k, n) \in Walks(n) /\ WalkStep(w, WalkOn(w, k, n), k, n)
<1>1. /\ w.dirs \in [1..n -> Dirs] /\ w.writable \in BOOLEAN /\ w.ok \in BOOLEAN
      /\ w = [dirs |-> w.dirs, writable |-> w.writable, ok |-> w.ok]
  BY DEF Walks
<1>2. k \in 1..n /\ [w.dirs EXCEPT ![k] = "open"] \in [1..n -> Dirs]
  BY <1>1 DEF Dirs
<1>3. CASE ~w.ok
  BY <1>3 DEF WalkOn, WalkStep
<1>4. CASE w.ok /\ w.dirs[k] # "absent"
  <2> DEFINE a == w.dirs[k] = "open"
             b == k < n \/ w.dirs[k] = "open"
  <2>1. WalkOn(w, k, n) = [dirs |-> w.dirs, writable |-> a, ok |-> b]
    BY <1>1, <1>4 DEF WalkOn
  <2>2. a \in BOOLEAN /\ b \in BOOLEAN
    OBVIOUS
  <2> HIDE DEF a, b
  <2>3. /\ WalkOn(w, k, n) \in Walks(n) /\ WalkOn(w, k, n).dirs = w.dirs
        /\ WalkOn(w, k, n).writable = a /\ WalkOn(w, k, n).ok = b
    BY <1>1, <2>1, <2>2 DEF Walks
  <2> QED
    BY <1>4, <2>3 DEF a, b, WalkStep
<1>5. CASE w.ok /\ w.dirs[k] = "absent" /\ w.dirs[k-1] = "open"
  <2>1. WalkOn(w, k, n) = [dirs |-> [w.dirs EXCEPT ![k] = "open"], writable |-> w.writable, ok |-> w.ok]
    BY <1>1, <1>5 DEF WalkOn
  <2> QED
    BY <1>1, <1>2, <1>5, <2>1 DEF Walks, WalkStep
<1>6. CASE w.ok /\ w.dirs[k] = "absent" /\ w.dirs[k-1] # "open"
  <2>1. WalkOn(w, k, n) = [dirs |-> w.dirs, writable |-> w.writable, ok |-> w.writable]
    BY <1>1, <1>6 DEF WalkOn
  <2> QED
    BY <1>1, <1>6, <2>1 DEF Walks, WalkStep
<1> QED
  BY <1>1, <1>3, <1>4, <1>5, <1>6

(* What is known after each directory: the function of BuildPath, as a     *)
(* name.                                                                   *)
Walked(path) ==
  CHOOSE f : f = [k \in 1..Len(path) |->
    IF k = 1 THEN [dirs |-> path, writable |-> TRUE, ok |-> TRUE]
    ELSE WalkOn(f[k-1], k, Len(path))]

(* This recursive function exists, and obeys its definition.               *)
LEMMA WalkedFacts ==
  ASSUME NEW path \in Seq(Dirs), path # <<>>
  PROVE  /\ BuildPath(path) = [ok |-> Walked(path)[Len(path)].ok, dirs |-> Walked(path)[Len(path)].dirs]
         /\ Len(path) \in Nat \ {0}
         /\ Walked(path)[1] = [dirs |-> path, writable |-> TRUE, ok |-> TRUE]
         /\ \A k \in 1..Len(path) : Walked(path)[k] \in Walks(Len(path))
         /\ \A k \in 2..Len(path) : Walked(path)[k] = WalkOn(Walked(path)[k-1], k, Len(path))
<1> DEFINE n == Len(path)
           first == [dirs |-> path, writable |-> TRUE, ok |-> TRUE]
           step == [k \in Nat |-> [w \in Walks(n) |-> IF k + 2 \in 2..n THEN WalkOn(w, k+2, n) ELSE w]]
<1>1. n \in Nat \ {0} /\ path \in [1..n -> Dirs]
  BY LenProperties, EmptySeq
<1>2. first \in Walks(n)
  BY <1>1 DEF Walks
<1>3. step \in [Nat -> [Walks(n) -> Walks(n)]]
  BY <1>1, WalkOnTyped
<1>4. PICK f : Loop(f, Walks(n), first, step)
  <2> HIDE DEF step, first
  <2> QED
    BY <1>2, <1>3, Iterate
<1>5. f \in [Nat -> Walks(n)] /\ f[0] = first /\ \A k \in Nat : f[k+1] = step[k][f[k]]
  BY <1>4 DEF Loop
<1> DEFINE g == [k \in 1..n |-> f[k-1]]
<1>6. \A k \in 2..n : f[k-1] = WalkOn(f[k-2], k, n)
  <2> SUFFICES ASSUME NEW k \in 2..n PROVE f[k-1] = WalkOn(f[k-2], k, n)
    OBVIOUS
  <2>1. k - 2 \in Nat /\ (k - 2) + 1 = k - 1 /\ (k - 2) + 2 = k /\ f[k-2] \in Walks(n)
    BY <1>1, <1>5
  <2>2. f[k-1] = step[k-2][f[k-2]]
    BY <1>5, <2>1
  <2> QED
    BY <1>1, <2>1, <2>2
<1>7. g = [k \in 1..n |-> IF k = 1 THEN first ELSE WalkOn(g[k-1], k, n)]
  <2> HIDE DEF step, first
  <2>1. ASSUME NEW k \in 1..n PROVE g[k] = IF k = 1 THEN first ELSE WalkOn(g[k-1], k, n)
    <3>1. CASE k = 1
      BY <1>1, <1>5, <3>1
    <3>2. CASE k # 1
      <4>1. k \in 2..n /\ k - 1 \in 1..n /\ (k-1) - 1 = k - 2
        BY <1>1, <3>2
      <4>2. g[k-1] = f[k-2] /\ g[k] = f[k-1]
        BY <4>1
      <4> QED
        BY <1>6, <3>2, <4>1, <4>2
    <3> QED
      BY <3>1, <3>2
  <2> QED
    BY <2>1
<1> HIDE DEF g
<1>8. Walked(path) = [k \in 1..n |-> IF k = 1 THEN first ELSE WalkOn(Walked(path)[k-1], k, n)]
  BY <1>7, Zenon DEF Walked
<1>9. BuildPath(path) = [ok |-> Walked(path)[Len(path)].ok, dirs |-> Walked(path)[Len(path)].dirs]
  BY Zenon DEF BuildPath, Walked, WalkOn
<1>10. Walked(path)[1] = first /\ \A k \in 2..n : Walked(path)[k] = WalkOn(Walked(path)[k-1], k, n)
  <2>1. 1 \in 1..n /\ \A k \in 2..n : k \in 1..n /\ k # 1
    BY <1>1
  <2> HIDE DEF first, n
  <2> QED
    BY <1>8, <2>1
<1> DEFINE S == {k \in Nat : k + 1 <= n => Walked(path)[k+1] \in Walks(n)}
<1>11. 0 \in S
  BY <1>2, <1>10
<1>12. ASSUME NEW k \in Nat, k \in S PROVE k + 1 \in S
  <2> SUFFICES ASSUME (k + 1) + 1 <= n PROVE Walked(path)[(k+1)+1] \in Walks(n)
    OBVIOUS
  <2>1. (k + 1) + 1 \in 2..n /\ ((k + 1) + 1) - 1 = k + 1 /\ Walked(path)[k+1] \in Walks(n) /\ n \in Nat
    BY <1>1, <1>12
  <2> DEFINE l == (k + 1) + 1
  <2>2. l \in 2..n /\ Walked(path)[l-1] \in Walks(n) /\ Walked(path)[l] = WalkOn(Walked(path)[l-1], l, n)
    BY <1>10, <2>1
  <2> HIDE DEF l, n
  <2>3. Walked(path)[l] \in Walks(n)
    BY <2>1, <2>2, WalkOnTyped
  <2> QED
    BY <2>3 DEF l
<1>13. ASSUME NEW k \in 1..n PROVE Walked(path)[k] \in Walks(n)
  <2>1. k - 1 \in S
    <3>1. k - 1 \in Nat
      BY <1>1
    <3> HIDE DEF S
    <3> QED
      BY <1>11, <1>12, <3>1, SetInduction
  <2>2. (k - 1) + 1 = k /\ k <= n
    BY <1>1
  <2> QED
    BY <2>1, <2>2
<1> QED
  BY <1>1, <1>9, <1>10, <1>13

(* Only the first directory is never looked at: what is built is writable, *)
(* or that one is locked and nothing is below it.                          *)
LEMMA BuiltPath ==
  ASSUME NEW path \in Seq(Dirs), path # <<>>, path[1] # "absent"
  PROVE  /\ BuildPath(path).dirs \in Seq(Dirs) /\ Len(BuildPath(path).dirs) = Len(path)
         /\ \A k \in 1..Len(path) : path[k] # "absent" => BuildPath(path).dirs[k] = path[k]
         /\ BuildPath(path).ok =>
              \/ BuildPath(path).dirs[Len(path)] = "open"
              \/ path[1] = "locked" /\ (Len(path) = 1 \/ path[2] = "absent")
<1> DEFINE n == Len(path)
           W(k) == Walked(path)[k]
           Blame == path[1] = "locked" /\ path[2] = "absent"
           Keeps(k) == /\ \A i \in 1..n : path[i] # "absent" => W(k).dirs[i] = path[i]
                       /\ \A i \in 1..n : i > k => W(k).dirs[i] = path[i]
           Known(k) == /\ W(k).dirs[k] # "absent"
                       /\ W(k).writable <=> W(k).dirs[k] = "open"
                       /\ k = n => W(k).dirs[k] = "open"
           Tells(k) == k >= 2 /\ W(k).ok => Blame \/ Known(k)
<1>1. n \in Nat \ {0} /\ path \in [1..n -> Dirs]
  BY LenProperties, EmptySeq
<1>2. W(1) = [dirs |-> path, writable |-> TRUE, ok |-> TRUE] /\ \A k \in 1..n : W(k) \in Walks(n)
  BY WalkedFacts
<1> DEFINE S == {k \in Nat : k + 1 <= n => Keeps(k+1) /\ Tells(k+1)}
<1>3. 0 \in S
  <2>1. Keeps(1)
    BY <1>2
  <2> QED
    BY <2>1
<1>4. ASSUME NEW j \in Nat, j \in S PROVE j + 1 \in S
  <2> SUFFICES ASSUME (j + 1) + 1 <= n PROVE Keeps((j+1)+1) /\ Tells((j+1)+1)
    OBVIOUS
  <2> DEFINE k == (j+1)+1
             w == W(k-1)
             v == W(k)
  <2>1. k \in 2..n /\ k \in 1..n /\ k - 1 \in 1..n /\ k - 1 = j + 1 /\ k \in Nat /\ n \in Nat
    BY <1>1
  <2>2. v = WalkOn(w, k, n)
    BY <2>1, WalkedFacts
  <2>3. w \in Walks(n) /\ v \in Walks(n)
    BY <1>2, <2>1
  <2>4. w.dirs \in [1..n -> Dirs] /\ w.ok \in BOOLEAN /\ w.writable \in BOOLEAN
    BY <2>3 DEF Walks
  <2>5. Keeps(k-1) /\ Tells(k-1)
    BY <1>4, <2>1
  <2>6. /\ \A i \in 1..n : path[i] # "absent" => w.dirs[i] = path[i]
        /\ \A i \in 1..n : i > k - 1 => w.dirs[i] = path[i]
    BY <2>5
  <2> HIDE DEF w, v, k
  <2>7. WalkStep(w, v, k, n)
    BY <2>1, <2>2, <2>3, WalkOnTyped
  <2>8. CASE ~w.ok
    <3>1. v = w
      BY <2>8, <2>7 DEF WalkStep
    <3>2. Keeps(k)
      BY <2>1, <2>6, <3>1 DEF v
    <3>3. Tells(k)
      BY <2>8, <3>1 DEF v
    <3> QED
      BY <3>2, <3>3 DEF k
  <2>9. CASE w.ok /\ w.dirs[k] # "absent"
    <3>1. v.dirs = w.dirs /\ (v.writable <=> w.dirs[k] = "open") /\ (v.ok <=> k < n \/ w.dirs[k] = "open")
      BY <2>9, <2>7 DEF WalkStep
    <3>2. Keeps(k)
      BY <2>1, <2>6, <3>1 DEF v
    <3>3. v.ok => v.dirs[k] # "absent" /\ (v.writable <=> v.dirs[k] = "open") /\ (k = n => v.dirs[k] = "open")
      BY <2>1, <2>9, <3>1
    <3>4. Tells(k)
      BY <3>3 DEF v
    <3> QED
      BY <3>2, <3>4 DEF k
  <2>10. CASE w.ok /\ w.dirs[k] = "absent" /\ w.dirs[k-1] = "open"
    <3>1. v.dirs = [w.dirs EXCEPT ![k] = "open"] /\ (v.writable <=> w.writable)
      BY <2>10, <2>7 DEF WalkStep
    <3>2. v.dirs[k] = "open" /\ \A i \in 1..n : i # k => v.dirs[i] = w.dirs[i]
      BY <2>1, <2>4, <3>1
    <3>3. path[k] = "absent"
      BY <2>1, <2>6, <2>10
    <3>4. Keeps(k)
      <4>1. ASSUME NEW i \in 1..n, path[i] # "absent" PROVE v.dirs[i] = path[i]
        BY <2>6, <3>2, <3>3, <4>1
      <4>2. ASSUME NEW i \in 1..n, i > k PROVE v.dirs[i] = path[i]
        <5>1. i # k /\ i > k - 1
          BY <2>1, <4>2
        <5> QED
          BY <2>6, <3>2, <5>1
      <4> QED
        BY <4>1, <4>2 DEF v
    <3>5. Blame \/ w.writable
      <4>1. CASE k - 1 = 1
        <5>1. w = [dirs |-> path, writable |-> TRUE, ok |-> TRUE]
          BY <1>2, <4>1 DEF w
        <5> QED
          BY <5>1
      <4>2. CASE k - 1 >= 2
        BY <2>5, <2>10, <4>2 DEF w
      <4> QED
        BY <2>1, <4>1, <4>2
    <3>6. Tells(k)
      BY <3>1, <3>2, <3>5 DEF v
    <3> QED
      BY <3>4, <3>6 DEF k
  <2>11. CASE w.ok /\ w.dirs[k] = "absent" /\ w.dirs[k-1] # "open"
    <3>1. v.dirs = w.dirs /\ (v.ok <=> w.writable)
      BY <2>11, <2>7 DEF WalkStep
    <3>2. Keeps(k)
      BY <2>1, <2>6, <3>1 DEF v
    <3>3. Blame \/ ~w.writable
      <4>1. CASE k - 1 = 1
        <5>1. w.dirs = path /\ k = 2
          BY <1>2, <2>1, <4>1 DEF w
        <5>2. path[2] = "absent" /\ path[1] # "open" /\ path[1] \in Dirs
          BY <1>1, <2>1, <2>11, <4>1, <5>1
        <5> QED
          BY <5>2 DEF Dirs
      <4>2. CASE k - 1 >= 2
        BY <2>5, <2>11, <4>2 DEF w
      <4> QED
        BY <2>1, <4>1, <4>2
    <3>4. Tells(k)
      BY <3>1, <3>3 DEF v
    <3> QED
      BY <3>2, <3>4 DEF k
  <2> QED
    BY <2>4, <2>8, <2>9, <2>10, <2>11
<1>5. Keeps(n) /\ Tells(n)
  <2>1. n - 1 \in Nat /\ (n - 1) + 1 = n
    BY <1>1
  <2>2. n - 1 \in S
    <3> HIDE DEF S
    <3> QED
      BY <1>3, <1>4, <2>1, SetInduction
  <2> QED
    BY <2>1, <2>2
<1>6. BuildPath(path).dirs = W(n).dirs /\ BuildPath(path).ok = W(n).ok /\ W(n) \in Walks(n)
  BY <1>1, <1>2, WalkedFacts
<1>7. W(n).dirs \in [1..n -> Dirs]
  BY <1>6 DEF Walks
<1>8. W(n).dirs \in Seq(Dirs) /\ Len(W(n).dirs) = n
  BY <1>1, <1>7
<1>9. W(n).ok => W(n).dirs[n] = "open" \/ (path[1] = "locked" /\ (n = 1 \/ path[2] = "absent"))
  <2>1. CASE n = 1
    <3>1. W(n).dirs = path /\ path[1] \in Dirs
      BY <1>1, <1>2, <2>1
    <3> QED
      BY <2>1, <3>1 DEF Dirs
  <2>2. CASE n >= 2
    BY <1>5, <2>2
  <2> QED
    BY <1>1, <2>1, <2>2
<1> QED
  BY <1>5, <1>6, <1>8, <1>9

-----------------------------------------------------------------------------
(* One stream of the list *)

(* A stream without alarms.                                                *)
Silent == [input |-> No, output |-> No]

(* A stream is a record of these fields.                                   *)
StreamFields == {"immutable", "direction", "template", "clobber", "fint", "active",
                 "alarms", "fields"}
IsStream(s) == DOMAIN s = StreamFields

(* A stream that no element has named yet.                                 *)
Fresh(s) == s.fint = No /\ s.active = TRUE /\ s.alarms = Silent

(* A stream with another template and mode, and one whose creation has     *)
(* come to its end.                                                        *)
Rewritten(s, t, c)  == [s EXCEPT !.template = t, !.clobber = c]
Completed(s, f, ty) == [s EXCEPT !.fint = IF f = No THEN @ ELSE f, !.active = (@ /\ ty # {})]

(* The stream n of c is the one that the element declares, without alarms. *)
Declares(s, e, fint) ==
  /\ IsStream(s) /\ s.alarms = Silent
  /\ s.template = e.template /\ s.clobber = e.clobber /\ s.fint = fint
  /\ s.active \in BOOLEAN /\ (s.active <=> e.type # {})

(* The list c is m with the new stream of element e.                       *)
Adds(c, m, e, fint) ==
  /\ DOMAIN c = DOMAIN m \cup {e.name}
  /\ \A x \in DOMAIN m : c[x] = m[x]
  /\ Declares(c[e.name], e, fint)
  /\ c[e.name].immutable = FALSE /\ c[e.name].fields = {}

(* The list c is m but for the stream n, which is as immutable as it was.  *)
KeepsOthers(c, m, n) ==
  /\ DOMAIN c = DOMAIN m
  /\ \A x \in DOMAIN m : x # n => c[x] = m[x]
  /\ IsStream(c[n])
  /\ c[n].immutable = m[n].immutable

(* What stream_mgr_create_stream_c makes of a new stream, ...              *)
LEMMA CreatedNew ==
  ASSUME NEW m, NEW e, NEW fint, e.immutable = FALSE, e.name \notin DOMAIN m
  PROVE  Adds(Created(m, e, fint), m, e, fint)
<1> DEFINE n == e.name
           new == Stream(FALSE, e.type, e.template, e.clobber, {})
           base == [x \in DOMAIN m \cup {n} |-> IF x # n THEN m[x] ELSE new]
           r == Completed(new, fint, e.type)
           c == Created(m, e, fint)
<1>1. c = [base EXCEPT ![n].fint = IF fint = No THEN @ ELSE fint, ![n].active = (@ /\ e.type # {})]
  BY DEF Created
<1>2. base[n] = new /\ n \in DOMAIN base /\ DOMAIN base = DOMAIN m \cup {n}
      /\ \A x \in DOMAIN m : base[x] = m[x]
  OBVIOUS
<1>3. /\ IsStream(new) /\ new.immutable = FALSE /\ new.template = e.template
      /\ new.clobber = e.clobber /\ new.fields = {} /\ Fresh(new)
  BY DEF Stream, IsStream, StreamFields, Fresh, Silent
<1> HIDE DEF base, new
<1>4. DOMAIN c = DOMAIN m \cup {n} /\ \A x \in DOMAIN m : c[x] = m[x]
  BY <1>1, <1>2
<1>5. c[n] = r
  BY <1>1, <1>2 DEF Completed
<1>6. /\ IsStream(r) /\ r.template = new.template /\ r.clobber = new.clobber
      /\ r.immutable = new.immutable /\ r.alarms = new.alarms /\ r.fields = new.fields
      /\ r.fint = IF fint = No THEN new.fint ELSE fint
      /\ r.active \in BOOLEAN /\ (r.active <=> e.type # {})
  BY <1>3 DEF Fresh, Completed, IsStream, StreamFields
<1> HIDE DEF c, r
<1>7. /\ IsStream(c[n]) /\ c[n].immutable = FALSE /\ c[n].fields = {} /\ c[n].alarms = Silent
      /\ c[n].template = e.template /\ c[n].clobber = e.clobber /\ c[n].fint = fint
      /\ c[n].active \in BOOLEAN /\ (c[n].active <=> e.type # {})
  BY <1>3, <1>5, <1>6 DEF Fresh
<1> QED
  BY <1>4, <1>7, Zenon DEF c, Adds, Declares

(* ... of an immutable one that no element has named yet, ...              *)
LEMMA CreatedOld ==
  ASSUME NEW m, NEW e, NEW fint, e.immutable = TRUE, e.name \in DOMAIN m, IsStream(m[e.name]),
         Fresh(m[e.name])
  PROVE  /\ KeepsOthers(Created(m, e, fint), m, e.name)
         /\ Created(m, e, fint)[e.name].fields = m[e.name].fields
         /\ Declares(Created(m, e, fint)[e.name], e, fint)
<1> DEFINE n == e.name
           o == m[n]
           base == [m EXCEPT ![n].template = e.template, ![n].clobber = e.clobber]
           w == Rewritten(o, e.template, e.clobber)
           r == Completed(w, fint, e.type)
           c == Created(m, e, fint)
<1>1. c = [base EXCEPT ![n].fint = IF fint = No THEN @ ELSE fint, ![n].active = (@ /\ e.type # {})]
  BY DEF Created
<1>2. /\ n \in DOMAIN base /\ DOMAIN base = DOMAIN m /\ base[n] = w
      /\ \A x \in DOMAIN m : x # n => base[x] = m[x]
  BY DEF Rewritten
<1>3. IsStream(o) /\ o.fint = No /\ o.active = TRUE /\ o.alarms = Silent
  BY DEF Fresh
<1> HIDE DEF o
<1>4. /\ IsStream(w) /\ w.template = e.template /\ w.clobber = e.clobber
      /\ w.immutable = o.immutable /\ w.fint = o.fint /\ w.active = o.active
      /\ w.alarms = o.alarms /\ w.fields = o.fields
  BY <1>3 DEF Rewritten, IsStream, StreamFields
<1> HIDE DEF base, w
<1>5. DOMAIN c = DOMAIN m /\ \A x \in DOMAIN m : x # n => c[x] = m[x]
  BY <1>1, <1>2
<1>6. c[n] = r
  BY <1>1, <1>2 DEF Completed
<1>7. /\ IsStream(r) /\ r.template = w.template /\ r.clobber = w.clobber
      /\ r.immutable = w.immutable /\ r.alarms = w.alarms /\ r.fields = w.fields
      /\ r.fint = IF fint = No THEN w.fint ELSE fint
      /\ r.active \in BOOLEAN /\ (r.active <=> e.type # {})
  BY <1>3, <1>4 DEF Completed, IsStream, StreamFields
<1> HIDE DEF c, r
<1>8. /\ IsStream(c[n]) /\ c[n].immutable = o.immutable /\ c[n].fields = o.fields
      /\ c[n].alarms = Silent
      /\ c[n].template = e.template /\ c[n].clobber = e.clobber /\ c[n].fint = fint
      /\ c[n].active \in BOOLEAN /\ (c[n].active <=> e.type # {})
  BY <1>3, <1>4, <1>6, <1>7
<1> QED
  BY <1>5, <1>8, Zenon DEF c, o, KeepsOthers, Declares

(* ... and of a mutable one of which the name is taken.                    *)
LEMMA CreatedShadow ==
  ASSUME NEW m, NEW e, NEW fint, e.immutable = FALSE, e.name \in DOMAIN m, IsStream(m[e.name])
  PROVE  /\ KeepsOthers(Created(m, e, fint), m, e.name)
         /\ Created(m, e, fint)[e.name].fields = m[e.name].fields
<1> DEFINE n == e.name
           o == m[n]
           r == Completed(o, fint, e.type)
           c == Created(m, e, fint)
<1>1. c = [m EXCEPT ![n].fint = IF fint = No THEN @ ELSE fint, ![n].active = (@ /\ e.type # {})]
  BY DEF Created
<1>2. DOMAIN c = DOMAIN m /\ \A x \in DOMAIN m : x # n => c[x] = m[x]
  BY <1>1
<1>3. c[n] = r
  BY <1>1 DEF Completed
<1>4. IsStream(o)
  OBVIOUS
<1> HIDE DEF o
<1>5. IsStream(r) /\ r.immutable = o.immutable /\ r.fields = o.fields
  BY <1>4 DEF Completed, IsStream, StreamFields
<1> HIDE DEF c, r
<1>6. IsStream(c[n]) /\ c[n].immutable = o.immutable /\ c[n].fields = o.fields
  BY <1>3, <1>5
<1> QED
  BY <1>2, <1>6, Zenon DEF c, o, KeepsOthers

(* The stream s is o but for its alarms and its fields.                    *)
SameBut(s, o) ==
  /\ s.template = o.template /\ s.clobber = o.clobber /\ s.fint = o.fint
  /\ s.active = o.active

(* The stream s has the alarms that element e asks for.                    *)
Bells(s, e, in, out) ==
  /\ "input" \in e.type => s.alarms.input = in
  /\ "output" \in e.type => s.alarms.output = out

(* What stream_mgr_add_alarm_c changes.                                    *)
LEMMA AlarmedFacts ==
  ASSUME NEW m, NEW e, NEW in, NEW out, e.name \in DOMAIN m, IsStream(m[e.name])
  PROVE  /\ KeepsOthers(Alarmed(m, e, in, out), m, e.name)
         /\ SameBut(Alarmed(m, e, in, out)[e.name], m[e.name])
         /\ Alarmed(m, e, in, out)[e.name].fields = m[e.name].fields
         /\ m[e.name].alarms = Silent => Bells(Alarmed(m, e, in, out)[e.name], e, in, out)
<1> DEFINE n == e.name
           o == m[n]
           al == [input  |-> IF "input" \in e.type /\ in # No THEN in ELSE o.alarms.input,
                  output |-> IF "output" \in e.type /\ out # No THEN out ELSE o.alarms.output]
           s == Alarmed(m, e, in, out)[n]
<1>1. /\ DOMAIN Alarmed(m, e, in, out) = DOMAIN m
      /\ \A x \in DOMAIN m : x # n => Alarmed(m, e, in, out)[x] = m[x]
  BY DEF Alarmed
<1>2. s = [o EXCEPT !.alarms = al]
  BY DEF Alarmed
<1>3. o.alarms = Silent =>
        /\ "input" \in e.type => al.input = in
        /\ "output" \in e.type => al.output = out
  BY DEF Silent
<1>4. IsStream(o)
  OBVIOUS
<1> HIDE DEF al, o, s
<1>5. /\ IsStream(s) /\ s.immutable = o.immutable /\ s.fields = o.fields
      /\ s.template = o.template /\ s.clobber = o.clobber /\ s.fint = o.fint
      /\ s.active = o.active /\ s.alarms = al
  BY <1>2, <1>4 DEF IsStream, StreamFields
<1> QED
  BY <1>1, <1>3, <1>5 DEF o, s, KeepsOthers, SameBut, Bells

(* What the addition of fields changes.                                    *)
LEMMA FilledFacts ==
  ASSUME NEW m, NEW n \in DOMAIN m, IsStream(m[n]), NEW added
  PROVE  LET c == [m EXCEPT ![n].fields = @ \cup added]
         IN  /\ KeepsOthers(c, m, n) /\ SameBut(c[n], m[n])
             /\ c[n].fields = m[n].fields \cup added
             /\ c[n].alarms = m[n].alarms
<1> DEFINE o == m[n]
           c == [m EXCEPT ![n].fields = @ \cup added]
           s == c[n]
<1>1. DOMAIN c = DOMAIN m /\ \A x \in DOMAIN m : x # n => c[x] = m[x]
  OBVIOUS
<1>2. s = [o EXCEPT !.fields = o.fields \cup added] /\ IsStream(o)
  OBVIOUS
<1> HIDE DEF o, s
<1>3. /\ IsStream(s) /\ s.immutable = o.immutable /\ s.fields = o.fields \cup added
      /\ s.template = o.template /\ s.clobber = o.clobber /\ s.fint = o.fint
      /\ s.active = o.active /\ s.alarms = o.alarms
  BY <1>2 DEF IsStream, StreamFields
<1> QED
  BY <1>1, <1>3 DEF o, s, KeepsOthers, SameBut

-----------------------------------------------------------------------------
(* The list *)

(* What a mutable stream has in the end (IncludesLand).                    *)
Brings(order, k, n) ==
  IF n \in DOMAIN Registry THEN FromRegistry[n].fields
  ELSE UNION {order[j].vars : j \in {i \in k+1..Len(order) : order[i].name = n}}

Landed(order, k) ==
  FileFields(order[k]) \cup order[k].vars \cup UNION {Brings(order, k, n) : n \in order[k].subs}

(* A stream of the list: the Registry's are the immutable ones, and keep   *)
(* their fields.                                                           *)
InList(s, n) ==
  /\ IsStream(s)
  /\ s.immutable \in BOOLEAN /\ (s.immutable <=> n \in DOMAIN Registry)
  /\ n \in DOMAIN Registry => s.fields = FromRegistry[n].fields

(* The intervals of an element that was let through, ...                   *)
LetThrough(e, file) ==
  /\ InputOf(e, file) # Bad /\ OutputOf(e, file) # Bad
  /\ e.immutable => e.name \in DOMAIN Registry
  /\ Shadows(e) => SetsMore(e, FileInterval(e, file))

(* ... and its stream s, which has its alarms or not, and its fields or    *)
(* not.                                                                    *)
AsDeclared(s, e, file) ==
  /\ s.template = e.template /\ s.clobber = e.clobber /\ s.fint = FileInterval(e, file)
  /\ s.active \in BOOLEAN /\ (s.active <=> e.type # {})

Entry(s, i, B, F, order, file) ==
  LET e == order[i]
  IN  /\ LetThrough(e, file)
      /\ ~Shadows(e) =>
           /\ AsDeclared(s, e, file)
           /\ i \in B => Bells(s, e, InputOf(e, file), OutputOf(e, file))
           /\ i \notin B => s.alarms = Silent
           /\ ~e.immutable => s.fields = IF i \in F THEN Landed(order, i) ELSE {}

(* The list m when the streams of the elements in M have been created,     *)
(* those of B have their alarms, and those of F their fields.              *)
ListOf(m, M, B, F, order, file) ==
  /\ DOMAIN m = DOMAIN Registry \cup {order[i].name : i \in M}
  /\ \A x \in DOMAIN m : InList(m[x], x)
  /\ \A x \in DOMAIN Registry : (\A i \in M : order[i].name # x) => Fresh(m[x])
  /\ \A i \in M : Entry(m[order[i].name], i, B, F, order, file)

(* The order is the one of the file.                                       *)
Orders(order, file) ==
  /\ Len(order) \in Nat
  /\ \A i \in 1..Len(order) :
       order[i].immutable \in BOOLEAN /\ \E k \in DOMAIN file : order[i] = file[k]
  /\ \A k \in DOMAIN file : \E i \in 1..Len(order) : order[i] = file[k]
  /\ \A i, j \in 1..Len(order) :
       /\ i # j => order[i].name # order[j].name
       /\ i < j /\ ~order[i].immutable => ~order[j].immutable

(* No element has been handled when the Registry has been set up.          *)
LEMMA ListStarts ==
  ASSUME NEW order, NEW file
  PROVE  ListOf(FromRegistry, {}, {}, {}, order, file)
<1>1. DOMAIN FromRegistry = DOMAIN Registry
  BY DEF FromRegistry
<1>2. ASSUME NEW x \in DOMAIN Registry PROVE InList(FromRegistry[x], x) /\ Fresh(FromRegistry[x])
  <2> DEFINE s == FromRegistry[x]
             f == Registry[x].vars \cup UNION {Registry[z].vars : z \in Registry[x].subs}
  <2>1. s = Stream(TRUE, Registry[x].direction, Registry[x].template, 0, f)
    BY <1>2 DEF FromRegistry
  <2> HIDE DEF s, f
  <2>2. IsStream(s) /\ Fresh(s) /\ s.immutable = TRUE
    BY <2>1 DEF Stream, IsStream, StreamFields, Fresh, Silent
  <2> QED
    BY <1>2, <2>2 DEF InList, s
<1> QED
  BY <1>1, <1>2 DEF ListOf

(* One step of the parser is about one stream.                             *)
LEMMA OneStreamChanges ==
  ASSUME NEW order, NEW file, Orders(order, file), NEW k \in 1..Len(order),
         NEW M \in SUBSET (1..Len(order)), NEW B, NEW F, NEW B2, NEW F2,
         NEW m, NEW c, ListOf(m, M, B, F, order, file),
         DOMAIN c = DOMAIN m \cup {order[k].name},
         \A x \in DOMAIN m : x # order[k].name => c[x] = m[x],
         \A i \in M : i # k => (i \in B <=> i \in B2) /\ (i \in F <=> i \in F2),
         InList(c[order[k].name], order[k].name),
         Entry(c[order[k].name], k, B2, F2, order, file)
  PROVE  ListOf(c, M \cup {k}, B2, F2, order, file)
<1> DEFINE n == order[k].name
<1>1. DOMAIN c = DOMAIN Registry \cup {order[i].name : i \in M \cup {k}}
  BY DEF ListOf
<1>2. \A x \in DOMAIN c : InList(c[x], x)
  BY DEF ListOf
<1>3. \A x \in DOMAIN Registry : (\A i \in M \cup {k} : order[i].name # x) => Fresh(c[x])
  BY DEF ListOf
<1>4. ASSUME NEW i \in M \cup {k} PROVE Entry(c[order[i].name], i, B2, F2, order, file)
  <2>1. CASE i = k
    BY <2>1
  <2>2. CASE i # k
    <3>1. i \in M /\ order[i].name # n
      BY <1>4, <2>2 DEF Orders
    <3>2. order[i].name \in DOMAIN m /\ Entry(m[order[i].name], i, B, F, order, file)
      BY <3>1 DEF ListOf
    <3>3. c[order[i].name] = m[order[i].name]
      BY <3>1, <3>2
    <3>4. (i \in B <=> i \in B2) /\ (i \in F <=> i \in F2)
      BY <2>2, <3>1
    <3> QED
      BY <3>2, <3>3, <3>4 DEF Entry
  <2> QED
    BY <2>1, <2>2
<1> QED
  BY <1>1, <1>2, <1>3, <1>4 DEF ListOf

(* The creation of a stream that is let through.                           *)
LEMMA ListCreates ==
  ASSUME NEW order, NEW file, Orders(order, file), NEW k \in 1..Len(order),
         NEW M \in SUBSET (1..Len(order)), NEW B, NEW F, NEW m, k \notin M \cup B \cup F,
         ListOf(m, M, B, F, order, file),
         InputOf(order[k], file) # Bad, OutputOf(order[k], file) # Bad,
         ~CreateFails(m, order[k], FileInterval(order[k], file))
  PROVE  ListOf(Created(m, order[k], FileInterval(order[k], file)), M \cup {k}, B, F, order, file)
<1> DEFINE e == order[k]
           n == e.name
           f == FileInterval(e, file)
           c == Created(m, e, f)
<1>1. /\ DOMAIN m = DOMAIN Registry \cup {order[i].name : i \in M}
      /\ \A i \in M : order[i].name # n
      /\ \A x \in DOMAIN m : InList(m[x], x)
      /\ e.immutable \in BOOLEAN
  BY DEF ListOf, Orders
<1>2. n \in DOMAIN m <=> n \in DOMAIN Registry
  BY <1>1
<1> SUFFICES /\ DOMAIN c = DOMAIN m \cup {n}
             /\ \A x \in DOMAIN m : x # n => c[x] = m[x]
             /\ InList(c[n], n)
             /\ Entry(c[n], k, B, F, order, file)
  <2> HIDE DEF c
  <2>1. ListOf(c, M \cup {k}, B, F, order, file)
    BY OneStreamChanges
  <2> QED
    BY <2>1 DEF c
<1> HIDE DEF c, f
<1>3. CASE e.immutable = TRUE
  <2>1. n \in DOMAIN m /\ n \in DOMAIN Registry /\ ~Shadows(e)
    BY <1>2, <1>3 DEF CreateFails, Shadows, f
  <2>2. Fresh(m[n])
    BY <1>1, <2>1 DEF ListOf
  <2>3. InList(m[n], n)
    BY <1>1, <2>1
  <2>4. KeepsOthers(c, m, n) /\ c[n].fields = m[n].fields /\ Declares(c[n], e, f)
    BY <1>3, <2>1, <2>2, <2>3, CreatedOld DEF c, InList
  <2>5. DOMAIN c = DOMAIN m \cup {n} /\ \A x \in DOMAIN m : x # n => c[x] = m[x]
    BY <2>1, <2>4 DEF KeepsOthers
  <2>6. InList(c[n], n)
    BY <2>3, <2>4 DEF InList, KeepsOthers
  <2>7. LetThrough(e, file)
    BY <2>1 DEF LetThrough
  <2>8. AsDeclared(c[n], e, file) /\ c[n].alarms = Silent
    BY <2>4 DEF Declares, AsDeclared, f
  <2>9. Entry(c[n], k, B, F, order, file)
    BY <1>3, <2>7, <2>8 DEF Entry
  <2> QED
    BY <2>5, <2>6, <2>9
<1>4. CASE e.immutable = FALSE /\ n \notin DOMAIN m
  <2>1. Adds(c, m, e, f)
    BY <1>4, CreatedNew DEF c
  <2>2. DOMAIN c = DOMAIN m \cup {n} /\ \A x \in DOMAIN m : x # n => c[x] = m[x]
    BY <2>1 DEF Adds
  <2>3. n \notin DOMAIN Registry /\ ~Shadows(e)
    BY <1>2, <1>4 DEF Shadows
  <2>4. InList(c[n], n)
    BY <2>1, <2>3 DEF Adds, Declares, InList
  <2>5. LetThrough(e, file)
    BY <1>4, <2>3 DEF LetThrough
  <2>6. AsDeclared(c[n], e, file) /\ c[n].alarms = Silent /\ c[n].fields = {}
    BY <2>1 DEF Adds, Declares, AsDeclared, f
  <2>7. Entry(c[n], k, B, F, order, file)
    BY <2>5, <2>6 DEF Entry
  <2> QED
    BY <2>2, <2>4, <2>7
<1>5. CASE e.immutable = FALSE /\ n \in DOMAIN m
  <2>1. n \in DOMAIN Registry /\ Shadows(e) /\ SetsMore(e, f)
    BY <1>2, <1>5 DEF Shadows, CreateFails, f
  <2>2. InList(m[n], n)
    BY <1>1, <1>5
  <2>3. KeepsOthers(c, m, n) /\ c[n].fields = m[n].fields
    BY <1>5, <2>2, CreatedShadow DEF c, InList
  <2>4. DOMAIN c = DOMAIN m \cup {n} /\ \A x \in DOMAIN m : x # n => c[x] = m[x]
    BY <1>5, <2>3 DEF KeepsOthers
  <2>5. InList(c[n], n)
    BY <2>2, <2>3 DEF InList, KeepsOthers
  <2>6. LetThrough(e, file)
    BY <1>5, <2>1 DEF LetThrough, f
  <2>7. Entry(c[n], k, B, F, order, file)
    BY <2>1, <2>6 DEF Entry
  <2> QED
    BY <2>4, <2>5, <2>7
<1> QED
  BY <1>1, <1>3, <1>4, <1>5

(* The alarms of a stream that was created.                                *)
LEMMA ListAlarms ==
  ASSUME NEW order, NEW file, Orders(order, file), NEW k \in 1..Len(order),
         NEW M \in SUBSET (1..Len(order)), NEW B, NEW F, NEW m, k \in M, k \notin B,
         ListOf(m, M, B, F, order, file)
  PROVE  ListOf(Alarmed(m, order[k], InputOf(order[k], file), OutputOf(order[k], file)),
                M, B \cup {k}, F, order, file)
<1> DEFINE e == order[k]
           n == e.name
           in == InputOf(e, file)
           out == OutputOf(e, file)
           c == Alarmed(m, e, in, out)
<1>1. n \in DOMAIN m /\ InList(m[n], n) /\ Entry(m[n], k, B, F, order, file)
  BY DEF ListOf
<1>2. /\ KeepsOthers(c, m, n) /\ SameBut(c[n], m[n]) /\ c[n].fields = m[n].fields
      /\ m[n].alarms = Silent => Bells(c[n], e, in, out)
  BY <1>1, AlarmedFacts DEF InList
<1> HIDE DEF c
<1>3. DOMAIN c = DOMAIN m \cup {n} /\ \A x \in DOMAIN m : x # n => c[x] = m[x]
  BY <1>1, <1>2 DEF KeepsOthers
<1>4. InList(c[n], n)
  BY <1>1, <1>2 DEF InList, KeepsOthers
<1>5. Entry(c[n], k, B \cup {k}, F, order, file)
  BY <1>1, <1>2 DEF Entry, SameBut, AsDeclared
<1>6. ListOf(c, M \cup {k}, B \cup {k}, F, order, file)
  BY <1>3, <1>4, <1>5, OneStreamChanges
<1>7. M \cup {k} = M
  OBVIOUS
<1> QED
  BY <1>6, <1>7 DEF c

(* The fields that a new mutable stream is given.                          *)
LEMMA FieldsLand ==
  ASSUME NEW order, NEW file, Orders(order, file), NEW k \in 1..Len(order),
         NEW M \in SUBSET (1..Len(order)), NEW B, NEW F, NEW m,
         \A i \in 1..Len(order) : i \in M <=> i <= k,
         ListOf(m, M, B, F, order, file),
         ~order[k].immutable, ~Shadows(order[k])
  PROVE  FieldsOf(m, order[k], file) = Landed(order, k)
<1> DEFINE e == order[k]
<1>1. k \in Nat /\ Len(order) \in Nat
  BY DEF Orders
<1>2. /\ DOMAIN m = DOMAIN Registry \cup {order[i].name : i \in M}
      /\ \A x \in DOMAIN m : InList(m[x], x)
      /\ k \in M
  BY <1>1 DEF ListOf
<1>3. e.name \notin DOMAIN Registry /\ e.name \in DOMAIN m /\ m[e.name].immutable = FALSE
  BY <1>2 DEF Shadows, InList
<1>4. ASSUME NEW n PROVE Included(m, e, n, file) = Brings(order, k, n)
  <2> DEFINE J == {j \in Named(file, n) : ~file[j].immutable}
             later == {i \in k+1..Len(order) : order[i].name = n}
             written == UNION {file[j].vars : j \in J}
             brought == UNION {order[i].vars : i \in later}
  <2>1. CASE n \in DOMAIN Registry
    <3>1. n \in DOMAIN m /\ m[n].immutable /\ m[n].fields = FromRegistry[n].fields
      BY <1>2, <2>1 DEF InList
    <3> QED
      BY <1>3, <2>1, <3>1 DEF Included, FromFile, Brings
  <2>2. CASE n \notin DOMAIN Registry /\ n \in DOMAIN m
    <3>1. ~m[n].immutable
      BY <1>2, <2>2 DEF InList
    <3>2. PICK i \in M : order[i].name = n
      BY <1>2, <2>2
    <3>3. later = {}
      <4> SUFFICES ASSUME NEW j \in k+1..Len(order), order[j].name = n PROVE FALSE
        OBVIOUS
      <4>1. i \in 1..Len(order) /\ i <= k /\ j \in 1..Len(order) /\ j # i
        BY <1>1, <3>2
      <4> QED
        BY <3>2, <4>1 DEF Orders
    <3>4. brought = {}
      BY <3>3
    <3>5. Included(m, e, n, file) = {}
      BY <2>2, <3>1 DEF Included, FromFile
    <3>6. Brings(order, k, n) = brought
      BY <2>2 DEF Brings
    <3> QED
      BY <3>4, <3>5, <3>6
  <2>3. CASE n \notin DOMAIN m
    <3>1. n \notin DOMAIN Registry
      BY <1>2, <2>3
    <3>2. Included(m, e, n, file) = written
      BY <2>3 DEF Included, FromFile
    <3>3. Brings(order, k, n) = brought
      BY <3>1 DEF Brings
    <3>4. ASSUME NEW j \in J PROVE \E i \in later : order[i] = file[j]
      <4>1. j \in DOMAIN file /\ file[j].name = n
        BY DEF Named
      <4>2. PICK i \in 1..Len(order) : order[i] = file[j]
        BY <4>1 DEF Orders
      <4>3. i \notin M
        BY <1>2, <2>3, <4>1, <4>2
      <4>4. i \in k+1..Len(order)
        BY <1>1, <4>3
      <4> QED
        BY <4>1, <4>2, <4>4
    <3>5. ASSUME NEW i \in later PROVE \E j \in J : order[i] = file[j]
      <4>1. i \in 1..Len(order) /\ k < i
        BY <1>1
      <4>2. PICK j \in DOMAIN file : order[i] = file[j]
        BY <4>1 DEF Orders
      <4>3. ~order[i].immutable
        BY <4>1 DEF Orders
      <4> QED
        BY <4>2, <4>3 DEF Named
    <3>6. written = brought
      <4> HIDE DEF J, later
      <4>1. ASSUME NEW x \in written PROVE x \in brought
        <5>1. PICK j \in J : x \in file[j].vars
          BY <4>1
        <5> QED
          BY <3>4, <5>1
      <4>2. ASSUME NEW x \in brought PROVE x \in written
        <5>1. PICK i \in later : x \in order[i].vars
          BY <4>2
        <5> QED
          BY <3>5, <5>1
      <4> QED
        BY <4>1, <4>2
    <3> QED
      BY <3>2, <3>3, <3>6
  <2> QED
    BY <2>1, <2>2, <2>3
<1>5. {Included(m, e, n, file) : n \in e.subs} = {Brings(order, k, n) : n \in e.subs}
  BY <1>4
<1>6. UNION {Included(m, e, n, file) : n \in e.subs} = UNION {Brings(order, k, n) : n \in e.subs}
  BY <1>5
<1> QED
  BY <1>6, Zenon DEF FieldsOf, IncludedFields, Landed

(* Nothing is added to an immutable stream when none of the groups of      *)
(* children is refused.                                                    *)
LEMMA GroupsAdd ==
  ASSUME NEW m, NEW e, NEW file,
         \A k \in 1..3 : ~Refused(m, e, Groups(m, e, file)[k].adds)
  PROVE  ~(m[e.name].immutable /\ FieldsOf(m, e, file) # {})
<1>1. /\ Groups(m, e, file)[1].adds = FileFields(e)
      /\ Groups(m, e, file)[2].adds = e.vars
      /\ Groups(m, e, file)[3].adds = IncludedFields(m, e, file)
  BY DEF Groups
<1>2. /\ ~Refused(m, e, FileFields(e)) /\ ~Refused(m, e, e.vars)
      /\ ~Refused(m, e, IncludedFields(m, e, file))
  BY <1>1
<1> QED
  BY <1>2 DEF Refused, FieldsOf

(* The fields of a mutable stream that was created.                        *)
LEMMA ListFills ==
  ASSUME NEW order, NEW file, Orders(order, file), NEW k \in 1..Len(order),
         NEW M \in SUBSET (1..Len(order)), NEW B, NEW F, NEW m, k \notin F,
         \A i \in 1..Len(order) : i \in M <=> i <= k,
         ListOf(m, M, B, F, order, file), ~order[k].immutable,
         ~(m[order[k].name].immutable /\ FieldsOf(m, order[k], file) # {})
  PROVE  ListOf([m EXCEPT ![order[k].name].fields = @ \cup FieldsOf(m, order[k], file)],
                M, B, F \cup {k}, order, file)
<1> DEFINE e == order[k]
           n == e.name
           added == FieldsOf(m, e, file)
           c == [m EXCEPT ![n].fields = @ \cup added]
<1>1. k \in Nat /\ Len(order) \in Nat /\ e.immutable = FALSE
  BY DEF Orders
<1>2. k \in M /\ n \in DOMAIN m /\ InList(m[n], n) /\ Entry(m[n], k, B, F, order, file)
  BY <1>1 DEF ListOf
<1>3. ~Shadows(e) => added = Landed(order, k)
  BY <1>1, FieldsLand
<1>4. ~(m[n].immutable /\ added # {})
  OBVIOUS
<1> HIDE DEF added
<1>5. /\ KeepsOthers(c, m, n) /\ SameBut(c[n], m[n]) /\ c[n].fields = m[n].fields \cup added
      /\ c[n].alarms = m[n].alarms
  BY <1>2, FilledFacts DEF InList
<1> HIDE DEF c
<1>6. DOMAIN c = DOMAIN m \cup {n} /\ \A x \in DOMAIN m : x # n => c[x] = m[x]
  BY <1>2, <1>5 DEF KeepsOthers
<1>7. InList(c[n], n)
  <2>1. n \in DOMAIN Registry => added = {}
    BY <1>2, <1>4 DEF InList
  <2> QED
    BY <1>2, <1>5, <2>1 DEF InList, KeepsOthers
<1>8. Entry(c[n], k, B, F \cup {k}, order, file)
  <2>1. ~Shadows(e) => c[n].fields = Landed(order, k)
    <3>1. ~Shadows(e) => m[n].fields = {}
      BY <1>1, <1>2 DEF Entry
    <3> QED
      BY <1>3, <1>5, <3>1
  <2> QED
    BY <1>2, <1>5, <2>1 DEF Entry, SameBut, AsDeclared, Bells
<1>9. ListOf(c, M \cup {k}, B, F \cup {k}, order, file)
  BY <1>6, <1>7, <1>8, OneStreamChanges
<1>10. M \cup {k} = M
  BY <1>2
<1> QED
  BY <1>9, <1>10 DEF c, added

-----------------------------------------------------------------------------
(* The parser *)

(* The directories d of a file of which paths were there: those still are, *)
(* and when a stream has been created for output, the last one can be      *)
(* written to, or nothing looked at the locked one that the path starts    *)
(* from.                                                                   *)
Standing(d, paths) ==
  /\ d \in Seq(Dirs) /\ Len(d) = Len(paths)
  /\ \A k \in 1..Len(paths) : paths[k] # "absent" => d[k] = paths[k]

Writable(d, paths) ==
  \/ d[Len(d)] = "open"
  \/ paths[1] = "locked" /\ (Len(d) = 1 \/ paths[2] = "absent")

(* build_stream_path keeps this true, whatever was built before.           *)
LEMMA DirsBuilt ==
  ASSUME NEW paths \in Seq(Dirs), paths # <<>>, paths[1] # "absent", NEW d, Standing(d, paths)
  PROVE  /\ Standing(BuildPath(d).dirs, paths)
         /\ BuildPath(d).ok => Writable(BuildPath(d).dirs, paths)
<1> DEFINE n == Len(paths)
           b == BuildPath(d)
<1>1. n \in Nat \ {0} /\ d \in Seq(Dirs) /\ Len(d) = n /\ paths \in [1..n -> Dirs]
  BY LenProperties, EmptySeq DEF Standing
<1>2. d # <<>> /\ d[1] = paths[1] /\ d[1] # "absent"
  BY <1>1, EmptySeq DEF Standing
<1>3. n # 1 /\ d[2] = "absent" => paths[2] = "absent"
  <2>1. n # 1 => 2 \in 1..n
    BY <1>1
  <2> QED
    BY <2>1 DEF Standing
<1>4. /\ b.dirs \in Seq(Dirs) /\ Len(b.dirs) = n
      /\ \A k \in 1..n : d[k] # "absent" => b.dirs[k] = d[k]
      /\ b.ok => \/ b.dirs[n] = "open"
                 \/ d[1] = "locked" /\ (n = 1 \/ d[2] = "absent")
  BY <1>1, <1>2, BuiltPath
<1> HIDE DEF b
<1>5. Standing(b.dirs, paths)
  BY <1>4 DEF Standing
<1>6. b.ok => Writable(b.dirs, paths)
  BY <1>2, <1>3, <1>4 DEF Writable
<1> QED
  BY <1>5, <1>6 DEF b

(* The elements whose streams have been created when the parser is at      *)
(* element a in phase p, those with alarms, and those with fields.         *)
Made(order, p, a) == {i \in 1..Len(order) : i < a \/ (i = a /\ p \in {"alarms", "fields"})}
Rung(order, p, a) == {i \in 1..Len(order) : i < a \/ (i = a /\ p = "fields")}
Done(order, a)    == {i \in 1..Len(order) : i < a /\ ~order[i].immutable}

(* All that is known of the list m and the directories d while the parser  *)
(* is at element a in phase p.                                             *)
ListAt(m, d, p, a, order, file, paths) ==
  /\ a \in 1..Len(order)+1
  /\ p \in {"alarms", "fields"} => a <= Len(order)
  /\ p = "accepted" => a = Len(order) + 1
  /\ p = "fields" => ~order[a].immutable
  /\ ListOf(m, Made(order, p, a), Rung(order, p, a), Done(order, a), order, file)
  /\ Standing(d, paths)
  /\ \A i \in Made(order, p, a) : "output" \in order[i].type => Writable(d, paths)

(* The steps of the parser, one lemma for each: the Registry is set up,    *)
(* ...                                                                     *)
LEMMA AtStart ==
  ASSUME NEW order, NEW file, NEW paths \in Seq(Dirs), Len(order) \in Nat
  PROVE  ListAt(FromRegistry, paths, "create", 1, order, file, paths)
<1>1. Made(order, "create", 1) = {} /\ Rung(order, "create", 1) = {} /\ Done(order, 1) = {}
  BY DEF Made, Rung, Done
<1>2. Standing(paths, paths)
  BY DEF Standing
<1>3. 1 \in 1..Len(order)+1
  OBVIOUS
<1>4. ListOf(FromRegistry, {}, {}, {}, order, file)
  BY ListStarts
<1>5. ListOf(FromRegistry, Made(order, "create", 1), Rung(order, "create", 1), Done(order, 1), order, file)
  BY <1>1, <1>4
<1> QED
  BY <1>1, <1>2, <1>3, <1>5 DEF ListAt

(* ... a stream is created, ...                                            *)
LEMMA AtCreate ==
  ASSUME NEW order, NEW file, Orders(order, file),
         NEW paths \in Seq(Dirs), paths # <<>>, paths[1] # "absent",
         NEW m, NEW d, NEW a, a <= Len(order), ListAt(m, d, "create", a, order, file, paths),
         InputOf(order[a], file) # Bad, OutputOf(order[a], file) # Bad,
         ~CreateFails(m, order[a], FileInterval(order[a], file)),
         "output" \in order[a].type => BuildPath(d).ok
  PROVE  ListAt(Created(m, order[a], FileInterval(order[a], file)),
                IF "output" \in order[a].type THEN BuildPath(d).dirs ELSE d,
                "alarms", a, order, file, paths)
<1> DEFINE c == Created(m, order[a], FileInterval(order[a], file))
           d2 == IF "output" \in order[a].type THEN BuildPath(d).dirs ELSE d
<1>1. a \in 1..Len(order) /\ Len(order) \in Nat
  BY DEF ListAt, Orders
<1>2. /\ a \notin Made(order, "create", a) /\ a \notin Rung(order, "create", a)
      /\ a \notin Done(order, a) /\ Made(order, "create", a) \in SUBSET (1..Len(order))
      /\ Made(order, "alarms", a) = Made(order, "create", a) \cup {a}
      /\ Rung(order, "alarms", a) = Rung(order, "create", a)
  BY <1>1 DEF Made, Rung, Done
<1>3. ListOf(c, Made(order, "create", a) \cup {a}, Rung(order, "create", a), Done(order, a), order, file)
  BY <1>1, <1>2, ListCreates DEF ListAt
<1>4. Standing(d2, paths) /\ ("output" \in order[a].type => Writable(d2, paths))
  BY DirsBuilt DEF ListAt
<1>5. ASSUME NEW i \in Made(order, "create", a), "output" \in order[i].type PROVE Writable(d2, paths)
  <2>1. CASE "output" \in order[a].type
    BY <1>4, <2>1
  <2>2. CASE "output" \notin order[a].type
    BY <1>5, <2>2 DEF ListAt
  <2> QED
    BY <2>1, <2>2
<1> HIDE DEF c, d2
<1>6. ListAt(c, d2, "alarms", a, order, file, paths)
  BY <1>1, <1>2, <1>3, <1>4, <1>5 DEF ListAt
<1> QED
  BY <1>6 DEF c, d2

(* ... it gets its alarms, ...                                             *)
LEMMA AtAlarms ==
  ASSUME NEW order, NEW file, Orders(order, file), NEW paths,
         NEW m, NEW d, NEW a, ListAt(m, d, "alarms", a, order, file, paths)
  PROVE  ListAt(Alarmed(m, order[a], InputOf(order[a], file), OutputOf(order[a], file)), d,
                IF order[a].immutable THEN "create" ELSE "fields",
                IF order[a].immutable THEN a + 1 ELSE a, order, file, paths)
<1> DEFINE c == Alarmed(m, order[a], InputOf(order[a], file), OutputOf(order[a], file))
           M == Made(order, "alarms", a)
           B == Rung(order, "alarms", a)
           F == Done(order, a)
<1>1. a \in 1..Len(order) /\ Len(order) \in Nat
  BY DEF ListAt, Orders
<1>2. /\ a \in M /\ a \notin B /\ M \in SUBSET (1..Len(order))
      /\ Made(order, "fields", a) = M /\ Rung(order, "fields", a) = B \cup {a}
      /\ Made(order, "create", a+1) = M /\ Rung(order, "create", a+1) = B \cup {a}
      /\ order[a].immutable => Done(order, a+1) = F
  BY <1>1 DEF Made, Rung, Done
<1>3. ListOf(m, M, B, F, order, file) /\ Standing(d, paths)
      /\ \A i \in M : "output" \in order[i].type => Writable(d, paths)
  BY DEF ListAt
<1> HIDE DEF M, B, F
<1>4. ListOf(c, M, B \cup {a}, F, order, file)
  BY <1>1, <1>2, <1>3, ListAlarms
<1> HIDE DEF c
<1>5. a + 1 \in 1..Len(order)+1 /\ a \in 1..Len(order)+1
  BY <1>1
<1>6. CASE order[a].immutable
  <2>1. ListAt(c, d, "create", a+1, order, file, paths)
    BY <1>2, <1>3, <1>4, <1>5, <1>6 DEF ListAt, F
  <2> QED
    BY <1>6, <2>1 DEF c
<1>7. CASE ~order[a].immutable
  <2>1. ListAt(c, d, "fields", a, order, file, paths)
    BY <1>1, <1>2, <1>3, <1>4, <1>5, <1>7 DEF ListAt, F
  <2> QED
    BY <1>7, <2>1 DEF c
<1> QED
  BY <1>6, <1>7

(* ... and its fields, ...                                                 *)
LEMMA AtFields ==
  ASSUME NEW order, NEW file, Orders(order, file), NEW paths,
         NEW m, NEW d, NEW a, ListAt(m, d, "fields", a, order, file, paths),
         ~(m[order[a].name].immutable /\ FieldsOf(m, order[a], file) # {})
  PROVE  ListAt([m EXCEPT ![order[a].name].fields = @ \cup FieldsOf(m, order[a], file)], d,
                "create", a + 1, order, file, paths)
<1> DEFINE c == [m EXCEPT ![order[a].name].fields = @ \cup FieldsOf(m, order[a], file)]
           M == Made(order, "fields", a)
           B == Rung(order, "fields", a)
           F == Done(order, a)
<1>1. a \in 1..Len(order) /\ Len(order) \in Nat /\ ~order[a].immutable
  BY DEF ListAt, Orders
<1>2. /\ a \notin F /\ M \in SUBSET (1..Len(order))
      /\ Made(order, "create", a+1) = M /\ Rung(order, "create", a+1) = B
      /\ Done(order, a+1) = F \cup {a}
      /\ \A i \in 1..Len(order) : i \in M <=> i <= a
  BY <1>1 DEF Made, Rung, Done
<1>3. ListOf(m, M, B, F, order, file) /\ Standing(d, paths)
      /\ \A i \in M : "output" \in order[i].type => Writable(d, paths)
  BY DEF ListAt
<1> HIDE DEF M, B, F
<1>4. ListOf(c, M, B, F \cup {a}, order, file)
  BY <1>1, <1>2, <1>3, ListFills
<1> HIDE DEF c
<1>5. a + 1 \in 1..Len(order)+1
  BY <1>1
<1>6. ListAt(c, d, "create", a+1, order, file, paths)
  BY <1>2, <1>3, <1>4, <1>5 DEF ListAt
<1> QED
  BY <1>6 DEF c

(* ... and the file has come to its end.                                   *)
LEMMA AtEnd ==
  ASSUME NEW order, NEW file, Orders(order, file), NEW paths,
         NEW m, NEW d, NEW a, ListAt(m, d, "create", a, order, file, paths), a > Len(order)
  PROVE  ListAt(m, d, "accepted", a, order, file, paths)
<1>1. a = Len(order) + 1
  BY DEF ListAt, Orders
<1>2. /\ Made(order, "accepted", a) = Made(order, "create", a)
      /\ Rung(order, "accepted", a) = Rung(order, "create", a)
  BY DEF Made, Rung
<1> QED
  BY <1>1, <1>2 DEF ListAt

(* The invariant of the parser; up to then the directories are as they     *)
(* were found.                                                             *)
ListInv ==
  /\ phase \in {"check", "mesh", "setup"} => dirs = config.dirs
  /\ phase \in Parsing =>
       ListAt(mgr, dirs, phase, at, Order, config.streams, config.dirs)

(* The order of a checked file, as the lemmas on the list want it.         *)
LEMMA OrderOrders ==
  ASSUME config \in Configs, StreamsOk(config.streams)
  PROVE  Orders(Order, config.streams)
<1> DEFINE file == config.streams
           order == Order
<1>1. DOMAIN file = 1..Len(file)
  BY ConfigFacts, LenProperties
<1>2. /\ Len(order) \in Nat
      /\ \A i \in 1..Len(order) :
           order[i] \in Element /\ \E k \in 1..Len(file) : order[i] = file[k]
      /\ \A k \in 1..Len(file) : \E i \in 1..Len(order) : order[i] = file[k]
      /\ \A i, j \in 1..Len(order) :
           /\ i # j => order[i].name # order[j].name
           /\ i < j /\ ~order[i].immutable => ~order[j].immutable
  BY CheckedOrder
<1>3. \A i \in 1..Len(order) : order[i].immutable \in BOOLEAN
  BY <1>2, ElementFacts
<1> HIDE DEF order, file
<1> QED
  BY <1>1, <1>2, <1>3 DEF Orders, order, file

(* It is inductive, given the one of the checks.                           *)
LEMMA ListInductive ==
  (Init => ListInv) /\ (CheckInv /\ ListInv /\ [Next]_vars => ListInv')
<1>1. Init => ListInv
  BY DEF Init, ListInv, Parsing
<1>2. CheckInv /\ ListInv /\ [Next]_vars => ListInv'
  <2> SUFFICES ASSUME CheckInv, ListInv, [Next]_vars PROVE ListInv'
    OBVIOUS
  <2> DEFINE order == Order
             file == config.streams
             paths == config.dirs
  <2>1. config' = config
    BY DEF Next, vars, Check, FindMesh, SetUpImmutable, Create, AddAlarms, AddFields, Accept
  <2>2. order' = order
    BY <2>1 DEF Order
  <2>3. phase \in Parsing \cup {"setup"} =>
          /\ Orders(order, file) /\ Len(order) \in Nat
          /\ paths \in Seq(Dirs) /\ paths # <<>> /\ paths[1] # "absent"
    BY OrderOrders, ConfigFacts DEF CheckInv, Checked, Parsing, Orders, Dirs
  <2>4. phase \in Parsing => ListAt(mgr, dirs, phase, at, order, file, paths)
    BY DEF ListInv
  <2>5. phase \in {"check", "mesh", "setup"} => dirs = paths
    BY DEF ListInv
  <2> SUFFICES /\ phase' \in {"check", "mesh", "setup"} => dirs' = paths
               /\ phase' \in Parsing => ListAt(mgr', dirs', phase', at', order, file, paths)
    BY <2>1, <2>2 DEF ListInv
  <2> HIDE DEF order, file, paths
  <2>6. CASE Check \/ FindMesh
    <3>1. phase \in {"check", "mesh"} /\ dirs' = dirs
          /\ phase' \in {"mesh", "setup", "failed", "crashed"}
      BY <2>6 DEF Check, FindMesh
    <3> QED
      BY <2>5, <3>1 DEF Parsing
  <2>7. CASE SetUpImmutable
    <3>1. phase = "setup" /\ mgr' = FromRegistry /\ at' = 1 /\ phase' = "create" /\ dirs' = dirs
      BY <2>7 DEF SetUpImmutable
    <3>2. ListAt(FromRegistry, paths, "create", 1, order, file, paths)
      BY <2>3, <3>1, AtStart
    <3> QED
      BY <2>5, <3>1, <3>2
  <2>8. CASE Create
    <3>1. phase = "create" /\ at <= Len(order) /\ at' = at
      BY <2>8 DEF Create, order
    <3>2. CASE phase' \notin Parsing
      <4>1. phase' \in {"failed", "crashed"}
        BY <2>8, <3>2 DEF Create, Parsing
      <4> QED
        BY <3>2, <4>1
    <3>3. CASE phase' \in Parsing
      <4> DEFINE e == order[at]
                 f == FileInterval(e, file)
      <4>1. /\ InputOf(e, file) # Bad /\ OutputOf(e, file) # Bad
            /\ ~CreateFails(mgr, e, f)
            /\ "output" \in e.type => BuildPath(dirs).ok
            /\ mgr' = Created(mgr, e, f) /\ phase' = "alarms"
            /\ dirs' = IF "output" \in e.type THEN BuildPath(dirs).dirs ELSE dirs
        BY <2>8, <3>3 DEF Create, Here, Parsing, order, file
      <4> QED
        BY <2>3, <2>4, <3>1, <4>1, AtCreate DEF Parsing
    <3> QED
      BY <3>2, <3>3
  <2>9. CASE AddAlarms
    <3>1. CASE phase' \notin Parsing
      <4>1. phase' = "failed"
        BY <2>9, <3>1 DEF AddAlarms, Parsing
      <4> QED
        BY <3>1, <4>1
    <3>2. CASE phase' \in Parsing
      <4> DEFINE e == order[at]
      <4>1. /\ phase = "alarms" /\ dirs' = dirs
            /\ mgr' = Alarmed(mgr, e, InputOf(e, file), OutputOf(e, file))
            /\ phase' = IF e.immutable THEN "create" ELSE "fields"
            /\ at' = IF e.immutable THEN at + 1 ELSE at
        BY <2>9, <3>2 DEF AddAlarms, Here, Parsing, order, file
      <4> QED
        BY <2>3, <2>4, <4>1, AtAlarms DEF Parsing
    <3> QED
      BY <3>1, <3>2
  <2>10. CASE AddFields
    <3>1. CASE phase' \notin Parsing
      <4>1. phase' \in {"failed", "crashed"}
        BY <2>10, <3>1 DEF AddFields, Parsing
      <4> QED
        BY <3>1, <4>1
    <3>2. CASE phase' \in Parsing
      <4> DEFINE e == order[at]
      <4>1. /\ phase = "fields" /\ dirs' = dirs
            /\ \A k \in 1..3 : ~Refused(mgr, e, Groups(mgr, e, file)[k].adds)
            /\ mgr' = [mgr EXCEPT ![e.name].fields = @ \cup FieldsOf(mgr, e, file)]
            /\ phase' = "create" /\ at' = at + 1
        BY <2>10, <3>2 DEF AddFields, Here, Parsing, order, file
      <4>2. ~(mgr[e.name].immutable /\ FieldsOf(mgr, e, file) # {})
        BY <4>1, GroupsAdd
      <4> QED
        BY <2>3, <2>4, <4>1, <4>2, AtFields DEF Parsing
    <3> QED
      BY <3>1, <3>2
  <2>11. CASE Accept
    <3>1. phase = "create" /\ at > Len(order) /\ phase' = "accepted" /\ UNCHANGED <<dirs, at, mgr>>
      BY <2>11 DEF Accept, order
    <3> QED
      BY <2>3, <2>4, <3>1, AtEnd DEF Parsing
  <2>12. CASE UNCHANGED vars
    <3>1. mgr' = mgr /\ dirs' = dirs /\ phase' = phase /\ at' = at
      BY <2>12 DEF vars
    <3> QED
      BY <2>4, <2>5, <3>1
  <2> QED
    BY <2>6, <2>7, <2>8, <2>9, <2>10, <2>11, <2>12 DEF Next
<1> QED
  BY <1>1, <1>2

(* What the list says when the file has been read.                         *)
LEMMA Accepted ==
  ASSUME CheckInv, ListInv, phase = "accepted", NEW i \in 1..Len(Order)
  PROVE  /\ Order[i] \in Element /\ AttributesOk(Order[i])
         /\ LetThrough(Order[i], config.streams)
         /\ ~Shadows(Order[i]) =>
              LET s == mgr[Order[i].name]
                  e == Order[i]
                  file == config.streams
              IN  /\ AsDeclared(s, e, file)
                  /\ Bells(s, e, InputOf(e, file), OutputOf(e, file))
                  /\ ~e.immutable => s.fields = Landed(Order, i)
         /\ "output" \in Order[i].type => Writable(dirs, config.dirs)
<1> DEFINE order == Order
           file == config.streams
<1>1. order[i] \in Element /\ AttributesOk(order[i]) /\ Len(order) \in Nat
  BY CheckedOrder DEF CheckInv, Checked
<1>2. ListAt(mgr, dirs, "accepted", at, order, file, config.dirs)
  BY DEF ListInv, Parsing
<1> HIDE DEF order, file
<1>3. at = Len(order) + 1 /\ i \in 1..Len(order)
  BY <1>2 DEF ListAt, order
<1>4. i \in Made(order, "accepted", at) /\ i \in Rung(order, "accepted", at)
  BY <1>1, <1>3 DEF Made, Rung
<1>5. ~order[i].immutable => i \in Done(order, at)
  BY <1>1, <1>3 DEF Done
<1>6. Entry(mgr[order[i].name], i, Rung(order, "accepted", at), Done(order, at), order, file)
  BY <1>2, <1>4 DEF ListAt, ListOf
<1>7. "output" \in order[i].type => Writable(dirs, config.dirs)
  BY <1>2, <1>4 DEF ListAt
<1> QED
  BY <1>1, <1>4, <1>5, <1>6, <1>7, Zenon DEF Entry, order, file

(* In an accepted file a mutable stream has its own fields and those of    *)
(* the streams it includes that are immutable or come later in the file,   *)
(* and no others but those of the streams it includes (the calls of        *)
(* stream_mgr_add_immutable_stream_fields_c and stream_mgr_add_field_c in  *)
(* xml_stream_parser.c).                                                   *)
THEOREM FieldsOfIncludedStreams == Spec => []IncludesLand
<1>1. CheckInv /\ ListInv => IncludesLand
  <2> SUFFICES ASSUME CheckInv, ListInv, phase = "accepted", NEW k \in DOMAIN Order,
                      ~Order[k].immutable, ~Shadows(Order[k])
               PROVE  LET e == Order[k]
                          From(n, places) ==
                            IF n \in DOMAIN Registry THEN FromRegistry[n].fields
                            ELSE UNION {Order[j].vars : j \in {i \in places : Order[i].name = n}}
                          Brought(places) ==
                            e.vars \cup FileFields(e) \cup UNION {From(n, places) : n \in e.subs}
                      IN  /\ Brought((k+1)..Len(Order)) \subseteq mgr[e.name].fields
                          /\ mgr[e.name].fields \subseteq Brought(DOMAIN Order)
    BY Zenon DEF IncludesLand
  <2> DEFINE e == Order[k]
             From(n, places) ==
               IF n \in DOMAIN Registry THEN FromRegistry[n].fields
               ELSE UNION {Order[j].vars : j \in {i \in places : Order[i].name = n}}
             Brought(places) == e.vars \cup FileFields(e) \cup UNION {From(n, places) : n \in e.subs}
             later == (k+1)..Len(Order)
  <2>1. k \in 1..Len(Order) /\ Len(Order) \in Nat /\ DOMAIN Order = 1..Len(Order)
    BY CheckedOrder DEF CheckInv, Checked
  <2>2. mgr[e.name].fields = Landed(Order, k)
    BY <2>1, Accepted
  <2>3. \A n : Brings(Order, k, n) = From(n, later)
    BY DEF Brings
  <2>4. Landed(Order, k) = FileFields(e) \cup e.vars \cup UNION {From(n, later) : n \in e.subs}
    BY <2>3 DEF Landed
  <2>5. ASSUME NEW n PROVE From(n, later) \subseteq From(n, DOMAIN Order)
    <3>1. later \subseteq DOMAIN Order
      BY <2>1
    <3> HIDE DEF later
    <3> QED
      BY <3>1
  <2> HIDE DEF From, later, e
  <2>6. UNION {From(n, later) : n \in e.subs} \subseteq UNION {From(n, DOMAIN Order) : n \in e.subs}
    BY <2>5
  <2>7. Brought(later) \subseteq mgr[e.name].fields /\ mgr[e.name].fields \subseteq Brought(DOMAIN Order)
    BY <2>2, <2>4, <2>6
  <2> QED
    BY <2>7, Zenon DEF From, later, e
<1> QED
  BY <1>1, CheckInductive, ListInductive, PTL DEF Spec

(* A stream file that is accepted means what it says: template, mode,      *)
(* alarms, file interval and directory of each stream are those it         *)
(* declares (the calls of xml_stream_parser.c on the stream manager, from  *)
(* the first to the last).                                                 *)
THEOREM AcceptedIsDeclared == Spec => []AcceptedAsDeclared
<1>1. CheckInv /\ ListInv => AcceptedAsDeclared
  <2> DEFINE file == config.streams
  <2> SUFFICES ASSUME CheckInv, ListInv, phase = "accepted", NEW e \in ToSet(file)
               PROVE  IF Shadows(e) THEN SetsMore(e, FileInterval(e, file))
      ELSE LET s == mgr[e.name]
           IN  /\ s.template = e.template /\ s.clobber = e.clobber
               /\ s.active = (e.type # {})
               /\ "input" \in e.type => s.alarms.input = Value(e.input, file)
               /\ "output" \in e.type => s.alarms.output = Value(e.output, file)
               /\ s.fint \in BorrowedNoTime(e, file) \cup {WantedInterval(e, file)}
               /\ "output" \in e.type =>
                    \/ dirs[Len(dirs)] = "open"
                    \/ /\ config.dirs[1] = "locked"
                       /\ Len(dirs) = 1 \/ config.dirs[2] = "absent"
               /\ \A f \in ToSet(file) \ {e} :
                    ~Shadows(f) /\ "output" \in e.type => mgr[f.name].template # s.template
    BY Zenon DEF AcceptedAsDeclared
  <2>1. file \in Seq(Element) /\ NamesDiffer(file) /\ StreamsOk(file)
        /\ Orders(Order, file) /\ DOMAIN file = 1..Len(file)
    BY ConfigFacts, CheckedOrder, OrderOrders, LenProperties DEF CheckInv, Checked
  <2> HIDE DEF file
  <2>2. ASSUME NEW f \in ToSet(file) PROVE \E i \in 1..Len(Order) : f = Order[i]
    <3>1. PICK k \in DOMAIN file : f = file[k]
      BY <2>2 DEF ToSet
    <3>2. \E i \in 1..Len(Order) : Order[i] = file[k]
      BY <2>1, <3>1 DEF Orders
    <3> QED
      BY <3>1, <3>2
  <2>3. ASSUME NEW f \in ToSet(file)
        PROVE  /\ f \in Element /\ AttributesOk(f) /\ LetThrough(f, file)
               /\ ~Shadows(f) =>
                    /\ AsDeclared(mgr[f.name], f, file)
                    /\ Bells(mgr[f.name], f, InputOf(f, file), OutputOf(f, file))
               /\ "output" \in f.type => Writable(dirs, config.dirs)
    <3>1. PICK i \in 1..Len(Order) : f = Order[i]
      BY <2>2
    <3> QED
      BY <3>1, Accepted, Zenon DEF file
  <2>4. CASE Shadows(e)
    BY <2>3, <2>4 DEF LetThrough
  <2>5. CASE ~Shadows(e)
    <3> DEFINE s == mgr[e.name]
    <3>1. /\ AsDeclared(s, e, file)
          /\ Bells(s, e, InputOf(e, file), OutputOf(e, file))
          /\ e \in Element /\ AttributesOk(e) /\ InputOf(e, file) # Bad /\ OutputOf(e, file) # Bad
          /\ e.input \in Interval /\ e.output \in Interval
      BY <2>3, <2>5, ElementFacts DEF LetThrough
    <3>2. InputOf(e, file) = Value(e.input, file) /\ OutputOf(e, file) = Value(e.output, file)
      BY <2>1, <3>1, ExtractIsValue DEF InputOf, OutputOf
    <3>3. FileInterval(e, file) \in BorrowedNoTime(e, file) \cup {WantedInterval(e, file)}
      BY <2>1, <3>1, FileIntervalIsWanted
    <3>4. "output" \in e.type => \/ dirs[Len(dirs)] = "open"
                                 \/ /\ config.dirs[1] = "locked"
                                    /\ Len(dirs) = 1 \/ config.dirs[2] = "absent"
      BY <2>3 DEF Writable
    <3>5. ASSUME NEW f \in ToSet(file) \ {e}, ~Shadows(f), "output" \in e.type
          PROVE  mgr[f.name].template # s.template
      <4>1. PICK k \in 1..Len(file) : e = file[k]
        BY <2>1 DEF ToSet
      <4>2. PICK l \in 1..Len(file) : f = file[l]
        BY <2>1 DEF ToSet
      <4>3. Unique(e, f)
        BY <2>1, <3>5, <4>1, <4>2 DEF StreamsOk
      <4>4. e.template # f.template
        BY <3>5, <4>3 DEF Unique
      <4>5. mgr[f.name].template = f.template
        BY <2>3, <3>5 DEF AsDeclared
      <4> QED
        BY <3>1, <4>4, <4>5 DEF AsDeclared
    <3>6. s.active = (e.type # {})
      BY <3>1 DEF AsDeclared
    <3>7. /\ s.template = e.template /\ s.clobber = e.clobber
          /\ "input" \in e.type => s.alarms.input = Value(e.input, file)
          /\ "output" \in e.type => s.alarms.output = Value(e.output, file)
          /\ s.fint \in BorrowedNoTime(e, file) \cup {WantedInterval(e, file)}
      BY <3>1, <3>2, <3>3 DEF AsDeclared, Bells
    <3> QED
      BY <2>5, <3>4, <3>5, <3>6, <3>7, Zenon
  <2> QED
    BY <2>4, <2>5
<1> QED
  BY <1>1, CheckInductive, ListInductive, PTL DEF Spec
====================================================================================
