---------------------- MODULE ConversationWindowProofs ----------------------
(***************************************************************************)
(* Proofs about the window of a conversation, for every counter that does  *)
(* not count less for more messages, and any conversations and budgets.    *)
(***************************************************************************)
EXTENDS ConversationWindow, TokenCounter, NatSetInduction, SequenceTheorems, TLAPS

\* The cut at the whole window is the window, and so is the least cut of a window
\* of one message, or of a summary and one message.
LEMMA WholeCut ==
  ASSUME NEW w \in Seq(Messages), Len(w) > 0
  PROVE  /\ Cut(w, 0) = w
         /\ Len(w) = 1 => Least(w) = w
         /\ Len(w) = 2 /\ IsSummary(w[1]) => Least(w) = w
<1>1. From(w, 0) = w
  BY SubSeqFull DEF From
<1>2. Cut(w, 0) = w
  BY <1>1 DEF Cut
<1>3. Len(w) = 1 => Least(w) = w
  BY <1>2 DEF Least
<1>4. ASSUME Len(w) = 2, IsSummary(w[1]) PROVE Least(w) = w
  <2>1. w = <<w[1]>> \o SubSeq(w, 2, 2)
    <3>1. SubSeq(w, 1, 2) = <<w[1]>> \o SubSeq(w, 1 + 1, 2)
      BY <1>4, SubSeqRecursiveFirst
    <3>2. SubSeq(w, 1, 2) = w
      BY <1>4, SubSeqFull
    <3> QED BY <3>1, <3>2
  <2>2. From(w, 1) = SubSeq(w, 2, 2)
    BY <1>4 DEF From
  <2>3. Least(w) = Cut(w, 1) /\ Cut(w, 1) = <<w[1]>> \o From(w, 1)
    BY <1>4 DEF Least, Cut
  <2> QED BY <2>1, <2>2, <2>3
<1> QED BY <1>2, <1>3, <1>4

LEMMA FromType ==
  ASSUME NEW w \in Seq(Messages), NEW i \in 0..Len(w)
  PROVE  From(w, i) \in Seq(Messages) /\ Len(From(w, i)) = Len(w) - i
BY SubSeqProperties DEF From

LEMMA CutType ==
  ASSUME NEW w \in Seq(Messages), Len(w) > 0, NEW i \in 0..Len(w)
  PROVE  Cut(w, i) \in Seq(Messages)
<1>1. From(w, i) \in Seq(Messages)
  BY FromType
<1>2. <<w[1]>> \in Seq(Messages)
  OBVIOUS
<1>3. <<w[1]>> \o From(w, i) \in Seq(Messages)
  BY <1>1, <1>2
<1> QED BY <1>1, <1>3 DEF Cut

\* The last summary, when there is one, is what LastSummaryIndex says.
LEMMA LastSummary ==
  ASSUME NEW m \in Seq(Messages), Summaries(m) # {}
  PROVE  /\ LastSummaryIndex(m) + 1 \in Summaries(m)
         /\ LastSummaryIndex(m) \in 0..(Len(m) - 1)
         /\ \A j \in Summaries(m) : j <= LastSummaryIndex(m) + 1
<1>1. Len(m) \in Nat
  OBVIOUS
<1> DEFINE D == {Len(m) - i : i \in Summaries(m)}
<1>2. D \subseteq Nat /\ D # {}
  BY <1>1 DEF Summaries
<1>3. PICK d \in D : \A e \in D : ~ (e < d)
  <2> HIDE DEF D
  <2> QED BY <1>2, LeastElement
<1>4. \E i \in Summaries(m) : \A j \in Summaries(m) : j <= i
  <2>1. PICK i \in Summaries(m) : d = Len(m) - i
    BY <1>3
  <2>2. ASSUME NEW j \in Summaries(m) PROVE j <= i
    <3>1. Len(m) - j \in D
      OBVIOUS
    <3>2. ~ (Len(m) - j < Len(m) - i)
      BY <1>3, <2>1, <3>1
    <3> QED BY <1>1, <3>2 DEF Summaries
  <2> QED BY <2>2
<1> DEFINE last == CHOOSE i \in Summaries(m) : \A j \in Summaries(m) : j <= i
<1>5. last \in Summaries(m) /\ \A j \in Summaries(m) : j <= last
  BY <1>4, Zenon
<1>6. last \in 1..Len(m)
  BY <1>5 DEF Summaries
<1>7. LastSummaryIndex(m) = last - 1
  BY Zenon DEF LastSummaryIndex
<1> HIDE DEF last
<1>8. LastSummaryIndex(m) + 1 = last /\ LastSummaryIndex(m) \in 0..(Len(m) - 1)
  BY <1>1, <1>6, <1>7
<1> QED BY <1>5, <1>8

LEMMA StartType ==
  ASSUME NEW m \in Seq(Messages)
  PROVE  /\ StartOf(m) \in 0..Len(m)
         /\ Len(m) > 0 => StartOf(m) < Len(m)
<1>1. Len(m) \in Nat
  OBVIOUS
<1>2. LastSummaryIndex(m) \in -1..(Len(m) - 1)
  <2>1. CASE Summaries(m) = {}
    BY <1>1, <2>1 DEF LastSummaryIndex
  <2>2. CASE Summaries(m) # {}
    BY <1>1, <2>2, LastSummary
  <2> QED BY <2>1, <2>2
<1> QED BY <1>1, <1>2 DEF StartOf

\* From the last summary on there is no other one.
LEMMA StartsAtSummary ==
  ASSUME NEW m \in Seq(Messages), NEW w, w = From(m, StartOf(m))
  PROVE  /\ \A i \in 2..Len(w) : ~IsSummary(w[i])
         /\ Summaries(m) # {} => Len(w) > 0 /\ IsSummary(w[1])
         /\ Summaries(m) = {} /\ Len(w) > 0 => ~IsSummary(w[1])
<1> DEFINE k == StartOf(m)
<1>1. k \in 0..Len(m) /\ Len(m) \in Nat
  BY StartType
<1>2. Len(w) = Len(m) - k /\ \A i \in 1..(Len(m) - k) : w[i] = m[k + i]
  BY <1>1, SubSeqProperties DEF From
<1>3. CASE Summaries(m) = {}
  <2>1. \A i \in 1..Len(m) : ~IsSummary(m[i])
    BY <1>3 DEF Summaries
  <2> HIDE DEF k
  <2> QED BY <1>1, <1>2, <1>3, <2>1
<1>4. CASE Summaries(m) # {}
  <2>1. k = LastSummaryIndex(m) /\ k < Len(m)
    BY <1>1, <1>4, LastSummary DEF StartOf
  <2>2. k + 1 \in Summaries(m) /\ \A j \in Summaries(m) : j <= k + 1
    BY <1>4, <2>1, LastSummary
  <2>3. IsSummary(m[k + 1])
    BY <2>2 DEF Summaries
  <2>4. \A j \in (k + 2)..Len(m) : ~IsSummary(m[j])
    BY <1>1, <2>2 DEF Summaries
  <2> HIDE DEF k
  <2>5. Len(w) > 0 /\ w[1] = m[k + 1]
    BY <1>1, <1>2, <2>1
  <2>6. ASSUME NEW i \in 2..Len(w) PROVE ~IsSummary(w[i])
    <3>1. k + i \in (k + 2)..Len(m) /\ w[i] = m[k + i]
      BY <1>1, <1>2, <2>1
    <3> QED BY <2>4, <3>1
  <2> QED BY <1>4, <2>3, <2>5, <2>6
<1> QED BY <1>3, <1>4

LEMMA Prepend ==
  ASSUME NEW x \in Messages, NEW s \in Seq(Messages)
  PROVE  /\ Len(<<x>> \o s) = 1 + Len(s)
         /\ (<<x>> \o s)[1] = x
         /\ \A j \in 2..(1 + Len(s)) : (<<x>> \o s)[j] = s[j - 1]
<1> DEFINE c == <<x>> \o s
<1>1. <<x>> \in Seq(Messages) /\ Len(<<x>>) = 1 /\ <<x>>[1] = x /\ Len(s) \in Nat
  OBVIOUS
<1>2. /\ Len(c) = Len(<<x>>) + Len(s)
      /\ \A i \in 1..(Len(<<x>>) + Len(s)) : c[i] = IF i <= Len(<<x>>) THEN <<x>>[i] ELSE s[i - Len(<<x>>)]
  BY <1>1, ConcatProperties
<1> QED BY <1>1, <1>2

\* A cut keeps a summary in front, and brings no message before it.
LEMMA CutKeepsSummary ==
  ASSUME NEW w \in Seq(Messages), NEW i \in 0..(Len(w) - 1),
         \A j \in 2..Len(w) : ~IsSummary(w[j])
  PROVE  /\ \A j \in 2..Len(Cut(w, i)) : ~IsSummary(Cut(w, i)[j])
         /\ IsSummary(w[1]) => Cut(w, i) # <<>> /\ IsSummary(Cut(w, i)[1])
<1>1. /\ Len(w) \in Nat /\ From(w, i) \in Seq(Messages)
      /\ Len(From(w, i)) = Len(w) - i
      /\ \A j \in 1..(Len(w) - i) : From(w, i)[j] = w[i + j]
  BY SubSeqProperties DEF From
<1>2. CASE IsSummary(w[1]) /\ i > 0
  <2> DEFINE c == <<w[1]>> \o From(w, i)
  <2>1. Cut(w, i) = c
    BY <1>2 DEF Cut
  <2>2. Len(c) = 1 + (Len(w) - i) /\ c[1] = w[1]
        /\ \A j \in 2..(1 + (Len(w) - i)) : c[j] = From(w, i)[j - 1]
    <3>1. w[1] \in Messages /\ c = <<w[1]>> \o From(w, i)
      BY <1>1
    <3> HIDE DEF c
    <3>2. PICK x \in Messages, s \in Seq(Messages) : x = w[1] /\ s = From(w, i)
      BY <1>1, <3>1
    <3>3. c = <<x>> \o s
      BY <3>1, <3>2
    <3>4. Len(c) = 1 + Len(s) /\ c[1] = x /\ \A j \in 2..(1 + Len(s)) : c[j] = s[j - 1]
      BY <3>3, Prepend
    <3> QED BY <1>1, <3>2, <3>4
  <2> HIDE DEF c
  <2>3. ASSUME NEW j \in 2..Len(c) PROVE ~IsSummary(c[j])
    <3>1. j - 1 \in 1..(Len(w) - i) /\ i + (j - 1) \in 2..Len(w)
      BY <1>1, <1>2, <2>2
    <3>2. c[j] = w[i + (j - 1)]
      BY <1>1, <2>2, <3>1
    <3>3. ~IsSummary(w[i + (j - 1)])
      BY <3>1
    <3> QED BY <3>2, <3>3
  <2>4. Len(c) > 0
    BY <1>1, <2>2
  <2> QED BY <1>2, <2>1, <2>2, <2>3, <2>4
<1>3. CASE ~(IsSummary(w[1]) /\ i > 0)
  <2>1. Cut(w, i) = From(w, i)
    BY <1>3 DEF Cut
  <2>2. IsSummary(w[1]) => i = 0
    BY <1>3
  <2> HIDE DEF From
  <2>3. \A j \in 2..Len(From(w, i)) : ~IsSummary(From(w, i)[j])
    <3> SUFFICES ASSUME NEW j \in 2..(Len(w) - i) PROVE ~IsSummary(From(w, i)[j])
      BY <1>1
    <3>1. j \in 1..(Len(w) - i) /\ i + j \in 2..Len(w)
      BY <1>1
    <3>2. From(w, i)[j] = w[i + j] /\ ~IsSummary(w[i + j])
      BY <1>1, <3>1
    <3> QED BY <3>2
  <2>4. ASSUME IsSummary(w[1]) PROVE From(w, i) # <<>> /\ IsSummary(From(w, i)[1])
    <3>1. i = 0
      BY <2>2, <2>4
    <3>2. Len(w) > 0 /\ 1 \in 1..(Len(w) - i) /\ i + 1 = 1
      BY <1>1, <3>1
    <3>3. From(w, i)[1] = w[1] /\ Len(From(w, i)) # 0
      BY <1>1, <3>2
    <3> QED BY <2>4, <3>3
  <2> QED BY <2>1, <2>3, <2>4
<1> QED BY <1>2, <1>3

\* A later cut of the window counts no more.
LEMMA Monotone ==
  ASSUME TypeOK, NEW k \in 0..(Len(msgs) - 1), window = From(msgs, k),
         NEW i \in 0..(Len(window) - 1)
  PROVE  /\ Count(Cut(window, i)) \in Nat
         /\ \A j \in i..(Len(window) - 1) : Count(Cut(window, j)) <= Count(Cut(window, i))
<1>1. msgs \in Seq(Messages)
  BY WindowAssumption DEF TypeOK
<1>2. Len(window) = Len(msgs) - k
  BY <1>1, FromType
<1>3. i \in 0..(Len(msgs) - k - 1)
  BY <1>1, <1>2
<1>4. /\ Count(Cut(From(msgs, k), i)) \in Nat
      /\ \A j \in i..(Len(msgs) - k - 1) :
           Count(Cut(From(msgs, k), j)) <= Count(Cut(From(msgs, k), i))
  BY <1>3, WindowAssumption DEF TypeOK
<1> QED BY <1>1, <1>2, <1>4

-----------------------------------------------------------------------------
(* The inductive invariant                                                 *)

Windowed == pc # "idle" => window = From(msgs, StartOf(msgs))

IInv == TypeOK /\ Windowed /\ Bracketed /\ LongestFit

LEMMA InitInv == Init => IInv
BY DEF Init, IInv, TypeOK, Windowed, Bracketed, LongestFit

LEMMA BeginStep == IInv /\ Begin => IInv'
<1> SUFFICES ASSUME IInv, Begin PROVE IInv'
  OBVIOUS
<1> DEFINE k == StartOf(msgs)
<1>1. /\ msgs \in Seq(Messages) /\ Len(msgs) \in Nat
      /\ k \in 0..Len(msgs)
      /\ Len(msgs) > 0 => k < Len(msgs)
  <2>1. msgs \in Seq(Messages)
    BY WindowAssumption DEF IInv, TypeOK
  <2> QED BY <2>1, StartType
<1>2. PICK w \in Seq(Messages) : w = From(msgs, k) /\ window' = w /\ Len(w) \in Nat
  BY <1>1, FromType DEF Begin
<1>3. Len(w) > 0 => k \in 0..(Len(msgs) - 1)
  BY <1>1, <1>2, FromType
<1>4. Len(w) > 0 => \A i \in 0..(Len(w) - 1) :
        /\ Count(Cut(w, i)) \in Nat
        /\ \A j \in i..(Len(w) - 1) : Count(Cut(w, j)) <= Count(Cut(w, i))
  <2>1. Len(w) = Len(msgs) - k
    BY <1>1, <1>2, FromType
  <2> QED BY <1>1, <1>2, <1>3, <2>1, WindowAssumption DEF IInv, TypeOK
<1>5. /\ Len(w) > 0 => Cut(w, 0) = w
      /\ Len(w) = 1 => Least(w) = w
      /\ Len(w) = 2 /\ IsSummary(w[1]) => Least(w) = w
      /\ Len(w) > 0 => Least(w) \in Seq(Messages)
  <2>1. /\ Len(w) > 0 => Cut(w, 0) = w
        /\ Len(w) = 1 => Least(w) = w
        /\ Len(w) = 2 /\ IsSummary(w[1]) => Least(w) = w
    <3>1. ASSUME Len(w) > 0
          PROVE  /\ Cut(w, 0) = w
                 /\ Len(w) = 1 => Least(w) = w
                 /\ Len(w) = 2 /\ IsSummary(w[1]) => Least(w) = w
      BY <3>1, WholeCut
    <3>2. Len(w) = 1 \/ Len(w) = 2 => Len(w) > 0
      OBVIOUS
    <3> QED BY <3>1, <3>2
  <2>2. ASSUME Len(w) > 0 PROVE Least(w) \in Seq(Messages)
    <3>1. Len(w) - 1 \in 0..Len(w)
      BY <1>2, <2>2
    <3> QED BY <1>2, <2>2, <3>1, CutType DEF Least
  <2> QED BY <2>1, <2>2
<1>6. Cap \in Int /\ Cap' = Cap
  BY WindowAssumption DEF Begin, IInv, TypeOK, Cap
<1>7. msgs' = msgs /\ k' = k /\ UNCHANGED <<budget, maxWindowTokens>>
  BY DEF Begin, StartOf, LastSummaryIndex, Summaries
<1>8. Windowed'
  BY <1>2, <1>7 DEF Windowed
<1> DEFINE Done(r) ==
      \/ Cap <= 0 /\ r = w
      \/ Len(w) = 0 /\ r = w
      \/ /\ Cap > 0
         /\ \E i \in 0..(Len(w) - 1) :
              /\ r = Cut(w, i)
              /\ Count(Cut(w, i)) <= Cap \/ Cut(w, i) = Least(w)
              /\ \A j \in 0..(i - 1) : Count(Cut(w, j)) > Cap \/ Cut(w, j) = r
<1> HIDE DEF k
<1>9. ASSUME NEW r \in Seq(Messages), Return(r), UNCHANGED <<lo, hi>>, Done(r) PROVE IInv'
  <2>1. TypeOK'
    BY <1>2, <1>7, <1>9 DEF IInv, TypeOK, Return
  <2>2. Bracketed'
    BY <1>9 DEF Return, Bracketed
  <2>3. LongestFit'
    BY <1>2, <1>6, <1>7, <1>9 DEF Return, LongestFit, k
  <2> QED BY <2>1, <2>2, <2>3, <1>8 DEF IInv
<1>10. CASE (Cap <= 0 \/ Len(w) = 0) /\ Return(w) /\ UNCHANGED <<lo, hi>>
  BY <1>9, <1>10, <1>2
<1>11. CASE /\ Cap > 0 /\ Len(w) > 0
            /\ Count(w) <= Cap \/ Len(w) = 1 \/ (IsSummary(w[1]) /\ Len(w) = 2)
            /\ Return(w) /\ UNCHANGED <<lo, hi>>
  <2>1. 0 \in 0..(Len(w) - 1) /\ w = Cut(w, 0)
    BY <1>2, <1>5, <1>11
  <2>2. Count(Cut(w, 0)) <= Cap \/ Cut(w, 0) = Least(w)
    BY <1>5, <1>11
  <2>3. Done(w)
    BY <1>11, <2>1, <2>2
  <2> QED BY <1>9, <1>11, <2>3
<1>12. CASE /\ Cap > 0 /\ Len(w) > 1
            /\ Count(w) > Cap /\ ~(IsSummary(w[1]) /\ Len(w) = 2)
            /\ Count(Least(w)) > Cap
            /\ Return(Least(w)) /\ UNCHANGED <<lo, hi>>
  <2> DEFINE n == Len(w) - 1
  <2>1. n \in 0..(Len(w) - 1) /\ Least(w) = Cut(w, n)
    BY <1>2, <1>12 DEF Least
  <2>2. \A j \in 0..(n - 1) : Count(Cut(w, j)) > Cap
    <3> SUFFICES ASSUME NEW j \in 0..(n - 1) PROVE Count(Cut(w, j)) > Cap
      OBVIOUS
    <3>1. Count(Cut(w, n)) <= Count(Cut(w, j)) /\ Count(Cut(w, j)) \in Nat /\ Count(Cut(w, n)) \in Nat
      BY <1>2, <1>4, <2>1, <1>12
    <3> QED BY <1>6, <1>12, <2>1, <3>1
  <2>3. Done(Least(w))
    BY <1>12, <2>1, <2>2
  <2> QED BY <1>5, <1>9, <1>12, <2>3
<1>13. CASE /\ Cap > 0 /\ Len(w) > 1
            /\ Count(w) > Cap /\ ~(IsSummary(w[1]) /\ Len(w) = 2)
            /\ Count(Least(w)) <= Cap
            /\ pc' = "searching"
            /\ lo' = IF IsSummary(w[1]) THEN 1 ELSE 0
            /\ hi' = Len(w) - 1
            /\ UNCHANGED result
  <2>1. TypeOK'
    BY <1>2, <1>7, <1>13 DEF IInv, TypeOK
  <2>2. \A i \in 0..(lo' - 1) : Count(Cut(w, i)) > Cap
    BY <1>5, <1>13
  <2>3. Bracketed'
    BY <1>2, <1>6, <1>13, <2>2 DEF Bracketed, Least
  <2>4. LongestFit'
    BY <1>13 DEF LongestFit
  <2> QED BY <1>8, <2>1, <2>3, <2>4 DEF IInv
<1> QED BY <1>2, <1>10, <1>11, <1>12, <1>13 DEF Begin

\* In the loop, all that Monotone asks for holds.
LEMMA Searching ==
  ASSUME IInv, pc = "searching"
  PROVE  /\ window \in Seq(Messages) /\ Len(window) \in Nat /\ Len(window) > 0
         /\ lo \in Nat /\ hi \in Nat /\ lo <= hi /\ hi < Len(window)
         /\ Cap \in Int
         /\ \A i \in 0..(Len(window) - 1) :
              /\ Count(Cut(window, i)) \in Nat
              /\ \A j \in i..(Len(window) - 1) : Count(Cut(window, j)) <= Count(Cut(window, i))
<1>1. /\ window \in Seq(Messages) /\ Len(window) \in Nat /\ Len(window) > 0
      /\ lo \in Nat /\ hi \in Nat /\ lo <= hi /\ hi < Len(window)
  BY DEF IInv, TypeOK, Bracketed
<1>2. msgs \in Seq(Messages) /\ window = From(msgs, StartOf(msgs))
  BY WindowAssumption DEF IInv, TypeOK, Windowed
<1>3. StartOf(msgs) \in 0..(Len(msgs) - 1)
  <2>1. Len(window) = Len(msgs) - StartOf(msgs) /\ StartOf(msgs) \in 0..Len(msgs)
    BY <1>2, StartType, FromType
  <2> QED BY <1>1, <1>2, <2>1
<1>4. Cap \in Int
  BY WindowAssumption DEF IInv, TypeOK, Cap
<1> QED BY <1>1, <1>2, <1>3, <1>4, Monotone DEF IInv

LEMMA ProbeStep == IInv /\ Probe => IInv'
<1> SUFFICES ASSUME IInv, Probe PROVE IInv'
  OBVIOUS
<1> DEFINE mid == (lo + hi) \div 2
<1>1. /\ window \in Seq(Messages) /\ Len(window) \in Nat /\ Len(window) > 0
      /\ lo \in Nat /\ hi \in Nat /\ lo < hi /\ hi < Len(window)
      /\ Cap \in Int
      /\ \A i \in 0..(Len(window) - 1) :
           /\ Count(Cut(window, i)) \in Nat
           /\ \A j \in i..(Len(window) - 1) : Count(Cut(window, j)) <= Count(Cut(window, i))
  BY Searching DEF Probe
<1>2. mid \in Nat /\ lo <= mid /\ mid < hi
  BY <1>1
<1>3. pc' = "searching" /\ UNCHANGED <<msgs, budget, maxWindowTokens, window, result>>
  BY DEF Probe
<1>4. Windowed' /\ LongestFit' /\ Cap' = Cap
  BY <1>3 DEF IInv, Probe, Windowed, StartOf, LastSummaryIndex, Summaries, LongestFit, Cap
<1> HIDE DEF mid
<1>5. CASE Count(Cut(window, mid)) <= Cap
  <2>1. hi' = mid /\ lo' = lo
    BY <1>5 DEF Probe, mid
  <2> QED BY <1>1, <1>2, <1>3, <1>4, <1>5, <2>1 DEF IInv, TypeOK, Bracketed, Probe
<1>6. CASE ~(Count(Cut(window, mid)) <= Cap)
  <2>1. lo' = mid + 1 /\ hi' = hi
    BY <1>6 DEF Probe, mid
  <2>2. \A i \in 0..mid : Count(Cut(window, i)) > Cap
    <3> SUFFICES ASSUME NEW i \in 0..mid PROVE Count(Cut(window, i)) > Cap
      OBVIOUS
    <3>1. Count(Cut(window, mid)) <= Count(Cut(window, i))
      BY <1>1, <1>2
    <3>2. Count(Cut(window, mid)) \in Nat /\ Count(Cut(window, i)) \in Nat
      BY <1>1, <1>2
    <3> QED BY <1>1, <1>6, <3>1, <3>2
  <2>3. Bracketed'
    BY <1>1, <1>2, <1>3, <1>4, <2>1, <2>2 DEF IInv, Bracketed, Probe
  <2>4. TypeOK'
    BY <1>1, <1>2, <1>3, <2>1 DEF IInv, TypeOK
  <2> QED BY <1>4, <2>3, <2>4 DEF IInv
<1> QED BY <1>5, <1>6

LEMMA FinishStep == IInv /\ Finish => IInv'
<1> SUFFICES ASSUME IInv, Finish PROVE IInv'
  OBVIOUS
<1>1. /\ window \in Seq(Messages) /\ Len(window) \in Nat /\ Len(window) > 0
      /\ lo \in Nat /\ lo = hi /\ hi < Len(window)
  BY Searching DEF Finish
<1>2. /\ Count(Cut(window, lo)) <= Cap
      /\ \A i \in 0..(lo - 1) : Count(Cut(window, i)) > Cap
  BY <1>1 DEF IInv, Bracketed, Finish
<1>3. /\ pc' = "returned" /\ result' = Cut(window, lo)
      /\ UNCHANGED <<msgs, budget, maxWindowTokens, window, lo, hi>>
  BY DEF Finish, Return
<1>4. Windowed' /\ Bracketed' /\ Cap' = Cap /\ StartOf(msgs)' = StartOf(msgs)
  BY <1>3 DEF IInv, Finish, Windowed, StartOf, LastSummaryIndex, Summaries, Bracketed, Cap
<1>5. TypeOK'
  BY <1>1, <1>3, CutType DEF IInv, TypeOK
<1>6. Cap > 0 /\ window = From(msgs, StartOf(msgs))
  BY DEF IInv, Windowed, Bracketed, Finish
<1>7. \E i \in 0..(Len(window) - 1) :
        /\ result' = Cut(window, i)
        /\ Count(Cut(window, i)) <= Cap
        /\ \A j \in 0..(i - 1) : Count(Cut(window, j)) > Cap
  BY <1>1, <1>2, <1>3
<1>8. From(msgs, StartOf(msgs))' = window
  BY <1>3, <1>4, <1>6
<1> HIDE DEF Cap
<1>9. LongestFit'
  BY <1>4, <1>6, <1>7, <1>8, Zenon DEF LongestFit
<1> QED BY <1>4, <1>5, <1>9 DEF IInv

LEMMA StutterStep == IInv /\ UNCHANGED vars => IInv'
<1> SUFFICES ASSUME IInv, UNCHANGED vars PROVE IInv'
  OBVIOUS
<1>1. StartOf(msgs)' = StartOf(msgs) /\ Cap' = Cap
  BY DEF vars, StartOf, LastSummaryIndex, Summaries, Cap
<1>2. TypeOK' /\ Windowed'
  BY <1>1 DEF vars, IInv, TypeOK, Windowed
<1>3. Bracketed'
  BY <1>1 DEF vars, IInv, Bracketed
<1>4. LongestFit'
  BY <1>1 DEF vars, IInv, LongestFit
<1> QED BY <1>2, <1>3, <1>4 DEF IInv

\* The bisection's bracket is never lost (conversation.go:125-133, 153-163).
THEOREM BisectionBrackets == Spec => [](TypeOK /\ Bracketed)
<1>1. IInv => TypeOK /\ Bracketed
  BY DEF IInv
<1> QED BY <1>1, StutterStep, InitInv, BeginStep, ProbeStep, FinishStep, PTL DEF Spec, Next

\* Whatever the conversation, the budget and the counter, SelectWindow returns the
\* longest cut that fits the budget (conversation.go:84-171).
THEOREM WindowIsLongestFit == Spec => []LongestFit
<1>1. IInv => LongestFit
  BY DEF IInv
<1> QED BY <1>1, StutterStep, InitInv, BeginStep, ProbeStep, FinishStep, PTL DEF Spec, Next

\* The window of a conversation that has summaries begins with the last of them and
\* has no other, whatever the budget (conversation.go:84, 96-101).
THEOREM WindowBeginsAtSummary == Spec => []BeginsAtLastSummary
<1>1. IInv => BeginsAtLastSummary
  <2> SUFFICES ASSUME IInv, pc = "returned"
               PROVE  /\ \A i \in 2..Len(result) : ~IsSummary(result[i])
                      /\ Summaries(msgs) # {} => result # <<>> /\ IsSummary(result[1])
    BY DEF BeginsAtLastSummary
  <2> DEFINE w == From(msgs, StartOf(msgs))
  <2>1. msgs \in Seq(Messages)
    BY WindowAssumption DEF IInv, TypeOK
  <2>2. w \in Seq(Messages)
    BY <2>1, StartType, FromType
  <2>3. /\ \A i \in 2..Len(w) : ~IsSummary(w[i])
        /\ Summaries(msgs) # {} => Len(w) > 0 /\ IsSummary(w[1])
    BY <2>1, StartsAtSummary
  <2>4. result = w \/ \E i \in 0..(Len(w) - 1) : result = Cut(w, i)
    BY DEF IInv, LongestFit
  <2> HIDE DEF w
  <2>5. CASE result = w
    BY <2>2, <2>3, <2>5
  <2>6. ASSUME NEW i \in 0..(Len(w) - 1), result = Cut(w, i)
        PROVE  /\ \A j \in 2..Len(result) : ~IsSummary(result[j])
               /\ Summaries(msgs) # {} => result # <<>> /\ IsSummary(result[1])
    BY <2>2, <2>3, <2>6, CutKeepsSummary
  <2> QED BY <2>4, <2>5, <2>6
<1> QED BY <1>1, StutterStep, InitInv, BeginStep, ProbeStep, FinishStep, PTL DEF Spec, Next

-----------------------------------------------------------------------------
(* The default counter                                                     *)

Sized == [size : Nat, summary : BOOLEAN]

\* The windows of a store with the default counter.
Default == INSTANCE ConversationWindow WITH
  IsSummary <- MarkedSummary, Count <- DefaultTokenCounter

\* f adds up the sizes of the messages of w.
Totals(w, f) ==
  /\ f \in [0..Len(w) -> Nat]
  /\ f[0] = 0
  /\ \A i \in 1..Len(w) : f[i] = f[i - 1] + w[i].size

LEMMA TotalsExist ==
  ASSUME NEW w \in Seq(Sized)
  PROVE  \E f : Totals(w, f)
<1> DEFINE Upto(k, f) == /\ f \in [0..k -> Nat]
                         /\ f[0] = 0
                         /\ \A i \in 1..k : f[i] = f[i - 1] + w[i].size
           S == {k \in 0..Len(w) : \E f : Upto(k, f)}
<1>1. Len(w) \in Nat /\ \A i \in 1..Len(w) : w[i] \in Sized
  OBVIOUS
<1>2. 0 \in S
  <2> DEFINE g == [i \in {0} |-> 0]
  <2>1. g \in [{0} -> Nat] /\ g[0] = 0 /\ 0..0 = {0} /\ 1..0 = {}
    OBVIOUS
  <2>2. 0 \in 0..Len(w)
    BY <1>1
  <2>3. Upto(0, g)
    <3> HIDE DEF g
    <3> QED BY <2>1
  <2> HIDE DEF g, Upto
  <2> QED BY <2>2, <2>3
<1>3. ASSUME NEW k \in 0..(Len(w) - 1), k \in S PROVE k + 1 \in S
  <2>1. PICK f : Upto(k, f)
    BY <1>3
  <2>2. w[k + 1].size \in Nat /\ k + 1 \in 0..Len(w)
    BY <1>1 DEF Sized
  <2> DEFINE g == [i \in 0..(k + 1) |-> IF i <= k THEN f[i] ELSE f[k] + w[k + 1].size]
  <2>3. Upto(k + 1, g)
    <3>1. g \in [0..(k + 1) -> Nat]
      <4>1. ASSUME NEW i \in 0..(k + 1)
            PROVE  (IF i <= k THEN f[i] ELSE f[k] + w[k + 1].size) \in Nat
        <5>1. CASE i <= k
          BY <2>1, <5>1
        <5>2. CASE ~(i <= k)
          BY <2>1, <2>2, <5>2
        <5> QED BY <5>1, <5>2
      <4> QED BY <4>1
    <3>2. g[0] = 0
      BY <2>1
    <3>3. ASSUME NEW i \in 1..(k + 1) PROVE g[i] = g[i - 1] + w[i].size
      <4>1. i - 1 \in 0..(k + 1) /\ i - 1 <= k /\ i \in 0..(k + 1)
        OBVIOUS
      <4>2. g[i - 1] = f[i - 1]
        BY <4>1
      <4>3. CASE i <= k
        <5>1. g[i] = f[i] /\ i \in 1..k
          BY <4>1, <4>3
        <5> QED BY <2>1, <4>2, <5>1
      <4>4. CASE ~(i <= k)
        <5>1. i = k + 1 /\ i - 1 = k
          BY <4>4
        <5>2. g[i] = f[k] + w[k + 1].size
          BY <4>1, <4>4
        <5> QED BY <4>2, <5>1, <5>2
      <4> QED BY <4>3, <4>4
    <3> HIDE DEF g
    <3> QED BY <3>1, <3>2, <3>3
  <2> HIDE DEF g, Upto
  <2> QED BY <2>2, <2>3
<1>4. Len(w) \in S
  <2>1. \A k \in 0..(Len(w) - 1) : k \in S => k + 1 \in S
    BY <1>3
  <2> HIDE DEF S
  <2>2. \A k \in 0..Len(w) : k \in S
    BY <1>1, <1>2, <2>1, BoundedInduction
  <2> QED BY <1>1, <2>2
<1> QED BY <1>4 DEF Totals

\* The total is the last of these sums.
LEMMA TotalIs ==
  ASSUME NEW w \in Seq(Sized), NEW f, Totals(w, f)
  PROVE  TotalSize(w) = f[Len(w)] /\ TotalSize(w) \in Nat
<1> DEFINE Recursive(g) == g = [i \in 0..Len(w) |-> IF i = 0 THEN 0 ELSE g[i - 1] + w[i].size]
<1>1. Len(w) \in Nat
  OBVIOUS
<1>2. Recursive(f)
  BY <1>1 DEF Totals
<1>3. \E g : Recursive(g) /\ TotalSize(w) = g[Len(w)]
  BY <1>2 DEF TotalSize
<1>4. PICK g : Recursive(g) /\ TotalSize(w) = g[Len(w)]
  BY <1>3
<1> DEFINE S == {i \in 0..Len(w) : g[i] = f[i]}
<1>5. 0 \in S
  BY <1>1, <1>4 DEF Totals
<1>6. ASSUME NEW i \in 0..(Len(w) - 1), i \in S PROVE i + 1 \in S
  BY <1>1, <1>4, <1>6 DEF Totals
<1>7. Len(w) \in S
  <2>1. \A i \in 0..(Len(w) - 1) : i \in S => i + 1 \in S
    BY <1>6
  <2> HIDE DEF S
  <2>2. \A i \in 0..Len(w) : i \in S
    BY <1>1, <1>5, <2>1, BoundedInduction
  <2> QED BY <1>1, <2>2
<1> QED BY <1>1, <1>4, <1>7 DEF Totals

\* The sums only grow, from the first message on.
LEMMA TotalsGrow ==
  ASSUME NEW w \in Seq(Sized), NEW f, Totals(w, f),
         NEW i \in 0..Len(w), NEW j \in i..Len(w)
  PROVE  f[i] <= f[j]
<1>1. Len(w) \in Nat /\ \A k \in 1..Len(w) : w[k].size \in Nat
  <2>1. Len(w) \in Nat /\ \A k \in 1..Len(w) : w[k] \in Sized
    OBVIOUS
  <2> QED BY <2>1 DEF Sized
<1> DEFINE S == {d \in 0..(Len(w) - i) : f[i] <= f[i + d]}
<1>2. 0 \in S
  BY <1>1 DEF Totals
<1>3. ASSUME NEW d \in 0..(Len(w) - i - 1), d \in S PROVE d + 1 \in S
  <2>1. i + d + 1 \in 1..Len(w) /\ i + d \in 0..Len(w) /\ (i + d + 1) - 1 = i + d
    BY <1>1
  <2>2. f[i + d + 1] = f[i + d] + w[i + d + 1].size
    BY <2>1 DEF Totals
  <2>3. f[i] \in Nat /\ f[i + d] \in Nat /\ w[i + d + 1].size \in Nat /\ f[i] <= f[i + d]
    BY <1>1, <1>3, <2>1 DEF Totals
  <2>4. i + (d + 1) = i + d + 1 /\ d + 1 \in 0..(Len(w) - i)
    BY <1>1
  <2>5. f[i] <= f[i + (d + 1)]
    <3>1. \A a, b, c \in Nat : a <= b => a <= b + c
      OBVIOUS
    <3>2. f[i + (d + 1)] = f[i + d] + w[i + d + 1].size
      BY <2>2, <2>4
    <3> HIDE DEF S
    <3> QED BY <2>3, <3>1, <3>2
  <2> QED BY <2>4, <2>5
<1>4. j - i \in S
  <2>1. Len(w) - i \in Nat /\ j - i \in 0..(Len(w) - i)
    BY <1>1
  <2>2. \A d \in 0..((Len(w) - i) - 1) : d \in S => d + 1 \in S
    BY <1>3
  <2> HIDE DEF S
  <2> QED BY <1>2, <2>1, <2>2, BoundedInduction
<1> QED BY <1>1, <1>4

LEMMA Differences ==
  \A a, b, s, t \in Nat :
    /\ b <= a => s + a - b \in Nat
    /\ (a - b) + t = (a + t) - b
    /\ (s + a - b) + t = s + (a + t) - b
OBVIOUS

\* What the messages from the i-th on add up to, and with a message before them.
LEMMA TotalFrom ==
  ASSUME NEW w \in Seq(Sized), NEW f, Totals(w, f), NEW i \in 0..Len(w)
  PROVE  /\ Default!From(w, i) \in Seq(Sized)
         /\ TotalSize(Default!From(w, i)) = f[Len(w)] - f[i]
         /\ Len(w) > 0 => TotalSize(<<w[1]>> \o Default!From(w, i)) = w[1].size + f[Len(w)] - f[i]
<1> DEFINE n == Len(w)
           v == Default!From(w, i)
           u == <<w[1]>> \o v
           g == [j \in 0..(n - i) |-> f[i + j] - f[i]]
           h == [j \in 0..(n - i + 1) |-> IF j = 0 THEN 0 ELSE w[1].size + f[i + j - 1] - f[i]]
<1>1. n \in Nat /\ i \in Int /\ 0 <= i /\ i <= n
  OBVIOUS
<1>2. v \in Seq(Sized) /\ Len(v) = n - i /\ \A j \in 1..(n - i) : v[j] = w[i + j]
  BY <1>1, SubSeqProperties DEF Default!From
<1>3. \A j \in 0..n : f[j] \in Nat
  BY DEF Totals
<1>4. \A j \in 0..(n - i) : i + j \in 0..n /\ f[i] <= f[i + j] /\ f[i + j] \in Nat
  <2> SUFFICES ASSUME NEW j \in 0..(n - i) PROVE i + j \in i..n /\ f[i] <= f[i + j] /\ i + j \in 0..n
    BY <1>3
  <2>1. i + j \in i..n /\ i + j \in 0..n
    BY <1>1
  <2> QED BY <2>1, TotalsGrow
<1>5. \A j \in 1..(n - i) : /\ f[i + j] = f[i + j - 1] + w[i + j].size
                            /\ w[i + j].size \in Nat /\ i + j - 1 \in 0..n
  <2> SUFFICES ASSUME NEW j \in 1..(n - i)
               PROVE  /\ f[i + j] = f[i + j - 1] + w[i + j].size
                      /\ w[i + j].size \in Nat /\ i + j - 1 \in 0..n
    OBVIOUS
  <2>1. i + j \in 1..n /\ i + j - 1 \in 0..n
    BY <1>1
  <2>2. w[i + j] \in Sized
    BY <2>1
  <2>3. f[i + j] = f[(i + j) - 1] + w[i + j].size
    BY <2>1 DEF Totals
  <2>4. w[i + j].size \in Nat
    BY <2>2 DEF Sized
  <2> QED BY <2>1, <2>3, <2>4
<1>6. Totals(v, g)
  <2>1. g \in [0..(n - i) -> Nat]
    <3>1. ASSUME NEW j \in 0..(n - i) PROVE f[i + j] - f[i] \in Nat
      <4>1. f[i + j] \in Nat /\ f[i] \in Nat /\ f[i] <= f[i + j]
        BY <1>1, <1>3, <1>4
      <4> QED BY <4>1
    <3> QED BY <3>1
  <2>0. g[0] = 0
    <3>1. 0 \in 0..(n - i) /\ i + 0 = i /\ f[i] \in Nat
      BY <1>1, <1>3
    <3>2. g[0] = f[i] - f[i]
      BY <3>1
    <3> QED BY <3>1, <3>2
  <2>2. ASSUME NEW j \in 1..(n - i) PROVE g[j] = g[j - 1] + v[j].size
    <3>1. g[j] = f[i + j] - f[i] /\ g[j - 1] = f[i + j - 1] - f[i] /\ f[i] \in Nat
      <4>1. j - 1 \in 0..(n - i) /\ i + (j - 1) = i + j - 1
        BY <1>1
      <4> QED BY <1>1, <1>3, <4>1
    <3>2. f[i + j] = f[i + j - 1] + w[i + j].size /\ f[i + j - 1] \in Nat /\ w[i + j].size \in Nat
      BY <1>3, <1>5
    <3>3. v[j] = w[i + j]
      BY <1>2
    <3>4. g[j - 1] + w[i + j].size = f[i + j] - f[i]
      BY <3>1, <3>2, Differences
    <3> HIDE DEF v, g
    <3> QED BY <3>1, <3>3, <3>4
  <2> HIDE DEF v, g
  <2> QED BY <1>2, <2>0, <2>1, <2>2 DEF Totals
<1>7. TotalSize(v) = f[n] - f[i]
  <2>1. TotalSize(v) = g[n - i]
    <3> HIDE DEF v, g
    <3> QED BY <1>2, <1>6, TotalIs
  <2> QED BY <1>1, <2>1
<1>8. ASSUME n > 0 PROVE TotalSize(u) = w[1].size + f[n] - f[i]
  <2>1. w[1] \in Sized /\ w[1].size \in Nat
    <3>1. w[1] \in Sized
      BY <1>1, <1>8
    <3> QED BY <3>1 DEF Sized
  <2>2. /\ u \in Seq(Sized) /\ Len(u) = n - i + 1 /\ u[1] = w[1]
        /\ \A j \in 2..(n - i + 1) : u[j] = v[j - 1]
    <3> HIDE DEF v
    <3> QED BY <1>1, <1>2, <2>1
  <2>0. h[0] = 0
    BY <1>1
  <2>3. h \in [0..(n - i + 1) -> Nat]
    <3>1. ASSUME NEW j \in 1..(n - i + 1) PROVE w[1].size + f[i + j - 1] - f[i] \in Nat
      <4>1. j - 1 \in 0..(n - i) /\ i + (j - 1) = i + j - 1
        BY <1>1
      <4>2. f[i + j - 1] \in Nat /\ f[i] <= f[i + j - 1] /\ f[i] \in Nat
        BY <1>3, <1>4, <4>1
      <4> QED BY <2>1, <4>2, Differences
    <3>2. ASSUME NEW j \in 0..(n - i + 1)
          PROVE  (IF j = 0 THEN 0 ELSE w[1].size + f[i + j - 1] - f[i]) \in Nat
      <4>1. CASE j = 0
        BY <4>1
      <4>2. CASE j # 0
        <5>1. j \in 1..(n - i + 1)
          BY <1>1, <4>2
        <5> QED BY <3>1, <4>2, <5>1
      <4> QED BY <4>1, <4>2
    <3> QED BY <3>2
  <2>4. ASSUME NEW j \in 1..(n - i + 1) PROVE h[j] = h[j - 1] + u[j].size
    <3>1. CASE j = 1
      <4>1. h[1] = w[1].size + f[i + 1 - 1] - f[i] /\ i + 1 - 1 = i /\ f[i] \in Nat
        BY <1>1, <1>3
      <4> HIDE DEF h, u
      <4>2. h[1] = w[1].size
        BY <2>1, <4>1
      <4> QED BY <2>0, <2>1, <2>2, <3>1, <4>2
    <3>2. CASE j # 1
      <4>1. j - 1 \in 1..(n - i) /\ i + (j - 1) = i + j - 1 /\ i + (j - 1) - 1 = i + j - 1 - 1
            /\ j \in 2..(n - i + 1)
        BY <1>1, <3>2
      <4>2. h[j] = w[1].size + f[i + j - 1] - f[i] /\ h[j - 1] = w[1].size + f[i + j - 1 - 1] - f[i]
        BY <1>1, <4>1
      <4>3. u[j] = w[i + j - 1]
        BY <1>2, <2>2, <4>1
      <4>4. /\ f[i + j - 1] = f[i + j - 1 - 1] + w[i + j - 1].size
            /\ f[i + j - 1 - 1] \in Nat /\ w[i + j - 1].size \in Nat /\ f[i] \in Nat
        BY <1>3, <1>5, <4>1
      <4> HIDE DEF h, u
      <4> DEFINE a == f[i + j - 1 - 1]
                 b == f[i]
                 s == w[1].size
                 t == w[i + j - 1].size
      <4>0. a \in Nat /\ b \in Nat /\ s \in Nat /\ t \in Nat
        BY <2>1, <4>4
      <4>5. (s + a - b) + t = s + (a + t) - b
        <5> HIDE DEF a, b, s, t
        <5> QED BY <4>0
      <4>6. f[i + j - 1] = f[i + j - 1 - 1] + w[i + j - 1].size
        BY <4>4
      <4>7. h[j - 1] + u[j].size = w[1].size + f[i + j - 1] - f[i]
        BY <4>2, <4>3, <4>5, <4>6, Zenon
      <4> QED BY <4>2, <4>7, Zenon
    <3> QED BY <3>1, <3>2
  <2>5. Totals(u, h)
    <3> HIDE DEF u, h
    <3> QED BY <2>0, <2>2, <2>3, <2>4 DEF Totals
  <2>6. TotalSize(u) = h[n - i + 1]
    <3> HIDE DEF u, h
    <3> QED BY <2>2, <2>5, TotalIs
  <2>7. i + (n - i + 1) - 1 = n /\ n - i + 1 \in 0..(n - i + 1) /\ n - i + 1 # 0
    BY <1>1
  <2> QED BY <2>6, <2>7
<1> QED BY <1>2, <1>7, <1>8

\* The more characters, the more tokens.
LEMMA TokensGrow ==
  ASSUME NEW v, NEW w, TotalSize(v) \in Nat, TotalSize(w) \in Nat, TotalSize(v) <= TotalSize(w)
  PROVE  /\ DefaultTokenCounter(v) \in Nat
         /\ DefaultTokenCounter(v) <= DefaultTokenCounter(w)
<1> DEFINE Tokens(t) == IF t \div 4 = 0 /\ t > 0 THEN 1 ELSE t \div 4
<1>1. DefaultTokenCounter(v) = Tokens(TotalSize(v)) /\ DefaultTokenCounter(w) = Tokens(TotalSize(w))
  BY DEF DefaultTokenCounter
<1>2. \A s, t \in Nat : s <= t => Tokens(s) \in Nat /\ Tokens(s) <= Tokens(t)
  OBVIOUS
<1> HIDE DEF Tokens
<1> QED BY <1>1, <1>2

\* A cut further on is no larger: the summary that stays is one of the messages
\* the cut at its end would take away.
LEMMA CutsShrink ==
  ASSUME NEW w \in Seq(Sized), Len(w) > 0,
         NEW i \in 0..(Len(w) - 1), NEW j \in i..(Len(w) - 1)
  PROVE  /\ TotalSize(Default!Cut(w, i)) \in Nat
         /\ TotalSize(Default!Cut(w, j)) \in Nat
         /\ TotalSize(Default!Cut(w, j)) <= TotalSize(Default!Cut(w, i))
<1>1. PICK f : Totals(w, f)
  BY TotalsExist
<1> DEFINE n == Len(w)
           Kept(k) == IF w[1].summary /\ k > 0 THEN w[1].size ELSE 0
<1>2. /\ n \in Nat /\ n > 0 /\ i \in 0..n /\ j \in i..n /\ j \in 0..n
      /\ 1 \in 1..n /\ 1 \in 0..n /\ 0 \in 0..n /\ n \in 0..n
  OBVIOUS
<1>3. w[1].size \in Nat
  <2>1. w[1] \in Sized
    BY <1>2
  <2> QED BY <2>1 DEF Sized
<1>4. f[1] = w[1].size /\ \A k \in 0..n : f[k] \in Nat
  <2>1. f[1] = f[1 - 1] + w[1].size /\ f[0] = 0 /\ f \in [0..n -> Nat]
    BY <1>1, <1>2 DEF Totals
  <2>2. f[1] = w[1].size
    BY <1>3, <2>1
  <2> QED BY <2>1, <2>2
<1>5. ASSUME NEW k \in 0..n
      PROVE  TotalSize(Default!Cut(w, k)) = Kept(k) + f[n] - f[k]
  <2>1. /\ TotalSize(Default!From(w, k)) = f[n] - f[k]
        /\ TotalSize(<<w[1]>> \o Default!From(w, k)) = w[1].size + f[n] - f[k]
    BY <1>1, <1>2, TotalFrom
  <2>2. CASE w[1].summary /\ k > 0
    BY <2>1, <2>2 DEF Default!Cut, MarkedSummary
  <2>3. CASE ~(w[1].summary /\ k > 0)
    <3>1. Default!Cut(w, k) = Default!From(w, k) /\ Kept(k) = 0
      BY <2>3 DEF Default!Cut, MarkedSummary
    <3>2. f[n] \in Nat /\ f[k] \in Nat
      BY <1>2, <1>4
    <3> QED BY <2>1, <3>1, <3>2
  <2> QED BY <2>2, <2>3
<1>6. f[i] <= f[j] /\ f[i] <= f[n] /\ f[j] <= f[n]
  BY <1>1, <1>2, TotalsGrow
<1>7. i = 0 /\ j > 0 => f[i] = 0 /\ w[1].size <= f[j]
  <2> SUFFICES ASSUME i = 0, j > 0 PROVE f[0] = 0 /\ f[1] <= f[j]
    BY <1>4
  <2>1. j \in 1..Len(w) /\ 1 \in 0..Len(w)
    BY <1>2
  <2> QED BY <1>1, <2>1, TotalsGrow DEF Totals
<1>8. /\ Kept(i) \in Nat /\ Kept(j) \in Nat
      /\ Kept(i) = Kept(j) \/ (i = 0 /\ j > 0 /\ Kept(i) = 0 /\ Kept(j) = w[1].size)
  BY <1>2, <1>3
<1>9. f[i] \in Nat /\ f[j] \in Nat /\ f[n] \in Nat
  BY <1>2, <1>4
<1>10. /\ TotalSize(Default!Cut(w, i)) = Kept(i) + f[n] - f[i]
       /\ TotalSize(Default!Cut(w, j)) = Kept(j) + f[n] - f[j]
  BY <1>2, <1>5
<1> DEFINE ti == TotalSize(Default!Cut(w, i))
           tj == TotalSize(Default!Cut(w, j))
           ki == Kept(i)
           kj == Kept(j)
           fi == f[i]
           fj == f[j]
           fn == f[n]
           s == w[1].size
<1>11. ki \in Nat /\ kj \in Nat /\ (ki = kj \/ (fi = 0 /\ s <= fj /\ ki = 0 /\ kj = s))
  BY <1>7, <1>8
<1>12. fi <= fj /\ fi <= fn /\ fj <= fn /\ fi \in Nat /\ fj \in Nat /\ fn \in Nat /\ s \in Nat
  BY <1>3, <1>6, <1>9
<1>13. ti = ki + fn - fi /\ tj = kj + fn - fj
  BY <1>10
<1> HIDE DEF ti, tj, ki, kj, fi, fj, fn, s
<1>14. ti \in Nat /\ tj \in Nat /\ tj <= ti
  BY <1>11, <1>12, <1>13
<1> QED BY <1>14 DEF ti, tj

\* The default counter is one the theorems of this module hold for: of sized
\* messages it counts no more in a cut further on (libs/counter, the bisection of
\* conversation.go:126-133).
THEOREM DefaultCounterSuits ==
  ASSUME Messages \subseteq Sized, Conversations \subseteq Seq(Messages),
         Budgets \subseteq Int, StoreBudgets \subseteq Nat
  PROVE  Default!WindowAssumption
<1>1. ASSUME NEW m \in Conversations, NEW k \in 0..(Len(m) - 1),
             NEW i \in 0..(Len(m) - k - 1), NEW j \in i..(Len(m) - k - 1)
      PROVE  /\ DefaultTokenCounter(Default!Cut(Default!From(m, k), i)) \in Nat
             /\ DefaultTokenCounter(Default!Cut(Default!From(m, k), j))
                  <= DefaultTokenCounter(Default!Cut(Default!From(m, k), i))
  <2> DEFINE w == Default!From(m, k)
  <2>1. m \in Seq(Sized)
    <3>1. m \in Seq(Messages)
      OBVIOUS
    <3>2. Len(m) \in Nat /\ \A l \in 1..Len(m) : m[l] \in Sized
      BY <3>1
    <3> QED BY <3>1, <3>2
  <2>2. w \in Seq(Sized) /\ Len(w) = Len(m) - k
    <3>1. Len(m) \in Nat /\ k \in 0..Len(m)
      BY <2>1
    <3> QED BY <2>1, <3>1, SubSeqProperties DEF Default!From
  <2>3. Len(w) > 0 /\ i \in 0..(Len(w) - 1) /\ j \in i..(Len(w) - 1)
    <3>1. Len(m) \in Nat
      BY <2>1
    <3> QED BY <2>2, <3>1
  <2> HIDE DEF w
  <2>4. /\ TotalSize(Default!Cut(w, i)) \in Nat
        /\ TotalSize(Default!Cut(w, j)) \in Nat
        /\ TotalSize(Default!Cut(w, j)) <= TotalSize(Default!Cut(w, i))
    BY <2>2, <2>3, CutsShrink
  <2>5. DefaultTokenCounter(Default!Cut(w, i)) \in Nat
    BY <2>4, TokensGrow
  <2>6. DefaultTokenCounter(Default!Cut(w, j)) <= DefaultTokenCounter(Default!Cut(w, i))
    BY <2>4, TokensGrow
  <2> QED BY <2>5, <2>6 DEF w
<1>2. ASSUME NEW m \in Conversations, NEW k \in 0..(Len(m) - 1), NEW i \in 0..(Len(m) - k - 1)
      PROVE  DefaultTokenCounter(Default!Cut(Default!From(m, k), i)) \in Nat
  <2>1. i \in i..(Len(m) - k - 1)
    <3>1. Len(m) \in Nat
      OBVIOUS
    <3> QED BY <3>1
  <2> QED BY <1>1, <2>1
<1> QED BY <1>1, <1>2 DEF Default!WindowAssumption
=============================================================================
