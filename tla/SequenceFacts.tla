--------------------------- MODULE SequenceFacts ---------------------------
(***************************************************************************)
(* Facts about sequences, sets and division that the proofs of several     *)
(* components use, and about histories of events in windows: how the       *)
(* relation Window between a history, a count and the window's start       *)
(* survives what a log monitor does: time passes, a window opens, an event *)
(* is counted, a count starts again.                                       *)
(***************************************************************************)
EXTENDS TumblingWindow, SequencesExt, SequenceTheorems, FiniteSetTheorems,
        WellFoundedInduction, TLAPS

(* An appended sequence keeps its elements and ends with the new one. *)
LEMMA AppendFacts ==
  ASSUME NEW S, NEW s \in Seq(S), NEW e \in S
  PROVE  /\ Append(s, e) \in Seq(S)
         /\ Len(Append(s, e)) = Len(s) + 1
         /\ \A i \in 1..Len(s) : Append(s, e)[i] = s[i]
         /\ Append(s, e)[Len(s) + 1] = e
  OBVIOUS

(* The head and the tail of a sequence that is not empty. *)
LEMMA TailFacts ==
  ASSUME NEW S, NEW s \in Seq(S), s # <<>>
  PROVE  /\ Head(s) \in S
         /\ Head(s) = s[1]
         /\ Tail(s) \in Seq(S)
         /\ Len(s) \in Nat \ {0}
         /\ Len(Tail(s)) = Len(s) - 1
         /\ \A i \in 1..Len(Tail(s)) : Tail(s)[i] = s[i + 1]
  OBVIOUS

(* A concatenation keeps the elements of both. *)
LEMMA ConcatFacts ==
  ASSUME NEW S, NEW s \in Seq(S), NEW t \in Seq(S)
  PROVE  /\ s \o t \in Seq(S)
         /\ Len(s) \in Nat /\ Len(t) \in Nat
         /\ Len(s \o t) = Len(s) + Len(t)
         /\ \A i \in 1..Len(s) : (s \o t)[i] = s[i]
         /\ \A i \in 1..Len(t) : (s \o t)[Len(s) + i] = t[i]
  OBVIOUS

(* The last n elements of a sequence. *)
LEMMA LastOnes ==
  ASSUME NEW S, NEW s \in Seq(S), NEW n \in 1..Len(s),
         NEW t, t = SubSeq(s, Len(s) - n + 1, Len(s))
  PROVE  /\ t \in Seq(S)
         /\ Len(t) = n
         /\ \A i \in 1..n : t[i] = s[Len(s) - n + i]
<1>1. PICK len \in Nat : len = Len(s)
  OBVIOUS
<1> DEFINE first == len - n + 1
<1>2. first \in 1..len /\ len - first + 1 = n
  BY <1>1
<1>3. \A i \in first..len : s[i] \in S
  BY <1>1, <1>2
<1>4. /\ SubSeq(s, first, len) \in Seq(S)
      /\ Len(SubSeq(s, first, len)) = len - first + 1
      /\ \A i \in 1..len - first + 1 : SubSeq(s, first, len)[i] = s[first + i - 1]
  BY <1>1, <1>2, <1>3, SubSeqProperties
<1>5. \A i \in 1..n : first + i - 1 = len - n + i
  BY <1>1
<1> QED
  BY <1>1, <1>2, <1>4, <1>5

(* A sequence in which nothing is more than twice has at most twice as many *)
(* places as elements. *)
LEMMA AtMostTwice ==
  ASSUME NEW S, NEW s \in Seq(S),
         \A i, j, k \in 1..Len(s) : s[i] = s[j] /\ s[j] = s[k] /\ i # j => k \in {i, j}
  PROVE  Len(s) <= 2 * Cardinality(ToSet(s))
<1> DEFINE elements == ToSet(s)
           first(i) == \A j \in 1..Len(s) : s[j] = s[i] => i <= j
           place == [i \in 1..Len(s) |-> <<s[i], IF first(i) THEN 1 ELSE 2>>]
<1>1. PICK len \in Nat : len = Len(s)
  OBVIOUS
<1>2. IsFiniteSet(1..len) /\ Cardinality(1..len) = len
  BY FS_Interval
<1>3. elements = {s[i] : i \in 1..len}
  BY <1>1 DEF ToSet
<1>4. IsFiniteSet(elements) /\ Cardinality(elements) \in Nat
  <2> DEFINE f == [i \in 1..len |-> s[i]]
  <2>1. f \in Surjection(1..len, elements)
    BY <1>3 DEF Surjection
  <2>2. IsFiniteSet(elements)
    BY <1>2, <2>1, FS_Surjection
  <2> QED
    BY <2>2, FS_CardinalityType
<1>5. IsFiniteSet({1, 2}) /\ Cardinality({1, 2}) = 2
  <2>1. {1, 2} = 1..2 /\ 1 \in Int /\ 2 \in Int
    OBVIOUS
  <2>2. /\ IsFiniteSet(1..2)
        /\ Cardinality(1..2) = IF 1 > 2 THEN 0 ELSE 2 - 1 + 1
    BY <2>1, FS_Interval
  <2> QED
    BY <2>1, <2>2
<1>6. /\ IsFiniteSet(elements \X {1, 2})
      /\ Cardinality(elements \X {1, 2}) = Cardinality(elements) * 2
  BY <1>4, <1>5, FS_Product
<1>7. place \in Injection(1..len, elements \X {1, 2})
  <2>1. place \in [1..len -> elements \X {1, 2}]
    BY <1>1, <1>3
  <2>2. ASSUME NEW i \in 1..len, NEW j \in 1..len, place[i] = place[j], i # j
        PROVE  FALSE
    <3>1. s[i] = s[j] /\ (first(i) <=> first(j))
      BY <1>1, <2>2
    <3>2. CASE first(i)
      BY <1>1, <2>2, <3>1, <3>2
    <3>3. CASE ~first(i)
      <4>1. PICK k \in 1..len : s[k] = s[i] /\ ~(i <= k)
        BY <1>1, <3>3
      <4>2. PICK m \in 1..len : s[m] = s[j] /\ ~(j <= m)
        BY <1>1, <3>1, <3>3
      <4>3. k = j /\ m = i
        BY <1>1, <2>2, <3>1, <4>1, <4>2
      <4> QED
        BY <4>1, <4>2, <4>3
    <3> QED
      BY <3>2, <3>3
  <2> QED
    BY <2>1, <2>2 DEF Injection, IsInjective
<1>8. Cardinality(1..len) <= Cardinality(elements \X {1, 2})
  BY <1>6, <1>7, FS_Injection
<1> QED
  BY <1>1, <1>2, <1>4, <1>6, <1>8

(* A sequence in which nothing is twice has as many elements as places. *)
LEMMA Once ==
  ASSUME NEW S, NEW s \in Seq(S),
         \A i, j \in 1..Len(s) : s[i] = s[j] => i = j
  PROVE  Cardinality(ToSet(s)) = Len(s)
<1>1. PICK len \in Nat : len = Len(s)
  OBVIOUS
<1>2. IsFiniteSet(1..len) /\ Cardinality(1..len) = len
  BY FS_Interval
<1>3. ToSet(s) = {s[i] : i \in 1..len}
  BY <1>1 DEF ToSet
<1> DEFINE f == [i \in 1..len |-> s[i]]
<1>4. f \in Bijection(1..len, ToSet(s))
  <2>1. f \in [1..len -> ToSet(s)]
    BY <1>3
  <2> QED
    BY <1>1, <1>3, <2>1 DEF Bijection, Injection, Surjection, IsInjective
<1>5. ExistsBijection(1..len, ToSet(s))
  BY <1>4 DEF ExistsBijection
<1> QED
  BY <1>1, <1>2, <1>5, FS_Bijection

(* The least element of a set of naturals is one of its elements. *)
LEMMA MinMember ==
  ASSUME NEW S \in SUBSET Nat, S # {}
  PROVE  Min(S) \in S
<1>1. IsWellFoundedOn(OpToRel(<, Nat), Nat)
  BY NatLessThanWellFounded
<1>2. PICK x \in S : \A y \in S : <<y, x>> \notin OpToRel(<, Nat)
  BY <1>1, WFMin
<1>3. \A y \in S : ~(y < x)
  BY <1>2 DEF OpToRel
<1>4. \A y \in S : x =< y
  BY <1>3
<1> QED
  BY <1>4 DEF Min

(* Quotient and remainder. *)
LEMMA Division ==
  ASSUME NEW a \in Nat, NEW p \in Nat \ {0}
  PROVE  /\ a % p \in 0..p - 1
         /\ a \div p \in Nat
         /\ a = p * (a \div p) + (a % p)
  OBVIOUS

(* There is only one pair of them. *)
LEMMA DivisionUnique ==
  \A p \in Nat \ {0}, n, q \in Nat : \A r \in 0..p - 1 :
    n = p * q + r => n % p = r /\ n \div p = q
  OBVIOUS

(* The remainder counts on with the number, and starts again at p. *)
LEMMA RemainderOfSuccessor ==
  ASSUME NEW a \in Nat, NEW p \in Nat \ {0}
  PROVE  (a + 1) % p = IF a % p = p - 1 THEN 0 ELSE (a % p) + 1
<1>1. PICK q \in Nat, r \in 0..p - 1 : a = p * q + r /\ a % p = r
  BY Division
<1>2. CASE r = p - 1
  <2>1. a + 1 = p * (q + 1) + 0
    BY <1>1, <1>2
  <2> QED
    BY <1>1, <1>2, <2>1, DivisionUnique
<1>3. CASE r < p - 1
  <2>1. PICK n \in Nat, s \in 0..p - 1 :
          n = a + 1 /\ s = r + 1 /\ n = p * q + s
    BY <1>1, <1>3
  <2>2. n % p = s
    BY <2>1, DivisionUnique
  <2> QED
    BY <1>1, <1>3, <2>1, <2>2
<1> QED
  BY <1>1, <1>2, <1>3

(* An increasing sequence stays increasing when a larger number follows. *)
LEMMA AppendLarger ==
  ASSUME NEW n \in Nat, NEW s \in Seq(1..n), NEW top \in Nat, top + 1 \in 1..n,
         \A i \in 1..Len(s) : s[i] <= top,
         \A i, j \in 1..Len(s) : i < j => s[i] < s[j]
  PROVE  LET t == Append(s, top + 1)
         IN  /\ t \in Seq(1..n)
             /\ \A i \in 1..Len(t) : t[i] <= top + 1
             /\ \A i, j \in 1..Len(t) : i < j => t[i] < t[j]
<1> DEFINE t == Append(s, top + 1)
<1>1. /\ t \in Seq(1..n)
      /\ Len(t) = Len(s) + 1
      /\ \A i \in 1..Len(s) : t[i] = s[i] /\ s[i] \in 1..n
      /\ t[Len(s) + 1] = top + 1
      /\ Len(s) \in Nat
  BY AppendFacts
<1> HIDE DEF t
<1>4. ASSUME NEW i \in 1..Len(s) PROVE t[i] \in Nat /\ t[i] <= top
  <2>1. t[i] = s[i] /\ s[i] \in 1..n /\ s[i] <= top
    BY <1>1
  <2> QED
    BY <2>1
<1>2. ASSUME NEW i \in 1..Len(t) PROVE t[i] <= top + 1
  <2>1. i = Len(s) + 1 \/ i \in 1..Len(s)
    BY <1>1
  <2> QED
    BY <1>1, <1>4, <2>1
<1>3. ASSUME NEW i \in 1..Len(t), NEW j \in 1..Len(t), i < j
      PROVE  t[i] < t[j]
  <2>0. i \in 1..Len(s) /\ (j = Len(s) + 1 \/ j \in 1..Len(s))
    <3>1. PICK m \in Nat : m = Len(s) /\ Len(t) = m + 1
      BY <1>1
    <3>2. i \in 1..m /\ (j = m + 1 \/ j \in 1..m)
      BY <1>3, <3>1
    <3> QED
      BY <3>1, <3>2
  <2>1. i \in 1..Len(s) /\ t[i] \in Nat /\ t[i] <= top
    BY <1>4, <2>0
  <2>2. CASE j = Len(s) + 1
    BY <1>1, <2>1, <2>2
  <2>3. CASE j \in 1..Len(s)
    BY <1>1, <1>3, <2>1, <2>3
  <2> QED
    BY <2>0, <2>2, <2>3
<1> QED
  BY <1>1, <1>2, <1>3 DEF t

----------------------------------------------------------------------------
(* Windows *)

(* The smallest threshold that means something. *)
LEMMA LimitFacts ==
  ASSUME NEW threshold \in Int
  PROVE  Limit(threshold) \in Nat /\ Limit(threshold) >= 1
         /\ Limit(threshold) >= threshold
  BY DEF Limit

(* A count that starts again forgets its history, in whatever window. *)
LEMMA WindowEmpty ==
  ASSUME NEW threshold \in Int, NEW window \in Nat, NEW now \in Nat,
         NEW start \in 0..now
  PROVE  Window(<<>>, 0, start, now, threshold, window)
<1>1. Len(<<>>) = 0
  OBVIOUS
<1> QED
  BY <1>1, LimitFacts, SMTT(30) DEF Window, NoRun

(* Time passes. *)
LEMMA WindowLater ==
  ASSUME NEW threshold \in Int, NEW window \in Nat, NEW now \in Nat,
         NEW later \in Nat, now <= later, NEW times \in Seq(Int),
         NEW count, NEW start,
         Window(times, count, start, now, threshold, window)
  PROVE  Window(times, count, start, later, threshold, window)
<1>1. start \in 0..later
  BY DEF Window
<1>2. \A i \in 1..Len(times) : times[i] \in 1..later
  BY DEF Window
<1> QED
  BY <1>1, <1>2 DEF Window

(* A new window opens: no counted event is in it yet, and what the old     *)
(* window counted lies before it.                                          *)
LEMMA WindowOpened ==
  ASSUME NEW threshold \in Int, NEW window \in Nat, NEW now \in Nat \ {0},
         NEW times \in Seq(Int), NEW count, NEW start,
         Window(times, count, start, now, threshold, window),
         Expired(start, now, window)
  PROVE  Window(times, 0, now, now, threshold, window)
<1>1. PICK n \in Nat : n = Len(times)
  OBVIOUS
<1>2. PICK limit \in Nat : limit = Limit(threshold) /\ limit >= 1
  BY LimitFacts
<1>3. /\ count \in 0..n /\ count < limit
      /\ start \in 0..now
      /\ start = 0 => n = 0
      /\ \A i \in 1..n : times[i] \in 1..now
      /\ \A i \in n - count + 1..n : times[i] \in start..start + window
      /\ \A i \in 1..n - count : times[i] < start
      /\ NoRun(times, SureBurst(threshold), window)
  BY <1>1, <1>2 DEF Window
<1>4. n = 0 \/ now - start > window
  BY <1>3 DEF Expired
<1>5. ASSUME NEW i \in 1..n PROVE times[i] < now
  <2>1. i \in 1..n - count \/ i \in n - count + 1..n
    BY <1>3
  <2>2. times[i] \in Int /\ times[i] <= start + window
    BY <1>3, <2>1
  <2> QED
    BY <1>3, <1>4, <2>2
<1>6. ASSUME NEW i \in 1..n - limit + 1 PROVE now - times[i] > window
  <2>1. i \in 1..n - count
    BY <1>2, <1>3
  <2>2. i \in 1..n /\ times[i] \in Int /\ times[i] < start
    BY <1>3, <2>1
  <2> QED
    BY <1>3, <1>4, <2>2
<1> QED
  BY <1>1, <1>2, <1>3, <1>5, <1>6 DEF Window

(* What an event added now does to the history. *)
LEMMA EventAdded ==
  ASSUME NEW threshold \in Int, NEW window \in Nat, NEW now \in Nat \ {0},
         NEW times \in Seq(Int), NEW count, NEW start,
         Window(times, count, start, now, threshold, window)
  PROVE  LET n == Len(times)
             longer == Append(times, now)
         IN  /\ n \in Nat
             /\ longer \in Seq(Int)
             /\ Len(longer) = n + 1
             /\ longer[n + 1] = now
             /\ \A i \in 1..n : longer[i] = times[i] /\ times[i] \in 1..now
<1>1. now \in Int
  OBVIOUS
<1> QED
  BY <1>1, AppendFacts DEF Window

(* A counted event that does not reach the threshold. *)
LEMMA WindowCounted ==
  ASSUME NEW threshold \in Int, NEW window \in Nat, NEW now \in Nat \ {0},
         NEW times \in Seq(Int), NEW count, NEW start,
         Window(times, count, start, now, threshold, window),
         start # 0, now - start <= window, count + 1 < Limit(threshold)
  PROVE  Window(Append(times, now), count + 1, start, now, threshold, window)
<1> DEFINE longer == Append(times, now)
<1>1. PICK n \in Nat : /\ n = Len(times)
                       /\ longer \in Seq(Int)
                       /\ Len(longer) = n + 1
                       /\ longer[n + 1] = now
                       /\ \A i \in 1..n : longer[i] = times[i]
                                          /\ times[i] \in 1..now
  BY EventAdded
<1> HIDE DEF longer
<1>2. PICK limit \in Nat : limit = Limit(threshold) /\ limit >= 1
  BY LimitFacts
<1>3. /\ count \in 0..n /\ count + 1 < limit
      /\ start \in 1..now
      /\ \A i \in n - count + 1..n : times[i] \in start..start + window
      /\ \A i \in 1..n - count : times[i] < start
      /\ \A i \in 1..n - count - limit + 1 : start - times[i] > window
      /\ \A i, j \in 1..n : j - i >= 2 * limit - 2
                            => times[j] - times[i] > window
  BY <1>1, <1>2, SMTT(30) DEF Window, NoRun, SureBurst
<1>4. ASSUME NEW i \in 1..n + 1 PROVE longer[i] \in 1..now
  <2>1. i \in 1..n \/ i = n + 1
    OBVIOUS
  <2>2. now \in 1..now
    OBVIOUS
  <2> QED
    BY <1>1, <2>1, <2>2
<1>5. ASSUME NEW i \in n - count + 1..n + 1
      PROVE  longer[i] \in start..start + window
  <2>1. CASE i = n + 1
    BY <1>1, <1>3, <2>1
  <2>2. CASE i # n + 1
    <3>1. i \in n - count + 1..n /\ i \in 1..n
      BY <1>3, <2>2
    <3> QED
      BY <1>1, <1>3, <3>1
  <2> QED
    BY <2>1, <2>2
<1>6. ASSUME NEW i \in 1..n - count
      PROVE  longer[i] < start
  <2>1. i \in 1..n
    BY <1>3
  <2> QED
    BY <1>1, <1>3, <2>1
<1>7. ASSUME NEW i \in 1..n - count - limit + 1
      PROVE  start - longer[i] > window
  <2>1. i \in 1..n
    BY <1>2, <1>3
  <2> QED
    BY <1>1, <1>3, <2>1
<1>8. ASSUME NEW i \in 1..n + 1, NEW j \in 1..n + 1, j - i >= 2 * limit - 2
      PROVE  longer[j] - longer[i] > window
  <2>0. i \in 1..n
    BY <1>2, <1>3, <1>8
  <2>1. CASE j \in 1..n
    BY <1>1, <1>3, <1>8, <2>0, <2>1
  <2>2. CASE j = n + 1
    <3>1. i \in 1..n - count - limit + 1
      BY <1>2, <1>3, <1>8, <2>2, SMTT(30)
    <3>2. start - longer[i] > window /\ longer[i] \in Int
      BY <1>4, <1>7, <2>0, <3>1
    <3> QED
      BY <1>1, <1>3, <2>2, <3>2
  <2> QED
    BY <2>1, <2>2
<1>9. /\ n + 1 - (count + 1) = n - count
      /\ n + 1 - (count + 1) + 1 = n - count + 1
      /\ count + 1 \in 0..n + 1
      /\ start \in 0..now /\ start # 0
  BY <1>3
<1>10. NoRun(longer, SureBurst(threshold), window)
  BY <1>1, <1>2, <1>8 DEF NoRun, SureBurst
<1>11. Window(longer, count + 1, start, now, threshold, window)
  BY <1>1, <1>2, <1>3, <1>4, <1>5, <1>6, <1>7, <1>9, <1>10 DEF Window
<1> QED
  BY <1>11 DEF longer

(* An event counted in an open window: the count is true. *)
LEMMA WindowTruth ==
  ASSUME NEW threshold \in Int, NEW window \in Nat, NEW now \in Nat \ {0},
         NEW times \in Seq(Int), NEW count, NEW start,
         Window(times, count, start, now, threshold, window),
         now - start <= window
  PROVE  LastWithin(Append(times, now), count + 1, window)
<1> DEFINE longer == Append(times, now)
<1>1. PICK n \in Nat : /\ n = Len(times)
                       /\ Len(longer) = n + 1
                       /\ longer[n + 1] = now
                       /\ \A i \in 1..n : longer[i] = times[i]
                                          /\ times[i] \in 1..now
  BY EventAdded
<1> HIDE DEF longer
<1>2. /\ count \in 0..n
      /\ start \in 0..now
      /\ \A i \in n - count + 1..n : times[i] \in start..start + window
  BY <1>1 DEF Window
<1>3. ASSUME NEW i \in n + 1 - (count + 1) + 1..n + 1
      PROVE  now - longer[i] <= window
  <2>1. CASE i = n + 1
    BY <1>1, <2>1
  <2>2. CASE i # n + 1
    <3>1. i \in n - count + 1..n /\ i \in 1..n
      BY <1>2, <2>2
    <3> QED
      BY <1>1, <1>2, <3>1, SMTT(30)
  <2> QED
    BY <2>1, <2>2
<1>4. LastWithin(longer, count + 1, window)
  BY <1>1, <1>2, <1>3 DEF LastWithin
<1> QED
  BY <1>4 DEF longer

(* A count goes on, or starts again with the alert about it, while its     *)
(* window stays open: with one more event, and without one.                *)
LEMMA WindowAdvanced ==
  ASSUME NEW threshold \in Int, NEW window \in Nat, NEW now \in Nat \ {0},
         NEW times \in Seq(Int), NEW count \in Nat, NEW start \in 1..now,
         Window(times, count, start, now, threshold, window),
         now - start <= window
  PROVE  /\ Window(IF count + 1 >= threshold THEN <<>> ELSE Append(times, now),
                   IF count + 1 >= threshold THEN 0 ELSE count + 1,
                   start, now, threshold, window)
         /\ Window(IF count >= threshold THEN <<>> ELSE times,
                   IF count >= threshold THEN 0 ELSE count,
                   start, now, threshold, window)
<1>1. now \in Nat /\ start \in 0..now /\ start # 0
  OBVIOUS
<1>2. Window(<<>>, 0, start, now, threshold, window)
  BY <1>1, WindowEmpty
<1>3. ASSUME count + 1 < threshold
      PROVE  Window(Append(times, now), count + 1, start, now, threshold,
                    window)
  <2>1. count + 1 < Limit(threshold)
    BY <1>3, LimitFacts
  <2> QED
    BY <1>1, <2>1, WindowCounted
<1>4. count + 1 < threshold \/ count + 1 >= threshold
  OBVIOUS
<1>5. ~(count + 1 >= threshold) => count + 1 < threshold
  OBVIOUS
<1> QED
  BY <1>2, <1>3, <1>5

(* An event that does not reach the threshold leaves those of its moment   *)
(* below it.                                                               *)
LEMMA WindowTogether ==
  ASSUME NEW threshold \in Int, NEW window \in Nat, NEW now \in Nat \ {0},
         NEW times \in Seq(Int), NEW count \in Nat, NEW start,
         Window(times, count, start, now, threshold, window),
         NoRun(times, Limit(threshold), 0), count + 1 < Limit(threshold)
  PROVE  NoRun(Append(times, now), Limit(threshold), 0)
<1> DEFINE longer == Append(times, now)
<1>1. PICK n \in Nat : /\ n = Len(times)
                       /\ Len(longer) = n + 1
                       /\ longer[n + 1] = now
                       /\ \A i \in 1..n : longer[i] = times[i]
                                          /\ times[i] \in 1..now
  BY EventAdded
<1>2. PICK limit \in Nat : limit = Limit(threshold) /\ limit >= 1
  BY LimitFacts
<1>3. /\ count \in 0..n /\ count + 1 < limit /\ start \in 0..now
      /\ \A i \in 1..n - count : times[i] < start
  BY <1>1, <1>2 DEF Window
<1> HIDE DEF longer
<1> SUFFICES ASSUME NEW i \in 1..n + 1, NEW j \in 1..n + 1, j - i >= limit - 1
             PROVE  longer[j] - longer[i] > 0
  BY <1>1, <1>2 DEF NoRun, longer
<1>4. i <= n /\ i \in 1..n
  BY <1>1, <1>2, <1>3
<1>5. CASE j = n + 1
  <2>1. i \in 1..n - count
    BY <1>3, <1>4, <1>5
  <2>2. longer[i] \in Nat /\ longer[i] < start /\ start <= now /\ start \in Nat
    BY <1>1, <1>3, <1>4, <2>1
  <2> QED
    BY <1>1, <1>5, <2>2
<1>6. CASE j # n + 1
  <2>1. j \in 1..n
    BY <1>6
  <2>2. times[j] - times[i] > 0
    BY <1>1, <1>2, <1>4, <2>1 DEF NoRun
  <2> QED
    BY <1>1, <1>4, <2>1, <2>2
<1> QED
  BY <1>5, <1>6
============================================================================
