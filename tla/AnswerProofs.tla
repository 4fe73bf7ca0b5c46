---------------------------- MODULE AnswerProofs ----------------------------
(***************************************************************************)
(* From a message to the rows that answer it.  Which rows match and which  *)
(* of them a reply shows, for any digest, question and day (EventAnswer);  *)
(* that decrypt() undoes encrypt() and nothing else, for messages of any   *)
(* length and any block size; that words of the dictionary are found       *)
(* whole, in any text, and the classifier's object in any text; and that   *)
(* an XML reader gets a reply whole, whatever is in it (Codec).            *)
(*                                                                         *)
(* query() is a loop over the digest, extract_json() one over the          *)
(* characters of an answer, and escape_cdata() and the readers of XML go   *)
(* through a text, so their results need an induction.                     *)
(* FiniteSetTheorems says that proper inclusion is well-founded; UpTo and  *)
(* StepByStep get from there an induction over a set of numbers and the    *)
(* function that a recursive definition stands for.                        *)
(***************************************************************************)
EXTENDS EventAnswer, Codec, FiniteSetTheorems, SequenceTheorems, TLAPS

\* One day at a time.
Covers(e, day) == Overlaps(e, <<day, day>>)

\* Two intervals meet iff one has a day of the other: the later of the two
\* first days will do.
LEMMA MeetOnADay ==
  ASSUME NEW e, FirstDay(e) \in Int, LastDay(e) \in Int, FirstDay(e) <= LastDay(e),
         NEW lo \in Int, NEW hi \in Int, lo <= hi
  PROVE  Overlaps(e, <<lo, hi>>) <=> \E day \in lo..hi : Covers(e, day)
<1> DEFINE first == FirstDay(e)
           last  == LastDay(e)
<1>1. Overlaps(e, <<lo, hi>>) <=> last >= lo /\ first <= hi
  BY DEF Overlaps
<1>2. \A day \in Int : Covers(e, day) <=> last >= day /\ first <= day
  BY DEF Covers, Overlaps
<1> HIDE DEF first, last
<1>3. first \in Int /\ last \in Int /\ first <= last
  BY DEF first, last
<1>4. ASSUME last >= lo, first <= hi PROVE \E day \in lo..hi : last >= day /\ first <= day
  <2>1. CASE first >= lo
    <3>1. first \in lo..hi /\ last >= first /\ first <= first
      BY <1>3, <1>4, <2>1
    <3> QED
      BY <3>1
  <2>2. CASE first < lo
    <3>1. lo \in lo..hi /\ last >= lo /\ first <= lo
      BY <1>3, <1>4, <2>2
    <3> QED
      BY <3>1
  <2> QED
    BY <1>3, <2>1, <2>2
<1>5. ASSUME NEW day \in lo..hi, last >= day, first <= day PROVE last >= lo /\ first <= hi
  BY <1>3, <1>5
<1>6. \A day \in lo..hi : day \in Int
  OBVIOUS
<1> QED
  BY <1>1, <1>2, <1>4, <1>5, <1>6

\* What a dated condition asks, beyond the conditions without a date.
LEMMA MatchesOn ==
  ASSUME NEW e \in Events, NEW f \in Undated, NEW tag \in DateTags \ {"all"},
         NEW day \in Int, Dated(e)
  PROVE  Matches(e, On(f, tag), day) <=>
           Matches(e, f, day) /\ Overlaps(e, DateRange(tag, day))
<1>1. f \in Filters /\ f.date = NoTag
  BY DEF Undated
<1>2. /\ On(f, tag).scope = f.scope /\ On(f, tag).time = f.time
      /\ On(f, tag).date = tag
  BY <1>1 DEF On, Filters
<1>3. tag \notin {NoTag, "all"}
  BY AnswerAssumption DEF AnswerAssumption
<1> QED
  BY <1>1, <1>2, <1>3 DEF Matches

\* Without a date the day does not matter.
LEMMA UndatedAnyDay ==
  ASSUME NEW e, NEW f \in Undated, NEW day, NEW other
  PROVE  Matches(e, f, day) <=> Matches(e, f, other)
BY DEF Matches, Undated

\* The first and the last day of a dated row.
LEMMA RowDays ==
  ASSUME NEW e \in Events, Dated(e) PROVE FirstDay(e) \in Int /\ LastDay(e) \in Int
<1>1. e.start \in Int \cup {NoTag} /\ e.end \in Int \cup {NoTag}
  BY AnswerAssumption DEF AnswerAssumption, EventType
<1> QED
  BY <1>1 DEF Dated, FirstDay, LastDay

\* Monday is not after today, and Sunday is not before.
LEMMA WeekAround ==
  ASSUME NEW day \in Int
  PROVE  /\ Weekday(day) \in 0..6
         /\ day - Weekday(day) \in Int
BY DEF Weekday

\* Today is a day.
OnADay == today \in Days

LEMMA TodayAlways == Spec => []OnADay
<1>1. Init => OnADay
  BY AnswerAssumption DEF AnswerAssumption, Init, Days, OnADay
<1>2. OnADay /\ [Next]_vars => OnADay'
  <2> SUFFICES ASSUME OnADay, [Next]_vars PROVE OnADay'
    OBVIOUS
  <2>1. CASE Midnight
    BY <2>1, AnswerAssumption DEF AnswerAssumption, Midnight, Days, OnADay
  <2>2. CASE today' = today
    BY <2>2 DEF OnADay
  <2> QED
    BY <2>1, <2>2 DEF Next, Ask, Publish, vars
<1> QED
  BY <1>1, <1>2, PTL DEF Spec

-----------------------------------------------------------------------------
\* A question for a week is answered with the rows of each of its days; what is
\* on at a weekend is shown for it, nothing of another week is, and on the days
\* of a weekend nothing else (digest_cache.rs:367-387, 403-425).
THEOREM RangesAreDays == Spec => []RangeAgreesWithDays
<1>1. OnADay => RangeAgreesWithDays
  <2> SUFFICES ASSUME OnADay, NEW e \in Events, NEW f \in Undated,
                      Dated(e), FirstDay(e) <= LastDay(e)
               PROVE  LET monday == today - Weekday(today)
                          shown(day) == Matches(e, On(f, "today"), day)
                          week == Matches(e, On(f, "week"), today)
                          weekend == Matches(e, On(f, "weekend"), today)
                      IN  /\ Matches(e, On(f, "tomorrow"), today) <=> shown(today + 1)
                          /\ week <=> \E day \in monday..(monday + 6) : shown(day)
                          /\ shown(monday + 5) \/ shown(monday + 6) => weekend
                          /\ weekend => week
                          /\ weekend /\ Weekday(today) >= 5 =>
                               shown(monday + 5) \/ shown(monday + 6)
    BY DEF RangeAgreesWithDays
  <2> DEFINE monday == today - Weekday(today)
             sat == Least(monday + 5, today)
             shown(day) == Matches(e, On(f, "today"), day)
             base == Matches(e, f, today)
  <2>1. today \in Int /\ monday \in Int /\ today <= monday + 6
    <3>1. today \in Int
      BY AnswerAssumption DEF AnswerAssumption, Days, OnADay
    <3>2. Weekday(today) \in 0..6
      BY <3>1, WeekAround
    <3> QED
      BY <3>1, <3>2
  <2>2. /\ sat \in Int /\ sat <= monday + 6
        /\ monday <= sat /\ sat <= monday + 5
        /\ Weekday(today) >= 5 => sat = monday + 5
    <3>1. /\ today \in Int /\ Weekday(today) \in 0..6
      BY <2>1, WeekAround
    <3> QED
      BY <3>1 DEF Least
  <2>3. FirstDay(e) \in Int /\ LastDay(e) \in Int
    BY RowDays
  <2>4. ASSUME NEW day \in Int PROVE shown(day) <=> base /\ Covers(e, day)
    <3>1. DateRange("today", day) = <<day, day>>
      BY DEF DateRange
    <3>2. shown(day) <=> Matches(e, f, day) /\ Overlaps(e, DateRange("today", day))
      BY MatchesOn DEF DateTags
    <3> QED
      BY <3>1, <3>2, UndatedAnyDay DEF Covers
  <2>5. /\ DateRange("tomorrow", today) = <<today + 1, today + 1>>
        /\ DateRange("week", today) = <<monday, monday + 6>>
        /\ DateRange("weekend", today) = <<sat, monday + 6>>
    BY DEF DateRange
  <2>6. \A tag \in {"tomorrow", "week", "weekend"} :
          Matches(e, On(f, tag), today) <=> base /\ Overlaps(e, DateRange(tag, today))
    BY <2>1, MatchesOn DEF DateTags
  <2> HIDE DEF monday, sat, shown, base
  <2>7. Matches(e, On(f, "tomorrow"), today) <=> shown(today + 1)
    BY <2>1, <2>4, <2>5, <2>6 DEF Covers
  <2>8. Overlaps(e, <<monday, monday + 6>>) <=> \E day \in monday..(monday + 6) : Covers(e, day)
    BY <2>1, <2>3, MeetOnADay
  <2>9. Matches(e, On(f, "week"), today) <=> \E day \in monday..(monday + 6) : shown(day)
    BY <2>1, <2>4, <2>5, <2>6, <2>8
  <2>10. Overlaps(e, <<sat, monday + 6>>) <=> \E day \in sat..(monday + 6) : Covers(e, day)
    BY <2>1, <2>2, <2>3, MeetOnADay
  <2>11. Matches(e, On(f, "weekend"), today) <=> \E day \in sat..(monday + 6) : shown(day)
    BY <2>2, <2>4, <2>5, <2>6, <2>10
  <2>12. /\ monday + 5 \in sat..(monday + 6) /\ monday + 6 \in sat..(monday + 6)
         /\ \A day \in sat..(monday + 6) : day \in monday..(monday + 6)
         /\ Weekday(today) >= 5 =>
              \A day \in sat..(monday + 6) : day = monday + 5 \/ day = monday + 6
    <3> HIDE DEF Weekday
    <3> QED
      BY <2>1, <2>2
  <2>13. /\ shown(monday + 5) \/ shown(monday + 6) => Matches(e, On(f, "weekend"), today)
         /\ Matches(e, On(f, "weekend"), today) => Matches(e, On(f, "week"), today)
         /\ Matches(e, On(f, "weekend"), today) /\ Weekday(today) >= 5 =>
              shown(monday + 5) \/ shown(monday + 6)
    BY <2>9, <2>11, <2>12
  <2> QED
    BY <2>7, <2>9, <2>13 DEF monday, shown
<1> QED
  BY <1>1, TodayAlways, PTL

\* A question with fewer conditions loses no row (digest_cache.rs:307-330).
THEOREM FewerConditions == Spec => []FewerConditionsMoreRows
<1>1. FewerConditionsMoreRows
  <2> SUFFICES ASSUME NEW e \in Events, NEW f \in Filters, Matches(e, f, today)
               PROVE  /\ \A s \in Scopes : Matches(e, [f EXCEPT !.scope[s] = NoTag], today)
                      /\ Matches(e, [f EXCEPT !.time = NoTag], today)
                      /\ Matches(e, On(f, NoTag), today)
    BY DEF FewerConditionsMoreRows
  <2>1. ASSUME NEW s \in Scopes PROVE Matches(e, [f EXCEPT !.scope[s] = NoTag], today)
    <3> DEFINE g == [f EXCEPT !.scope[s] = NoTag]
    <3>1. /\ g.time = f.time /\ g.date = f.date
          /\ \A r \in Scopes : g.scope[r] = NoTag \/ g.scope[r] = f.scope[r]
      BY DEF Filters
    <3> HIDE DEF g
    <3>2. Matches(e, g, today)
      BY <3>1 DEF Matches
    <3> QED
      BY <3>2 DEF g
  <2>2. Matches(e, [f EXCEPT !.time = NoTag], today)
    BY DEF Filters, Matches
  <2>3. Matches(e, On(f, NoTag), today)
    BY DEF Filters, Matches, On
  <2> QED
    BY <2>1, <2>2, <2>3
<1> QED
  BY <1>1, PTL

-----------------------------------------------------------------------------
\* Of some naturals one is the least: the intervals from 0 to each of them are
\* finite sets, one of which has none of the others in it.
LEMMA LeastOf ==
  ASSUME NEW T \in SUBSET Nat, T # {}
  PROVE  \E n \in T : \A m \in T : n <= m
<1> DEFINE U == {0..n : n \in T}
           R == StrictSubsetOrdering(Nat)
<1>1. U \subseteq FiniteSubsetsOf(Nat) /\ U # {}
  <2>1. \A n \in T : 0..n \in SUBSET Nat /\ IsFiniteSet(0..n)
    BY FS_Interval
  <2> QED
    BY <2>1 DEF FiniteSubsetsOf
<1>2. PICK x \in U : \A y \in U : ~(<<y, x>> \in R)
  <2> HIDE DEF U, R
  <2>1. IsWellFoundedOn(R, FiniteSubsetsOf(Nat))
    BY FS_StrictSubsetOrderingWellFounded DEF R
  <2> QED
    BY <1>1, <2>1, WFMin
<1>3. PICK n \in T : x = 0..n
  BY <1>2
<1>4. ASSUME NEW m \in T, m < n PROVE FALSE
  <2>1. n \in Nat /\ m \in Nat /\ n \in 0..n /\ n \notin 0..m
    BY <1>4
  <2>2. 0..m \in U /\ 0..m \subseteq 0..n /\ 0..m # 0..n
    BY <1>4, <2>1
  <2>3. <<0..m, 0..n>> \in R
    BY <2>2 DEF StrictSubsetOrdering
  <2> QED
    BY <1>2, <1>3, <2>2, <2>3
<1> QED
  BY <1>4

\* Induction up to n, over a set instead of a predicate.
LEMMA UpTo ==
  ASSUME NEW n \in Nat, NEW T, 0 \in T,
         \A i \in 1..n : i - 1 \in T => i \in T
  PROVE  \A i \in 0..n : i \in T
<1> DEFINE B == {i \in 0..n : i \notin T}
<1>1. SUFFICES ASSUME B # {} PROVE FALSE
  OBVIOUS
<1>2. PICK i \in B : \A j \in B : i <= j
  <2>1. B \in SUBSET Nat
    OBVIOUS
  <2> HIDE DEF B
  <2> QED
    BY <1>1, <2>1, LeastOf
<1>3. i # 0 /\ i \in 1..n /\ i - 1 \in 0..n
  BY <1>2
<1>4. i - 1 \in T
  BY <1>2, <1>3
<1> QED
  BY <1>2, <1>3, <1>4

\* The functions on 0..n that are base at 0 and go on with the steps of G.
Walks(n, X, base, G) ==
  {g \in [0..n -> X] : g[0] = base /\ \A i \in 1..n : g[i] = G[i][g[i - 1]]}

\* There is one, which is what a recursive definition relies on.
LEMMA StepByStep ==
  ASSUME NEW n \in Nat, NEW X, NEW base \in X, NEW G \in [1..n -> [X -> X]]
  PROVE  Walks(n, X, base, G) # {}
<1> DEFINE Good(g, k) ==
             g[0] = base /\ \A i \in 1..k : g[i] = G[i][g[i - 1]]
           T == {k \in 0..n : \E g \in [0..n -> X] : Good(g, k)}
<1>1. 0 \in T
  <2>1. [i \in 0..n |-> base] \in [0..n -> X]
    OBVIOUS
  <2>2. Good([i \in 0..n |-> base], 0) /\ 0 \in 0..n
    OBVIOUS
  <2> HIDE DEF Good
  <2> QED
    BY <2>1, <2>2
<1>2. ASSUME NEW k \in 1..n, k - 1 \in T PROVE k \in T
  <2>1. PICK g \in [0..n -> X] : Good(g, k - 1)
    BY <1>2
  <2> DEFINE h == [g EXCEPT ![k] = G[k][g[k - 1]]]
  <2>2. k \in 0..n /\ k - 1 \in 0..n /\ k # 0 /\ 0 \in 0..n
    OBVIOUS
  <2>3. h \in [0..n -> X]
    <3>1. G[k] \in [X -> X] /\ g[k - 1] \in X
      BY <2>2
    <3> QED
      BY <2>2, <3>1
  <2>4. h[0] = base /\ h[k] = G[k][g[k - 1]] /\ \A i \in 0..n : i # k => h[i] = g[i]
    BY <2>1, <2>2
  <2>5. ASSUME NEW i \in 1..k PROVE h[i] = G[i][h[i - 1]]
    <3>1. i - 1 \in 0..n /\ i - 1 # k /\ h[i - 1] = g[i - 1]
      BY <2>4
    <3>2. CASE i = k
      BY <2>4, <3>1, <3>2
    <3>3. CASE i # k
      <4>1. i \in 1..(k - 1) /\ i \in 0..n
        BY <3>3
      <4> QED
        BY <2>1, <2>4, <3>1, <3>3, <4>1
    <3> QED
      BY <3>2, <3>3
  <2> QED
    BY <2>2, <2>3, <2>4, <2>5
<1>3. \A i \in 0..n : i \in T
  <2> HIDE DEF T
  <2> QED
    BY <1>1, <1>2, UpTo
<1>4. n \in T
  BY <1>3
<1> QED
  BY <1>4 DEF Walks

-----------------------------------------------------------------------------
\* query() goes through the rows one by one.
LoopOf(d, f, day) ==
  {g \in [0..Len(d) -> Seq(Events)] :
     /\ g[0] = <<>>
     /\ \A i \in 1..Len(d) :
          g[i] = IF Len(g[i - 1]) < CardLimit /\ Matches(d[i], f, day)
                 THEN Append(g[i - 1], d[i]) ELSE g[i - 1]
     /\ Query(d, f, day) = g[Len(d)]}

LEMMA QueryLoop ==
  ASSUME NEW d \in Seq(Events), NEW f, NEW day
  PROVE  LoopOf(d, f, day) # {}
<1> DEFINE n == Len(d)
           X == Seq(Events)
           none == <<>>
           next(i, x) == IF Len(x) < CardLimit /\ Matches(d[i], f, day)
                         THEN Append(x, d[i]) ELSE x
           G == [i \in 1..n |-> [x \in X |-> next(i, x)]]
           Loop(g) == g = [i \in 0..n |-> IF i = 0 THEN none ELSE next(i, g[i - 1])]
           found == CHOOSE h : Loop(h)
<1>1. n \in Nat /\ none \in X
  OBVIOUS
<1>2. \A i \in 1..n, x \in X : next(i, x) \in X
  OBVIOUS
<1>3. Query(d, f, day) = found[n]
  BY DEF Query
<1> HIDE DEF n, X, none, next
<1>4. PICK g \in Walks(n, X, none, G) : TRUE
  <2>1. G \in [1..n -> [X -> X]]
    BY <1>2
  <2> HIDE DEF G
  <2> QED
    BY <1>1, <2>1, StepByStep
<1>a. g \in [0..n -> X] /\ g[0] = none /\ \A i \in 1..n : g[i] = G[i][g[i - 1]]
  BY <1>4 DEF Walks
<1>5. \A i \in 1..n : i - 1 \in 0..n /\ i \in 0..n /\ i # 0
  BY <1>1
<1>6. \A i \in 1..n : g[i] = next(i, g[i - 1])
  <2> SUFFICES ASSUME NEW i \in 1..n PROVE g[i] = next(i, g[i - 1])
    OBVIOUS
  <2>1. g[i - 1] \in X
    BY <1>a, <1>5
  <2> QED
    BY <1>a, <2>1
<1>7. Loop(g)
  <2>1. \A i \in 0..n : i # 0 => i \in 1..n
    BY <1>1
  <2>2. \A i \in 0..n : g[i] = IF i = 0 THEN none ELSE next(i, g[i - 1])
    BY <1>a, <1>6, <2>1
  <2> QED
    BY <1>a, <2>2
<1>8. Loop(found)
  <2> HIDE DEF Loop
  <2> QED
    BY <1>7
<1> HIDE DEF found
<1>9. found[0] = none /\ \A i \in 1..n : found[i] = next(i, found[i - 1])
  BY <1>1, <1>5, <1>8
<1>10. \A i \in 0..n : found[i] \in X
  <2> DEFINE T == {i \in 0..n : found[i] \in X}
  <2>1. 0 \in T
    BY <1>1, <1>9
  <2>2. \A i \in 1..n : i - 1 \in T => i \in T
    BY <1>2, <1>5, <1>9
  <2> HIDE DEF T
  <2>3. \A i \in 0..n : i \in T
    BY <1>1, <2>1, <2>2, UpTo
  <2> QED
    BY <2>3 DEF T
<1>11. found \in [0..n -> X]
  <2>1. found = [i \in 0..n |-> found[i]]
    BY <1>8
  <2> QED
    BY <1>10, <2>1
<1> QED
  BY <1>3, <1>9, <1>11 DEF n, X, none, next, LoopOf

\* How many of the first i rows match.
Hits(d, f, day, i) == Cardinality({j \in 1..i : Matches(d[j], f, day)})

LEMMA HitsStep ==
  ASSUME NEW d, NEW f, NEW day
  PROVE  /\ Hits(d, f, day, 0) = 0
         /\ \A i \in Nat : Hits(d, f, day, i) \in Nat
         /\ \A i \in Nat \ {0} :
              Hits(d, f, day, i) = Hits(d, f, day, i - 1)
                                     + (IF Matches(d[i], f, day) THEN 1 ELSE 0)
<1> DEFINE H(i) == {j \in 1..i : Matches(d[j], f, day)}
<1>1. \A i \in Nat : IsFiniteSet(H(i))
  <2> SUFFICES ASSUME NEW i \in Nat PROVE IsFiniteSet(H(i))
    OBVIOUS
  <2>1. IsFiniteSet(1..i) /\ H(i) \subseteq 1..i
    BY FS_Interval
  <2> QED
    BY <2>1, FS_Subset
<1>2. H(0) = {}
  OBVIOUS
<1>3. ASSUME NEW i \in Nat \ {0}
      PROVE  Cardinality(H(i)) = Cardinality(H(i - 1)) + (IF Matches(d[i], f, day) THEN 1 ELSE 0)
  <2>1. i - 1 \in Nat /\ i \notin H(i - 1)
    OBVIOUS
  <2>2. H(i) = IF Matches(d[i], f, day) THEN H(i - 1) \cup {i} ELSE H(i - 1)
    OBVIOUS
  <2>3. IsFiniteSet(H(i - 1)) /\ Cardinality(H(i - 1)) \in Nat
    BY <1>1, <2>1, FS_CardinalityType
  <2> HIDE DEF H
  <2>4. Cardinality(H(i - 1) \cup {i}) = Cardinality(H(i - 1)) + 1
    BY <2>1, <2>3, FS_AddElement
  <2> QED
    BY <2>2, <2>3, <2>4
<1>4. \A i \in Nat : Cardinality(H(i)) \in Nat
  BY <1>1, FS_CardinalityType
<1>5. Cardinality(H(0)) = 0
  BY <1>2, FS_EmptySet
<1> QED
  BY <1>3, <1>4, <1>5 DEF Hits

\* The first of them, up to the limit.
Shown(d, f, day) ==
  {i \in 1..Len(d) : Matches(d[i], f, day) /\ Hits(d, f, day, i) <= CardLimit}

\* The reply has as many rows as match, up to the limit, each at its place.
LEMMA QueryRows ==
  ASSUME NEW d \in Seq(Events), NEW f, NEW day
  PROVE  /\ Len(Query(d, f, day)) = Cardinality(Shown(d, f, day))
         /\ \A i \in Shown(d, f, day) : Query(d, f, day)[Hits(d, f, day, i)] = d[i]
<1> DEFINE n == Len(d)
           hit(i) == Matches(d[i], f, day)
           nth(i) == Hits(d, f, day, i)
           S(k) == {i \in 1..k : hit(i) /\ nth(i) <= CardLimit}
<1>1. n \in Nat /\ CardLimit \in Nat
  BY AnswerAssumption DEF AnswerAssumption
<1>q. PICK g \in LoopOf(d, f, day) : TRUE
  BY QueryLoop
<1>2. /\ g \in [0..n -> Seq(Events)]
      /\ g[0] = <<>>
      /\ \A i \in 1..n : g[i] = IF Len(g[i - 1]) < CardLimit /\ hit(i)
                                THEN Append(g[i - 1], d[i]) ELSE g[i - 1]
      /\ Query(d, f, day) = g[n]
  BY <1>q DEF LoopOf
<1>3. /\ nth(0) = 0
      /\ \A i \in Nat : nth(i) \in Nat
      /\ \A i \in Nat \ {0} : nth(i) = nth(i - 1) + (IF hit(i) THEN 1 ELSE 0)
  BY HitsStep
<1> DEFINE Upto(k) == /\ Len(g[k]) = Least(CardLimit, nth(k))
                      /\ IsFiniteSet(S(k)) /\ Cardinality(S(k)) = Len(g[k])
                      /\ \A i \in S(k) : nth(i) \in 1..Len(g[k]) /\ g[k][nth(i)] = d[i]
           T == {k \in 0..n : Upto(k)}
<1>4. Upto(0)
  <2>1. S(0) = {} /\ IsFiniteSet(S(0)) /\ Cardinality(S(0)) = 0
    <3>1. S(0) = {}
      OBVIOUS
    <3> QED
      BY <3>1, FS_EmptySet
  <2>2. Len(g[0]) = 0 /\ Least(CardLimit, nth(0)) = 0
    BY <1>1, <1>2, <1>3, AnswerAssumption DEF Least, AnswerAssumption
  <2> QED
    BY <2>1, <2>2
<1>5. ASSUME NEW k \in 1..n, Upto(k - 1) PROVE Upto(k)
  <2>1. /\ k \in Nat \ {0} /\ k - 1 \in Nat /\ k - 1 \in 0..n /\ k \in 0..n
        /\ nth(k) \in Nat /\ nth(k - 1) \in Nat
        /\ nth(k) = nth(k - 1) + (IF hit(k) THEN 1 ELSE 0)
    BY <1>1, <1>3
  <2>2. /\ g[k - 1] \in Seq(Events) /\ d[k] \in Events
        /\ g[k] = IF Len(g[k - 1]) < CardLimit /\ hit(k)
                  THEN Append(g[k - 1], d[k]) ELSE g[k - 1]
    <3>1. d[k] \in Events
      OBVIOUS
    <3> HIDE DEF hit, n
    <3> QED
      BY <1>2, <2>1, <3>1
  <2>3. Len(g[k - 1]) \in Nat /\ Len(g[k - 1]) = Least(CardLimit, nth(k - 1))
    BY <1>5, <2>2
  <2>4. S(k) = IF hit(k) /\ nth(k) <= CardLimit THEN S(k - 1) \cup {k} ELSE S(k - 1)
    <3> HIDE DEF hit, nth
    <3> QED
      BY <2>1
  <2>5. k \notin S(k - 1)
    BY <2>1
  <2> HIDE DEF hit, nth, S
  <2>6. CASE hit(k) /\ nth(k) <= CardLimit
    <3>1. Len(g[k - 1]) = nth(k - 1) /\ Len(g[k - 1]) < CardLimit
          /\ Least(CardLimit, nth(k)) = nth(k)
      BY <1>1, <2>1, <2>3, <2>6 DEF Least
    <3>2. g[k] = Append(g[k - 1], d[k]) /\ Len(g[k]) = nth(k)
      BY <2>1, <2>2, <2>6, <3>1
    <3>3. S(k) = S(k - 1) \cup {k} /\ IsFiniteSet(S(k))
          /\ Cardinality(S(k)) = Cardinality(S(k - 1)) + 1
      <4>1. S(k) = S(k - 1) \cup {k} /\ IsFiniteSet(S(k - 1))
        BY <1>5, <2>4, <2>6
      <4>2. IsFiniteSet(S(k - 1) \cup {k})
        BY <4>1, FS_AddElement
      <4>3. Cardinality(S(k - 1) \cup {k}) = Cardinality(S(k - 1)) + 1
        BY <4>1, <2>5, FS_AddElement
      <4> QED
        BY <4>1, <4>2, <4>3
    <3>4. ASSUME NEW i \in S(k) PROVE nth(i) \in 1..Len(g[k]) /\ g[k][nth(i)] = d[i]
      <4>1. CASE i = k
        BY <2>1, <2>2, <2>3, <2>6, <3>1, <3>2, <4>1
      <4>2. CASE i # k
        <5>1. nth(i) \in 1..Len(g[k - 1]) /\ g[k - 1][nth(i)] = d[i]
          BY <1>5, <3>3, <4>2
        <5> QED
          BY <2>1, <2>2, <2>3, <3>1, <3>2, <5>1
      <4> QED
        BY <4>1, <4>2
    <3> QED
      BY <1>5, <2>1, <2>3, <3>1, <3>2, <3>3, <3>4
  <2>7. CASE ~(hit(k) /\ nth(k) <= CardLimit)
    <3>1. S(k) = S(k - 1)
      BY <2>4, <2>7
    <3>2. ~(Len(g[k - 1]) < CardLimit /\ hit(k))
          /\ Least(CardLimit, nth(k)) = Least(CardLimit, nth(k - 1))
      BY <1>1, <2>1, <2>3, <2>7 DEF Least
    <3>3. g[k] = g[k - 1]
      BY <2>2, <3>2
    <3> QED
      BY <1>5, <3>1, <3>2, <3>3
  <2> QED
    BY <2>6, <2>7
<1>6. Upto(n)
  <2> HIDE DEF Upto
  <2>1. 0 \in T /\ \A k \in 1..n : k - 1 \in T => k \in T
    BY <1>1, <1>4, <1>5
  <2> HIDE DEF T
  <2>2. n \in T
    <3> HIDE DEF n
    <3>1. \A k \in 0..n : k \in T
      BY <1>1, <2>1, UpTo
    <3> QED
      BY <1>1, <3>1
  <2> QED
    BY <2>2 DEF T
<1>7. S(n) = Shown(d, f, day)
  BY DEF Shown
<1> QED
  BY <1>2, <1>6, <1>7

\* The tag that pick_tag() finds is one of its dimension.
LEMMA PickTagType ==
  ASSUME NEW m, NEW d \in Dims, NEW S, Dictionary[d] \in Seq(S)
  PROVE  PickTag(m, d) \in S \cup {NoTag}
<1> DEFINE found == {i \in DOMAIN Dictionary[d] : Dictionary[d][i] \in m.hits}
           first == CHOOSE i \in found : \A j \in found : i <= j
<1>1. CASE found = {}
  BY <1>1 DEF PickTag
<1>2. CASE found # {}
  <2>1. found \in SUBSET Nat
    OBVIOUS
  <2>2. \E i \in found : \A j \in found : i <= j
    <3> HIDE DEF found
    <3> QED
      BY <1>2, <2>1, LeastOf
  <2>3. first \in found
    <3> HIDE DEF found
    <3> QED
      BY <2>2
  <2>4. Dictionary[d][first] \in S
    <3> HIDE DEF first
    <3> QED
      BY <2>3
  <2>5. PickTag(m, d) = Dictionary[d][first]
    BY <1>2 DEF PickTag
  <2> QED
    BY <2>4, <2>5
<1> QED
  BY <1>1, <1>2

\* Whatever the dictionary or the classifier makes of a message is an intent.
LEMMA UnderstoodType ==
  ASSUME NEW m \in Messages
  PROVE  Understood(m) \subseteq Intents
<1>1. \A t : ParseDate(t) \in DateTags \cup {NoTag}
  BY DEF ParseDate, DateTags
<1>2. NoFilter \in Filters
  BY DEF NoFilter, Filters
<1>3. TagFilter(m) \in Filters
  <2>1. ASSUME NEW d \in Scopes \cup {"time"} PROVE PickTag(m, d) \in Tags \cup {NoTag}
    <3>1. d \in Dims /\ Dictionary[d] \in Seq(Tags)
      BY AnswerAssumption DEF AnswerAssumption, Dims
    <3> QED
      BY <3>1, PickTagType
  <2>2. [s \in Scopes |-> PickTag(m, s)] \in [Scopes -> Tags \cup {NoTag}]
    BY <2>1
  <2> QED
    BY <1>1, <2>1, <2>2 DEF TagFilter, Filters
<1>4. ASSUME NEW r \in AiAnswers PROVE FromRaw(r) \in Intents
  <2> DEFINE field(x) == IF x = Blank THEN NoTag ELSE x
             scope == [s \in Scopes |-> field(r.scope[s])]
             named == IF r.kind \in Kinds THEN r.kind ELSE "unknown"
             f == [scope |-> scope, time |-> field(r.time), date |-> ParseDate(r.date)]
  <2>1. /\ r.scope \in [Scopes -> Tags \cup {NoTag, Blank}]
        /\ r.time \in Tags \cup {NoTag, Blank}
    BY AnswerAssumption DEF AnswerAssumption, RawIntents
  <2>2. scope \in [Scopes -> Tags \cup {NoTag}] /\ field(r.time) \in Tags \cup {NoTag}
    BY <2>1
  <2>3. named \in Kinds
    BY DEF Kinds
  <2>4. FromRaw(r) = [kind |-> named, filter |-> f]
    BY DEF FromRaw
  <2> HIDE DEF scope, named, field
  <2>5. f \in Filters
    BY <1>1, <2>2 DEF Filters
  <2> QED
    BY <2>3, <2>4, <2>5 DEF Intents
<1>5. \A word \in Kinds : Plain(word) \in Intents
  BY <1>2 DEF Plain, Intents
<1> QED
  BY <1>3, <1>4, <1>5 DEF Understood, Intents, Kinds

\* The rows of a reply are rows of the digest.
LEMMA RouteType ==
  ASSUME digest \in Digests \cup {NoSnapshot}, NEW i \in Intents
  PROVE  Route(i) \in [form: Forms, events: Seq(Events)]
<1> DEFINE Replies == [form: Forms, events: Seq(Events)]
<1>1. \A form \in Forms : Say(form) \in Replies
  BY DEF Say
<1>2. ASSUME digest # NoSnapshot PROVE EventsReply(i.filter) \in Replies
  <2> DEFINE f == i.filter
  <2>1. digest \in Seq(Events)
    BY <1>2, AnswerAssumption DEF AnswerAssumption
  <2> HIDE DEF f
  <2>2. PICK g \in LoopOf(digest, f, today) : TRUE
    BY <2>1, QueryLoop
  <2>3. Query(digest, f, today) \in Seq(Events)
    <3>1. Len(digest) \in 0..Len(digest)
      BY <2>1
    <3> QED
      BY <2>2, <3>1 DEF LoopOf
  <2>4. EventsReply(f) \in Replies
    BY <1>1, <2>3 DEF EventsReply, Forms
  <2> QED
    BY <2>4 DEF f
<1>3. i.kind \in Kinds
  BY DEF Intents
<1> QED
  BY <1>1, <1>2, <1>3 DEF Route, Kinds, Forms

\* Intents and replies keep their types, for any dictionary, classifier and
\* digest: a missing or unknown tag becomes an absent condition.
THEOREM AnswerTypeCorrect == Spec => []TypeOK
<1>1. Init => TypeOK
  <2> SUFFICES ASSUME Init PROVE TypeOK
    OBVIOUS
  <2>1. asked \in Intents
    BY DEF Init, Plain, NoFilter, Intents, Filters, Kinds
  <2>2. today \in Days
    BY AnswerAssumption DEF AnswerAssumption, Init, Days
  <2> QED
    BY <2>1, <2>2 DEF Init, TypeOK, Say, Forms
<1>2. TypeOK /\ [Next]_vars => TypeOK'
  <2> SUFFICES ASSUME TypeOK, [Next]_vars PROVE TypeOK'
    OBVIOUS
  <2>1. ASSUME NEW m \in Messages, Ask(m) PROVE TypeOK'
    <3>1. asked' \in Intents
      BY <2>1, UnderstoodType DEF Ask
    <3>2. reply' \in [form: Forms, events: Seq(Events)]
      BY <2>1, <3>1, RouteType DEF Ask, TypeOK
    <3> QED
      BY <2>1, <3>1, <3>2 DEF Ask, TypeOK
  <2>2. CASE Midnight
    BY <2>2, AnswerAssumption DEF AnswerAssumption, Midnight, TypeOK, Days
  <2>3. ASSUME NEW d \in Digests \cup {NoSnapshot}, Publish(d) PROVE TypeOK'
    BY <2>3 DEF Publish, TypeOK
  <2>4. CASE UNCHANGED vars
    BY <2>4 DEF vars, TypeOK
  <2> QED
    BY <2>1, <2>2, <2>3, <2>4 DEF Next
<1> QED
  BY <1>1, <1>2, PTL DEF Spec

\* FirstMatchesShown, for any digest, question and limit: the rows of a reply
\* are the first that match, in the digest's order (digest_cache.rs:276-292).
THEOREM FirstRows == Spec => FirstMatchesShown
<1> DEFINE Published == digest \in Digests \cup {NoSnapshot}
<1>1. Init => Published
  BY DEF Init
<1>2. Published /\ [Next]_vars => Published'
  BY DEF Next, Ask, Midnight, Publish, vars
<1>3. ASSUME Published, NEW m \in Messages, Ask(m), reply'.form \in {"card", "titles", "empty"}
      PROVE  LET f == asked'.filter
                 hit(i) == Matches(digest[i], f, today)
                 nth(i) == Cardinality({j \in 1..i : hit(j)})
                 shown == {i \in 1..Len(digest) : hit(i) /\ nth(i) <= CardLimit}
             IN  /\ Len(reply'.events) = Cardinality(shown)
                 /\ \A i \in shown : reply'.events[nth(i)] = digest[i]
  <2> DEFINE f == asked'.filter
  <2>1. asked'.kind \in Kinds
    BY <1>3 DEF Ask, Understood, Plain, FromRaw, Kinds
  <2>2. reply' = Route(asked')
    BY <1>3 DEF Ask
  <2>3. digest # NoSnapshot /\ reply' = EventsReply(f)
    BY <1>3, <2>1, <2>2 DEF Route, Say, Kinds
  <2>4. reply'.events = Query(digest, f, today)
    BY <2>3 DEF EventsReply, Say
  <2>5. digest \in Seq(Events)
    BY <1>3, <2>3, AnswerAssumption DEF AnswerAssumption
  <2>6. /\ Len(reply'.events) = Cardinality(Shown(digest, f, today))
        /\ \A i \in Shown(digest, f, today) : reply'.events[Hits(digest, f, today, i)] = digest[i]
    <3> HIDE DEF f
    <3> QED
      BY <2>4, <2>5, QueryRows
  <2> QED
    BY <2>6 DEF Shown, Hits
<1>4. Published /\ [Next]_vars =>
        [(\E m \in Messages : Ask(m)) /\ reply'.form \in {"card", "titles", "empty"} =>
           LET f == asked'.filter
               hit(i) == Matches(digest[i], f, today)
               nth(i) == Cardinality({j \in 1..i : hit(j)})
               shown == {i \in 1..Len(digest) : hit(i) /\ nth(i) <= CardLimit}
           IN  /\ Len(reply'.events) = Cardinality(shown)
               /\ \A i \in shown : reply'.events[nth(i)] = digest[i]]_vars
  BY <1>3
<1> QED
  BY <1>1, <1>2, <1>4, PTL DEF Spec, FirstMatchesShown

-----------------------------------------------------------------------------
\* PKCS7 fills the last block, or adds a block of its own.
LEMMA Filling ==
  ASSUME NEW b \in Nat \ {0}, NEW len \in Nat
  PROVE  /\ b - (len % b) \in 1..b
         /\ (len + (b - (len % b))) % b = 0
<1> DEFINE q == len \div b
           r == len % b
<1>1. q \in Nat /\ r \in 0..(b - 1) /\ len = b * q + r
  OBVIOUS
<1> HIDE DEF q, r
<1>2. len + (b - r) = b * q + b
  BY <1>1
<1>3. b * q + b = b * (q + 1) /\ q + 1 \in Nat
  BY <1>1
<1>4. (b * (q + 1)) % b = 0
  BY <1>3
<1> QED
  BY <1>1, <1>2, <1>3, <1>4 DEF r

\* And in one way only.
LEMMA OneFilling ==
  ASSUME NEW b \in Nat \ {0}, NEW len \in Nat, NEW n \in 1..b, (len + n) % b = 0
  PROVE  n = b - (len % b)
<1>1. PICK q \in Nat, r \in 0..(b - 1) : len = b * q + r /\ r = len % b
  <2>1. len \div b \in Nat /\ len % b \in 0..(b - 1) /\ len = b * (len \div b) + (len % b)
    OBVIOUS
  <2> QED
    BY <2>1
<1>2. PICK p \in Nat : len + n = b * p
  <2>1. (len + n) \div b \in Nat /\ len + n = b * ((len + n) \div b) + ((len + n) % b)
    OBVIOUS
  <2> QED
    BY <2>1
<1>3. r + n = b * p - b * q /\ r + n > 0 /\ r + n < b + b
  BY <1>1, <1>2
<1>4. b * p - b * q = b * (p - q)
  BY <1>1, <1>2
<1>5. p - q = 1
  <2> DEFINE k == p - q
  <2>1. k \in Int
    OBVIOUS
  <2>2. b * k > 0 /\ b * k < b + b
    BY <1>3, <1>4
  <2> HIDE DEF k
  <2>3. k > 0
    <3>1. CASE k <= 0
      <4>1. b * k <= 0
        BY <2>1, <3>1
      <4> QED
        BY <2>1, <2>2, <4>1
    <3> QED
      BY <2>1, <3>1
  <2>4. k < 2
    <3>1. CASE k >= 2
      <4>1. b * k >= b + b
        BY <2>1, <3>1
      <4> QED
        BY <2>1, <2>2, <4>1
    <3> QED
      BY <2>1, <3>1
  <2> QED
    BY <2>1, <2>3, <2>4 DEF k
<1> QED
  BY <1>1, <1>3, <1>4, <1>5

Bytes == Seq(Nat)

\* The part of bytes from one place to another.
LEMMA PartFacts ==
  ASSUME NEW s \in Bytes, NEW a \in Nat \ {0}, NEW b \in Nat, a <= b + 1, b <= Len(s)
  PROVE  /\ SubSeq(s, a, b) \in Bytes
         /\ Len(SubSeq(s, a, b)) = b - a + 1
         /\ \A i \in 1..(b - a + 1) : SubSeq(s, a, b)[i] = s[a + i - 1]
<1>1. \A i \in a..b : s[i] \in Nat
  BY DEF Bytes
<1> QED
  BY <1>1, SubSeqProperties DEF Bytes

\* Two sequences of bytes with the same bytes.
LEMMA SameBytes ==
  ASSUME NEW s \in Bytes, NEW t \in Bytes, Len(s) = Len(t),
         \A i \in 1..Len(s) : s[i] = t[i]
  PROVE  s = t
  BY SeqEqual DEF Bytes

\* What encrypt() puts before the padding: prefix, length, message, AppID.
HasLayout(p, rand, xml, app) ==
  /\ p \in Bytes
  /\ Len(p) = 2 + Len(xml) + Len(app)
  /\ p[1] = rand /\ p[2] = Len(xml)
  /\ \A i \in 1..Len(xml) : p[2 + i] = xml[i]
  /\ \A i \in 1..Len(app) : p[2 + Len(xml) + i] = app[i]

LEMMA LayoutFacts ==
  ASSUME NEW rand \in Nat, NEW xml \in Bytes, NEW app \in Bytes
  PROVE  HasLayout(<<rand, Len(xml)>> \o xml \o app, rand, xml, app)
  BY DEF HasLayout, Bytes

\* Bytes that have the layout are the ones that encrypt() would lay out.
LEMMA SameLayout ==
  ASSUME NEW rand \in Nat, NEW xml \in Bytes, NEW app \in Bytes,
         NEW p, HasLayout(p, rand, xml, app)
  PROVE  p = <<rand, Len(xml)>> \o xml \o app
<1> DEFINE q == <<rand, Len(xml)>> \o xml \o app
<1>1. HasLayout(q, rand, xml, app)
  BY LayoutFacts
<1> HIDE DEF q
<1>2. Len(xml) \in Nat /\ Len(app) \in Nat
  BY DEF Bytes
<1>3. ASSUME NEW j \in 1..Len(p) PROVE p[j] = q[j]
  <2>1. CASE j \in {1, 2}
    BY <1>1, <2>1 DEF HasLayout
  <2>2. CASE j > 2 /\ j <= 2 + Len(xml)
    <3>1. j - 2 \in 1..Len(xml) /\ j = 2 + (j - 2)
      BY <1>2, <2>2 DEF HasLayout
    <3> QED
      BY <1>1, <3>1 DEF HasLayout
  <2>3. CASE j > 2 + Len(xml)
    <3>1. j - 2 - Len(xml) \in 1..Len(app) /\ j = 2 + Len(xml) + (j - 2 - Len(xml))
      BY <1>2, <2>3 DEF HasLayout
    <3> QED
      BY <1>1, <3>1 DEF HasLayout
  <2> QED
    BY <1>2, <2>1, <2>2, <2>3 DEF HasLayout
<1>4. p = q
  BY <1>1, <1>3, SameBytes DEF HasLayout
<1> QED
  BY <1>4 DEF q

\* buf is p with n bytes of padding.
PaddedBy(buf, p, n) ==
  /\ n = Block - (Len(p) % Block)
  /\ n \in 1..Block
  /\ buf \in Bytes
  /\ Len(buf) = Len(p) + n
  /\ Len(buf) % Block = 0
  /\ \A i \in 1..Len(p) : buf[i] = p[i]
  /\ \A i \in (Len(p) + 1)..Len(buf) : buf[i] = n

LEMMA PadFacts ==
  ASSUME NEW p \in Bytes, Block \in Nat \ {0}
  PROVE  PaddedBy(Pad(p), p, Block - (Len(p) % Block))
<1> DEFINE n == Block - (Len(p) % Block)
<1>1. Len(p) \in Nat /\ n \in 1..Block /\ (Len(p) + n) % Block = 0
  <2>1. Len(p) \in Nat
    BY DEF Bytes
  <2> QED
    BY <2>1, Filling
<1> DEFINE pads == [i \in 1..n |-> n]
           buf == p \o pads
<1>2. Pad(p) = buf
  BY DEF Pad
<1>n. n = Block - (Len(p) % Block)
  OBVIOUS
<1> HIDE DEF n
<1>3. n \in Nat /\ pads \in Bytes /\ Len(pads) = n
  BY <1>1 DEF Bytes
<1>4. \A i \in 1..n : pads[i] = n
  OBVIOUS
<1> HIDE DEF pads
<1>5. /\ buf \in Bytes /\ Len(buf) = Len(p) + n
      /\ \A i \in 1..Len(p) : buf[i] = p[i]
      /\ \A i \in (Len(p) + 1)..Len(buf) : buf[i] = pads[i - Len(p)]
  BY <1>1, <1>3 DEF Bytes
<1>6. \A i \in (Len(p) + 1)..Len(buf) : i - Len(p) \in 1..n
  BY <1>1, <1>3, <1>5
<1>7. /\ Len(buf) % Block = 0
      /\ \A i \in (Len(p) + 1)..Len(buf) : buf[i] = n
  BY <1>1, <1>4, <1>5, <1>6
<1> HIDE DEF buf
<1>8. PaddedBy(buf, p, n)
  BY <1>n, <1>1, <1>5, <1>7 DEF PaddedBy
<1> QED
  BY <1>2, <1>8, <1>n

\* decrypt() gives back what encrypt() sealed.
LEMMA OpensSealed ==
  ASSUME Block \in Nat \ {0},
         NEW rand \in Nat, NEW xml \in Bytes, NEW app \in Bytes
  PROVE  Decrypt(Encrypt(rand, xml, app), app) = {xml}
<1> DEFINE p == <<rand, Len(xml)>> \o xml \o app
           buf == Pad(p)
           n == Block - (Len(p) % Block)
<1>1. HasLayout(p, rand, xml, app) /\ Len(xml) \in Nat /\ Len(app) \in Nat
  BY LayoutFacts DEF Bytes
<1>2. Encrypt(rand, xml, app) = buf
  BY DEF Encrypt
<1> HIDE DEF p
<1>3. PaddedBy(buf, p, n) /\ Len(p) \in Nat /\ p \in Bytes
  <2>1. p \in Bytes
    BY <1>1 DEF HasLayout
  <2>2. Len(p) \in Nat
    BY <2>1 DEF Bytes
  <2> QED
    BY <2>1, <2>2, PadFacts
<1> HIDE DEF buf, n
<1>4. buf # <<>> /\ buf[Len(buf)] = n /\ Len(buf) % Block = 0
  <2>1. Len(buf) \in (Len(p) + 1)..Len(buf) /\ Len(buf) # 0
    BY <1>3 DEF PaddedBy
  <2> QED
    BY <1>3, <2>1 DEF PaddedBy
<1>5. Padded(buf)
  BY <1>3, <1>4 DEF Padded, PaddedBy
<1>6. SubSeq(buf, 1, Len(buf) - buf[Len(buf)]) = p
  <2> DEFINE s == SubSeq(buf, 1, Len(p))
  <2>1. Len(buf) - buf[Len(buf)] = Len(p)
    BY <1>3, <1>4 DEF PaddedBy
  <2>2. s \in Bytes /\ Len(s) = Len(p) /\ \A i \in 1..Len(p) : s[i] = buf[i]
    BY <1>3, PartFacts DEF PaddedBy
  <2> HIDE DEF s
  <2>3. s = p
    BY <1>3, <2>2, SameBytes DEF PaddedBy
  <2> QED
    BY <2>1, <2>3 DEF s
<1>7. SubSeq(p, 3 + p[2], Len(p)) = app
  <2> DEFINE s == SubSeq(p, 3 + Len(xml), Len(p))
  <2>1. s \in Bytes /\ Len(s) = Len(app) /\ \A i \in 1..Len(app) : s[i] = p[2 + Len(xml) + i]
    <3>1. 3 + Len(xml) \in Nat \ {0} /\ 3 + Len(xml) <= Len(p) + 1
          /\ Len(p) - (3 + Len(xml)) + 1 = Len(app)
      BY <1>1, <1>3 DEF HasLayout
    <3>2. /\ s \in Bytes /\ Len(s) = Len(p) - (3 + Len(xml)) + 1
          /\ \A i \in 1..(Len(p) - (3 + Len(xml)) + 1) : s[i] = p[(3 + Len(xml)) + i - 1]
      BY <1>3, <3>1, PartFacts
    <3> HIDE DEF s
    <3>3. \A i \in 1..Len(app) : (3 + Len(xml)) + i - 1 = 2 + Len(xml) + i
      BY <1>1
    <3> QED
      BY <3>1, <3>2, <3>3
  <2> HIDE DEF s
  <2>2. s = app
    BY <1>1, <2>1, SameBytes DEF HasLayout
  <2> QED
    BY <1>1, <2>2 DEF s, HasLayout
<1>8. SubSeq(p, 3, 2 + p[2]) = xml
  <2> DEFINE s == SubSeq(p, 3, 2 + Len(xml))
  <2>1. s \in Bytes /\ Len(s) = Len(xml) /\ \A i \in 1..Len(xml) : s[i] = p[2 + i]
    <3>1. 3 <= 2 + Len(xml) + 1 /\ 2 + Len(xml) \in Nat /\ 2 + Len(xml) <= Len(p)
          /\ 2 + Len(xml) - 3 + 1 = Len(xml)
      BY <1>1, <1>3 DEF HasLayout
    <3>2. /\ s \in Bytes /\ Len(s) = 2 + Len(xml) - 3 + 1
          /\ \A i \in 1..(2 + Len(xml) - 3 + 1) : s[i] = p[3 + i - 1]
      BY <1>3, <3>1, PartFacts
    <3> HIDE DEF s
    <3>3. \A i \in 1..Len(xml) : 3 + i - 1 = 2 + i
      BY <1>1
    <3> QED
      BY <3>1, <3>2, <3>3
  <2> HIDE DEF s
  <2>2. s = xml
    BY <1>1, <2>1, SameBytes DEF HasLayout
  <2> QED
    BY <1>1, <2>2 DEF s, HasLayout
<1>9. Opens(p, app)
  BY <1>1, <1>7 DEF Opens, HasLayout
<1> QED
  BY <1>2, <1>4, <1>5, <1>6, <1>8, <1>9 DEF Decrypt

\* decrypt() accepts nothing that encrypt() does not make.
LEMMA OnlySealed ==
  ASSUME Block \in Nat \ {0}, NEW buf \in Bytes, NEW app \in Bytes,
         NEW xml \in Decrypt(buf, app)
  PROVE  buf = Encrypt(buf[1], xml, app)
<1> DEFINE n == buf[Len(buf)]
           plain == SubSeq(buf, 1, Len(buf) - n)
<1>1. /\ buf # <<>> /\ Len(buf) % Block = 0 /\ Padded(buf)
      /\ Opens(plain, app) /\ xml = SubSeq(plain, 3, 2 + plain[2])
  BY DEF Decrypt
<1>2. /\ Len(buf) \in Nat /\ Len(buf) > 0 /\ n \in 1..Block
      /\ \A i \in (Len(buf) - n + 1)..Len(buf) : buf[i] = n
  <2>1. Len(buf) \in Nat /\ (Len(buf) = 0 => buf = <<>>)
    BY DEF Bytes
  <2>2. Len(buf) > 0
    BY <1>1, <2>1
  <2>3. n \in 1..Block /\ \A i \in (Len(buf) - n + 1)..Len(buf) : buf[i] = n
    BY <1>1 DEF Padded
  <2> QED
    BY <2>1, <2>2, <2>3
<1>3. Len(buf) >= Block
  <2>1. CASE Len(buf) < Block
    <3>1. Len(buf) % Block = Len(buf)
      BY <1>2, <2>1
    <3> QED
      BY <1>1, <1>2, <3>1
  <2> QED
    BY <1>2, <2>1
<1>4. Len(buf) - n \in 0..Len(buf)
  BY <1>2, <1>3
<1>5. /\ plain \in Bytes /\ Len(plain) = Len(buf) - n
      /\ \A i \in 1..Len(plain) : plain[i] = buf[i]
  BY <1>4, PartFacts
<1> HIDE DEF plain
<1>6. /\ Len(plain) >= 2 /\ 2 + plain[2] <= Len(plain)
      /\ SubSeq(plain, 3 + plain[2], Len(plain)) = app
  BY <1>1 DEF Opens
<1>7. Len(plain) \in Nat /\ plain[1] \in Nat /\ plain[2] \in Nat /\ plain[1] = buf[1]
  <2>1. Len(plain) \in Nat /\ \A i \in 1..Len(plain) : plain[i] \in Nat
    BY <1>5 DEF Bytes
  <2>2. {1, 2} \subseteq 1..Len(plain)
    BY <1>6, <2>1
  <2> QED
    BY <1>5, <2>1, <2>2
<1> DEFINE len == plain[2]
<1>8. xml \in Bytes /\ Len(xml) = len /\ \A i \in 1..len : plain[2 + i] = xml[i]
  <2>1. len \in Nat /\ 3 <= 2 + len + 1 /\ 2 + len \in Nat /\ 2 + len <= Len(plain)
        /\ 2 + len - 3 + 1 = len
    BY <1>6, <1>7
  <2>2. /\ xml \in Bytes /\ Len(xml) = 2 + len - 3 + 1
        /\ \A i \in 1..(2 + len - 3 + 1) : xml[i] = plain[3 + i - 1]
    <3> DEFINE last == 2 + len
    <3> HIDE DEF len
    <3>0. last = 2 + len
      OBVIOUS
    <3>1. xml = SubSeq(plain, 3, last) /\ plain \in Bytes
      BY <1>1, <1>5 DEF len
    <3>2. last \in Nat /\ 3 <= last + 1 /\ last <= Len(plain)
      BY <2>1
    <3> HIDE DEF last
    <3>3. /\ xml \in Bytes /\ Len(xml) = last - 3 + 1
          /\ \A i \in 1..(last - 3 + 1) : xml[i] = plain[3 + i - 1]
      BY <3>1, <3>2, PartFacts
    <3>4. last - 3 + 1 = 2 + len - 3 + 1
      BY <2>1, <3>0
    <3> QED
      BY <3>3, <3>4
  <2>3. \A i \in 1..len : 3 + i - 1 = 2 + i
    BY <1>7
  <2> QED
    BY <2>1, <2>2, <2>3
<1>9. /\ Len(app) = Len(plain) - 2 - len
      /\ \A i \in 1..Len(app) : plain[2 + len + i] = app[i]
  <2>1. 3 + len \in Nat \ {0} /\ Len(plain) \in Nat /\ 3 + len <= Len(plain) + 1
        /\ Len(plain) - (3 + len) + 1 = Len(plain) - 2 - len
    BY <1>6, <1>7
  <2>2. /\ Len(app) = Len(plain) - (3 + len) + 1
        /\ \A i \in 1..(Len(plain) - (3 + len) + 1) : app[i] = plain[(3 + len) + i - 1]
    <3>1. app = SubSeq(plain, 3 + len, Len(plain)) /\ plain \in Bytes
      BY <1>5, <1>6
    <3> HIDE DEF len
    <3> QED
      BY <2>1, <3>1, PartFacts
  <2>3. \A i \in 1..Len(app) : (3 + len) + i - 1 = 2 + len + i
    BY <1>7
  <2> QED
    BY <2>1, <2>2, <2>3
<1>10. HasLayout(plain, buf[1], xml, app)
  BY <1>5, <1>6, <1>7, <1>8, <1>9 DEF HasLayout
<1>11. plain = <<buf[1], Len(xml)>> \o xml \o app
  BY <1>7, <1>8, <1>10, SameLayout
<1>12. n = Block - (Len(plain) % Block)
  <2>1. Len(plain) + n = Len(buf)
    BY <1>2, <1>5
  <2> QED
    BY <1>1, <1>2, <1>7, <2>1, OneFilling
<1>13. buf = Pad(plain)
  <2> DEFINE pad == Pad(plain)
  <2>1. PaddedBy(pad, plain, n)
    BY <1>5, <1>12, PadFacts
  <2> HIDE DEF pad
  <2>2. Len(pad) = Len(buf) /\ pad \in Bytes
    <3>1. Len(plain) + n = Len(buf)
      BY <1>2, <1>5
    <3> QED
      BY <2>1, <3>1 DEF PaddedBy
  <2>3. ASSUME NEW i \in 1..Len(buf) PROVE buf[i] = pad[i]
    <3>1. CASE i <= Len(plain)
      <4>1. i \in 1..Len(plain)
        BY <1>7, <3>1
      <4> QED
        BY <1>5, <2>1, <4>1 DEF PaddedBy
    <3>2. CASE i > Len(plain)
      <4>1. i \in (Len(plain) + 1)..Len(pad) /\ i \in (Len(buf) - n + 1)..Len(buf)
        BY <1>2, <1>5, <1>7, <2>2, <3>2
      <4> QED
        BY <1>2, <2>1, <4>1 DEF PaddedBy
    <3> QED
      BY <1>7, <3>1, <3>2
  <2>4. buf = pad
    BY <2>2, <2>3, SameBytes
  <2> QED
    BY <2>4 DEF pad
<1> QED
  BY <1>11, <1>13 DEF Encrypt

\* decrypt() gives back what encrypt() sealed and accepts nothing else, for
\* every message, AppID and block size (crypto.rs:56-120).
THEOREM OpensWhatItSealed ==
  ASSUME EnvelopeAssumption, CodecAssumption
  PROVE  TextSpec => []OpensOnlySealed
<1> DEFINE ByteText == kind = "bytes" => text \in Bytes
<1>1. TextInit => ByteText
  BY DEF TextInit, Bytes
<1>2. ByteText /\ [TextNext]_textVars => ByteText'
  <2> SUFFICES ASSUME ByteText, [TextNext]_textVars, kind' = "bytes"
               PROVE  text' \in Bytes
    OBVIOUS
  <2>1. CASE UNCHANGED textVars
    BY <2>1 DEF textVars
  <2>2. CASE TextNext
    <3>1. PICK c \in Alphabet["bytes"] : text' = Append(text, c)
      BY <2>2 DEF TextNext
    <3>2. c \in Nat /\ text \in Seq(Nat)
      BY <2>2 DEF CodecAssumption, TextNext, Bytes
    <3> QED
      BY <3>1, <3>2, AppendProperties DEF Bytes
  <2> QED
    BY <2>1, <2>2
<1>3. ByteText => OpensOnlySealed
  <2> SUFFICES ASSUME kind = "bytes", text \in Bytes PROVE OpensOnlySealed
    BY DEF OpensOnlySealed
  <2>1. Block \in Nat \ {0} /\ AppId \in Bytes
    BY DEF EnvelopeAssumption, CodecAssumption, Bytes
  <2>2. Decrypt(Encrypt(0, text, AppId), AppId) = {text}
    BY <2>1, OpensSealed
  <2>3. \A xml \in Decrypt(text, AppId) : text = Encrypt(text[1], xml, AppId)
    BY <2>1, OnlySealed
  <2> QED
    BY <2>2, <2>3 DEF OpensOnlySealed
<1> QED
  BY <1>1, <1>2, <1>3, PTL DEF TextSpec

-----------------------------------------------------------------------------
\* The part of a text from one place to another.
LEMMA PartOf ==
  ASSUME NEW S, NEW t \in Seq(S), NEW i \in 1..Len(t), NEW j \in 1..Len(t), i <= j
  PROVE  /\ Len(SubSeq(t, i, j)) = j - i + 1
         /\ \A n \in 1..(j - i + 1) : SubSeq(t, i, j)[n] = t[i + n - 1]
<1>1. \A n \in i..j : t[n] \in S
  OBVIOUS
<1> QED
  BY <1>1, SubSeqProperties

LEMMA Span ==
  ASSUME NEW i \in Nat, NEW n \in Nat \ {0}
  PROVE  /\ i + n - 1 \in Nat /\ i <= i + n - 1 /\ i + n - 1 + 1 = i + n
         /\ i + n - 1 - i + 1 = n
  OBVIOUS

LEMMA SpanLength ==
  ASSUME NEW i \in Nat, NEW j \in Nat, i <= j
  PROVE  /\ j - i + 1 \in Nat \ {0} /\ i + (j - i + 1) - 1 = j /\ i + (j - i + 1) = j + 1
         /\ \A k \in i..j : k - i + 1 \in 1..(j - i + 1) /\ i + (k - i + 1) - 1 = k
  OBVIOUS

\* What word_matches() finds of letters is a word of the text.
LEMMA FoundIsAWord ==
  ASSUME NEW S, NEW t \in Seq(S), NEW w \in Seq(S), ToSet(w) \subseteq Alnum, IsAscii(w),
         WordMatches(t, w)
  PROVE  w \in WordsOf(t)
<1>1. PICK i \in DOMAIN t :
        OccursAt(t, w, i) /\ Boundary(t, i - 1) /\ Boundary(t, i + Len(w))
  BY DEF WordMatches
<1> DEFINE n == Len(w)
           m == Len(t)
           j == i + n - 1
<1>2. n \in Nat /\ m \in Nat /\ DOMAIN t = 1..m /\ DOMAIN w = 1..n
  OBVIOUS
<1>3. n # 0
  BY DEF WordMatches
<1>4. j <= m /\ SubSeq(t, i, j) = w
  BY <1>1 DEF OccursAt
<1> HIDE DEF n, m
<1>5. i \in Nat /\ i \in 1..m /\ n \in Nat \ {0}
  BY <1>1, <1>2, <1>3
<1>6. j \in Nat /\ i <= j /\ j + 1 = i + n
  BY <1>5, Span
<1> HIDE DEF j
<1>7. j \in 1..m
  BY <1>2, <1>4, <1>5, <1>6
<1>8. n = j - i + 1 /\ \A k \in 1..(j - i + 1) : w[k] = t[i + k - 1]
  BY <1>2, <1>4, <1>5, <1>6, <1>7, PartOf DEF n, m
<1>9. ASSUME NEW k \in i..j PROVE t[k] \in Alnum
  <2> DEFINE l == k - i + 1
  <2>1. l \in 1..(j - i + 1) /\ i + l - 1 = k
    BY <1>5, <1>6, SpanLength
  <2> HIDE DEF l
  <2>2. w[l] = t[k] /\ l \in DOMAIN w
    BY <1>2, <1>8, <2>1
  <2>3. w[l] \in ToSet(w)
    BY <2>2 DEF ToSet
  <2> QED
    BY <2>2, <2>3
<1> DEFINE p == <<i, j>>
<1>10. p \in (DOMAIN t) \X (DOMAIN t) /\ p[1] = i /\ p[2] = j
  BY <1>2, <1>5, <1>7
<1>11. Boundary(t, i - 1) /\ Boundary(t, j + 1)
  BY <1>1, <1>6 DEF n
<1> HIDE DEF p
<1> QED
  BY <1>4, <1>6, <1>9, <1>10, <1>11 DEF WordsOf

LEMMA WordIsFound ==
  ASSUME NEW S, NEW t \in Seq(S), NEW w \in Seq(S), w \in WordsOf(t)
  PROVE  WordMatches(t, w)
<1>1. PICK i \in DOMAIN t, j \in DOMAIN t :
        /\ i <= j /\ w = SubSeq(t, i, j)
        /\ Boundary(t, i - 1) /\ Boundary(t, j + 1)
  BY DEF WordsOf
<1> DEFINE n == Len(w)
           m == Len(t)
<1>2. i \in 1..m /\ j \in 1..m /\ m \in Nat
  OBVIOUS
<1>3. i \in Nat /\ j \in Nat /\ i <= j /\ j <= m
  BY <1>1, <1>2
<1>4. n = j - i + 1
  BY <1>1, <1>2, <1>3, PartOf
<1> HIDE DEF n, m
<1>5. n # 0 /\ i + n - 1 = j /\ i + n = j + 1
  BY <1>3, <1>4, SpanLength
<1>6. w # <<>>
  BY <1>5 DEF n
<1>7. OccursAt(t, w, i)
  BY <1>1, <1>3, <1>5 DEF OccursAt, n, m
<1> QED
  BY <1>1, <1>5, <1>6, <1>7 DEF WordMatches, n

\* A dictionary's word is found iff it is a word of the text, and one in another
\* script iff its letters occur, for every text and dictionary (dict.rs:61-73).
THEOREM WordsAreWhole ==
  ASSUME CodecAssumption
  PROVE  TextSpec => []WholeWords
<1> DEFINE Chars == Alphabet["words"]
           WordText == kind = "words" => text \in Seq(Chars)
<1>1. TextInit => WordText
  BY DEF TextInit
<1>2. WordText /\ [TextNext]_textVars => WordText'
  <2> SUFFICES ASSUME WordText, [TextNext]_textVars, kind' = "words"
               PROVE  text' \in Seq(Chars)
    OBVIOUS
  <2>1. CASE UNCHANGED textVars
    BY <2>1 DEF textVars
  <2>2. CASE TextNext
    <3>1. PICK c \in Chars : text' = Append(text, c)
      BY <2>2 DEF TextNext
    <3>2. text \in Seq(Chars)
      BY <2>2 DEF TextNext
    <3> HIDE DEF Chars
    <3> QED
      BY <3>1, <3>2, AppendProperties
  <2> QED
    BY <2>1, <2>2
<1>3. WordText => WholeWords
  <2> SUFFICES ASSUME kind = "words", text \in Seq(Chars), NEW w \in Words
               PROVE  /\ ToSet(w) \subseteq Alnum =>
                           (WordMatches(text, w) <=> w \in WordsOf(text))
                      /\ ~IsAscii(w) =>
                           (WordMatches(text, w) <=>
                              \E i \in DOMAIN text : OccursAt(text, w, i))
    BY DEF WholeWords
  <2>1. w \in Seq(Chars) /\ Alnum \cap Wide = {}
    BY DEF CodecAssumption
  <2>2. ASSUME ~IsAscii(w)
        PROVE  WordMatches(text, w) <=> \E i \in DOMAIN text : OccursAt(text, w, i)
    <3>1. w # <<>>
      BY <2>2 DEF IsAscii, ToSet
    <3> QED
      BY <2>2, <3>1 DEF WordMatches
  <2>3. ASSUME ToSet(w) \subseteq Alnum
        PROVE  WordMatches(text, w) <=> w \in WordsOf(text)
    <3>1. IsAscii(w)
      BY <2>1, <2>3 DEF IsAscii
    <3>2. WordMatches(text, w) => w \in WordsOf(text)
      BY <2>1, <2>3, <3>1, FoundIsAWord
    <3>3. w \in WordsOf(text) => WordMatches(text, w)
      BY <2>1, WordIsFound
    <3> QED
      BY <3>2, <3>3
  <2> QED
    BY <2>2, <2>3
<1> QED
  BY <1>1, <1>2, <1>3, PTL DEF TextSpec

-----------------------------------------------------------------------------
(* The classifier's object. *)

\* Where the loop of extract_json() may be.
ScanState == [len: Nat, depth: Int, string: BOOLEAN, escaped: BOOLEAN, done: BOOLEAN]

LEMMA StepType ==
  ASSUME NEW s \in ScanState, NEW c
  PROVE  Step(s, c) \in ScanState
<1> DEFINE t == [s EXCEPT !.len = @ + 1]
<1>1. t \in ScanState
  BY DEF ScanState
<1>2. t.depth + 1 \in Int /\ t.depth - 1 \in Int
  BY <1>1 DEF ScanState
<1>3. (~t.string) \in BOOLEAN /\ (s.depth = 1) \in BOOLEAN
  OBVIOUS
<1> QED
  BY <1>1, <1>2, <1>3 DEF Step, ScanState

\* The loop goes through the characters one by one.
ScansOf(s, chars) ==
  {g \in [0..Len(chars) -> ScanState] :
     /\ g[0] = s
     /\ \A i \in 1..Len(chars) : g[i] = Step(g[i - 1], chars[i])
     /\ Scan(s, chars) = g[Len(chars)]}

LEMMA ScanLoop ==
  ASSUME NEW s \in ScanState, NEW S, NEW chars \in Seq(S)
  PROVE  ScansOf(s, chars) # {}
<1> DEFINE n == Len(chars)
           next(i, x) == Step(x, chars[i])
           G == [i \in 1..n |-> [x \in ScanState |-> next(i, x)]]
           Loop(g) == g = [i \in 0..n |-> IF i = 0 THEN s ELSE next(i, g[i - 1])]
           at == CHOOSE h : Loop(h)
<1>1. n \in Nat
  OBVIOUS
<1>2. \A i \in 1..n, x \in ScanState : next(i, x) \in ScanState
  BY StepType
<1>3. Scan(s, chars) = at[n]
  BY DEF Scan
<1> HIDE DEF n, next
<1>4. PICK g \in Walks(n, ScanState, s, G) : TRUE
  <2>1. G \in [1..n -> [ScanState -> ScanState]]
    BY <1>2
  <2> HIDE DEF G
  <2> QED
    BY <1>1, <2>1, StepByStep
<1>5. g \in [0..n -> ScanState] /\ g[0] = s /\ \A i \in 1..n : g[i] = G[i][g[i - 1]]
  BY <1>4 DEF Walks
<1>6. \A i \in 1..n : i - 1 \in 0..n /\ i \in 0..n /\ i # 0
  BY <1>1
<1>7. \A i \in 1..n : g[i] = next(i, g[i - 1])
  <2> SUFFICES ASSUME NEW i \in 1..n PROVE g[i] = next(i, g[i - 1])
    OBVIOUS
  <2>1. g[i - 1] \in ScanState
    BY <1>5, <1>6
  <2> QED
    BY <1>5, <2>1
<1>8. Loop(g)
  <2>1. \A i \in 0..n : i # 0 => i \in 1..n
    BY <1>1
  <2>2. \A i \in 0..n : g[i] = IF i = 0 THEN s ELSE next(i, g[i - 1])
    BY <1>5, <1>7, <2>1
  <2> QED
    BY <1>5, <2>2
<1>9. Loop(at)
  <2> HIDE DEF Loop
  <2> QED
    BY <1>8
<1> HIDE DEF at
<1>10. at[0] = s /\ \A i \in 1..n : at[i] = next(i, at[i - 1])
  BY <1>1, <1>6, <1>9
<1>11. \A i \in 0..n : at[i] \in ScanState
  <2> DEFINE T == {i \in 0..n : at[i] \in ScanState}
  <2>1. 0 \in T
    BY <1>1, <1>10
  <2>2. \A i \in 1..n : i - 1 \in T => i \in T
    BY <1>2, <1>6, <1>10
  <2> HIDE DEF T
  <2>3. \A i \in 0..n : i \in T
    BY <1>1, <2>1, <2>2, UpTo
  <2> QED
    BY <2>3 DEF T
<1>12. at \in [0..n -> ScanState]
  <2>1. at = [i \in 0..n |-> at[i]]
    BY <1>9
  <2> QED
    BY <1>11, <2>1
<1> QED
  BY <1>3, <1>10, <1>12 DEF n, next, ScansOf

LEMMA ScanType ==
  ASSUME NEW s \in ScanState, NEW S, NEW chars \in Seq(S)
  PROVE  Scan(s, chars) \in ScanState
<1>1. PICK g \in ScansOf(s, chars) : TRUE
  BY ScanLoop
<1>2. Len(chars) \in 0..Len(chars)
  OBVIOUS
<1> QED
  BY <1>1, <1>2 DEF ScansOf

\* What follows is scanned from where the loop is then.
LEMMA ScanOn ==
  ASSUME NEW s \in ScanState, NEW S, NEW a \in Seq(S), NEW b \in Seq(S)
  PROVE  Scan(s, a \o b) = Scan(Scan(s, a), b)
<1> DEFINE c == a \o b
           m == Len(a)
           n == Len(b)
           mid == Scan(s, a)
<1>1. /\ c \in Seq(S) /\ m \in Nat /\ n \in Nat /\ Len(c) = m + n
      /\ \A i \in 1..m : c[i] = a[i]
      /\ \A i \in 1..n : c[m + i] = b[i]
  OBVIOUS
<1>2. mid \in ScanState
  BY ScanType
<1> HIDE DEF c, mid
<1>3. PICK g \in ScansOf(s, c) : TRUE
  BY <1>1, ScanLoop
<1>4. PICK f \in ScansOf(s, a) : TRUE
  BY ScanLoop
<1>5. PICK h \in ScansOf(mid, b) : TRUE
  BY <1>2, ScanLoop
<1>6. /\ g[0] = s /\ \A i \in 1..(m + n) : g[i] = Step(g[i - 1], c[i])
      /\ Scan(s, c) = g[m + n]
  BY <1>1, <1>3 DEF ScansOf
<1>7. f[0] = s /\ (\A i \in 1..m : f[i] = Step(f[i - 1], a[i])) /\ mid = f[m]
  BY <1>4 DEF ScansOf, mid
<1>8. h[0] = mid /\ (\A i \in 1..n : h[i] = Step(h[i - 1], b[i])) /\ Scan(mid, b) = h[n]
  BY <1>5 DEF ScansOf
<1> HIDE DEF m, n
<1>9. g[m] = mid
  <2> DEFINE T == {i \in 0..m : g[i] = f[i]}
  <2>1. 0 \in T
    BY <1>1, <1>6, <1>7
  <2>2. ASSUME NEW i \in 1..m, i - 1 \in T PROVE i \in T
    <3>1. i \in 1..(m + n) /\ i \in 0..m
      BY <1>1
    <3> QED
      BY <1>1, <1>6, <1>7, <2>2, <3>1
  <2> HIDE DEF T
  <2>3. \A i \in 0..m : i \in T
    BY <1>1, <2>1, <2>2, UpTo
  <2>4. m \in T
    BY <1>1, <2>3
  <2> QED
    BY <1>7, <2>4 DEF T
<1>10. g[m + n] = h[n]
  <2> DEFINE T == {i \in 0..n : g[m + i] = h[i]}
  <2>1. 0 \in T
    BY <1>1, <1>8, <1>9
  <2>2. ASSUME NEW i \in 1..n, i - 1 \in T PROVE i \in T
    <3>1. m + i \in 1..(m + n) /\ i \in 0..n /\ m + i - 1 = m + (i - 1)
      BY <1>1
    <3> QED
      BY <1>1, <1>6, <1>8, <2>2, <3>1
  <2> HIDE DEF T
  <2>3. \A i \in 0..n : i \in T
    BY <1>1, <2>1, <2>2, UpTo
  <2>4. n \in T
    BY <1>1, <2>3
  <2> QED
    BY <2>4 DEF T
<1> QED
  BY <1>6, <1>8, <1>10 DEF c, mid

LEMMA ScanOne ==
  ASSUME NEW s \in ScanState, NEW c
  PROVE  Scan(s, <<c>>) = Step(s, c)
<1>1. <<c>> \in Seq({c}) /\ Len(<<c>>) = 1 /\ <<c>>[1] = c
  OBVIOUS
<1>2. PICK g \in ScansOf(s, <<c>>) : TRUE
  BY <1>1, ScanLoop
<1>3. 1 \in 1..1 /\ g[0] = s /\ Scan(s, <<c>>) = g[1] /\ g[1] = Step(g[0], <<c>>[1])
  BY <1>1, <1>2 DEF ScansOf
<1> QED
  BY <1>1, <1>3

\* Once it has returned it looks at nothing else.
LEMMA ScanEnded ==
  ASSUME NEW s \in ScanState, s.done, NEW S, NEW chars \in Seq(S)
  PROVE  Scan(s, chars) = s
<1>1. PICK g \in ScansOf(s, chars) : TRUE
  BY ScanLoop
<1> DEFINE n == Len(chars)
           T == {i \in 0..n : g[i] = s}
<1>2. n \in Nat /\ g[0] = s /\ (\A i \in 1..n : g[i] = Step(g[i - 1], chars[i]))
      /\ Scan(s, chars) = g[n]
  BY <1>1 DEF ScansOf
<1> HIDE DEF n
<1>3. 0 \in T
  BY <1>2
<1>4. ASSUME NEW i \in 1..n, i - 1 \in T PROVE i \in T
  <2>1. Step(s, chars[i]) = s
    BY DEF Step
  <2>2. i \in 0..n /\ g[i - 1] = s
    BY <1>2, <1>4
  <2> QED
    BY <1>2, <2>1, <2>2
<1> HIDE DEF T
<1>5. \A i \in 0..n : i \in T
  BY <1>2, <1>3, <1>4, UpTo
<1>6. n \in T
  BY <1>2, <1>5
<1> QED
  BY <1>2, <1>6 DEF T

-----------------------------------------------------------------------------
\* Between strings, in one, and behind a backslash in one.
Outside(len, depth) ==
  [len |-> len, depth |-> depth, string |-> FALSE, escaped |-> FALSE, done |-> FALSE]
Inside(len, depth) ==
  [len |-> len, depth |-> depth, string |-> TRUE, escaped |-> FALSE, done |-> FALSE]
Escaped(len, depth) ==
  [len |-> len, depth |-> depth, string |-> TRUE, escaped |-> TRUE, done |-> FALSE]
Ended(len) ==
  [len |-> len, depth |-> 0, string |-> FALSE, escaped |-> FALSE, done |-> TRUE]

LEMMA States ==
  ASSUME NEW len \in Nat, NEW depth \in Nat
  PROVE  /\ Outside(len, depth) \in ScanState /\ Inside(len, depth) \in ScanState
         /\ Escaped(len, depth) \in ScanState /\ Ended(len) \in ScanState
  BY DEF Outside, Inside, Escaped, Ended, ScanState

LEMMA Steps ==
  ASSUME NEW len \in Nat, NEW depth \in Nat
  PROVE  /\ Step(Outside(len, depth), Quote) = Inside(len + 1, depth)
         /\ Step(Outside(len, depth), "{") = Outside(len + 1, depth + 1)
         /\ Step(Outside(len, depth), "a") = Outside(len + 1, depth)
         /\ depth = 1 => Step(Outside(len, depth), "}") = Ended(len + 1)
         /\ depth > 1 => Step(Outside(len, depth), "}") = Outside(len + 1, depth - 1)
         /\ Step(Inside(len, depth), Quote) = Outside(len + 1, depth)
         /\ Step(Inside(len, depth), Backslash) = Escaped(len + 1, depth)
         /\ \A c \in {"a", "{", "}"} : Step(Inside(len, depth), c) = Inside(len + 1, depth)
         /\ \A c : Step(Escaped(len, depth), c) = Inside(len + 1, depth)
<1> USE DEF Step, Outside, Inside, Escaped, Ended, Quote, Backslash
<1>1. Step(Outside(len, depth), Quote) = Inside(len + 1, depth)
  OBVIOUS
<1>2. Step(Outside(len, depth), "{") = Outside(len + 1, depth + 1)
  OBVIOUS
<1>3. Step(Outside(len, depth), "a") = Outside(len + 1, depth)
  OBVIOUS
<1>4. depth = 1 => Step(Outside(len, depth), "}") = Ended(len + 1)
  <2>1. ASSUME depth = 1 PROVE (Outside(len, depth).depth = 1) = TRUE /\ depth - 1 = 0
    BY <2>1
  <2> QED
    BY <2>1
<1>5. depth > 1 => Step(Outside(len, depth), "}") = Outside(len + 1, depth - 1)
  <2>1. ASSUME depth > 1 PROVE (Outside(len, depth).depth = 1) = FALSE
    BY <2>1
  <2> QED
    BY <2>1
<1>6. Step(Inside(len, depth), Quote) = Outside(len + 1, depth)
  OBVIOUS
<1>7. Step(Inside(len, depth), Backslash) = Escaped(len + 1, depth)
  OBVIOUS
<1>8. \A c \in {"a", "{", "}"} : Step(Inside(len, depth), c) = Inside(len + 1, depth)
  OBVIOUS
<1>9. \A c : Step(Escaped(len, depth), c) = Inside(len + 1, depth)
  OBVIOUS
<1> QED
  BY <1>1, <1>2, <1>3, <1>4, <1>5, <1>6, <1>7, <1>8, <1>9

-----------------------------------------------------------------------------
\* FlattenSeq() goes through the sequences one by one.
FlattensOf(seqs, S) ==
  {f \in [0..Len(seqs) -> Seq(S)] :
     /\ f[0] = <<>>
     /\ \A i \in 1..Len(seqs) : f[i] = f[i - 1] \o seqs[i]
     /\ FlattenSeq(seqs) = f[Len(seqs)]}

LEMMA FlattenLoop ==
  ASSUME NEW S, NEW seqs \in Seq(Seq(S))
  PROVE  FlattensOf(seqs, S) # {}
<1> DEFINE n == Len(seqs)
           X == Seq(S)
           none == <<>>
           next(i, x) == x \o seqs[i]
           G == [i \in 1..n |-> [x \in X |-> next(i, x)]]
           Loop(g) == g = [i \in 1..n |-> IF i = 1 THEN seqs[i] ELSE g[i - 1] \o seqs[i]]
           flatten == CHOOSE h : Loop(h)
<1>1. n \in Nat /\ none \in X /\ \A i \in 1..n : seqs[i] \in X
  OBVIOUS
<1>2. \A i \in 1..n, x \in X : next(i, x) \in X
  OBVIOUS
<1>3. FlattenSeq(seqs) = IF n = 0 THEN seqs ELSE flatten[n]
  BY DEF FlattenSeq
<1>4. n = 0 => seqs = none
  OBVIOUS
<1>5. \A i \in 1..n : none \o seqs[i] = seqs[i]
  OBVIOUS
<1> HIDE DEF n, X, none, next
<1>6. PICK g \in Walks(n, X, none, G) : TRUE
  <2>1. G \in [1..n -> [X -> X]]
    BY <1>2
  <2> HIDE DEF G
  <2> QED
    BY <1>1, <2>1, StepByStep
<1>7. g \in [0..n -> X] /\ g[0] = none /\ \A i \in 1..n : g[i] = G[i][g[i - 1]]
  BY <1>6 DEF Walks
<1>8. \A i \in 1..n : i - 1 \in 0..n /\ i \in 0..n /\ i # 0 /\ (i # 1 => i - 1 \in 1..n)
  BY <1>1
<1>9. \A i \in 1..n : g[i] = next(i, g[i - 1])
  <2> SUFFICES ASSUME NEW i \in 1..n PROVE g[i] = next(i, g[i - 1])
    OBVIOUS
  <2>1. g[i - 1] \in X
    BY <1>7, <1>8
  <2> QED
    BY <1>7, <2>1
<1> DEFINE up == [i \in 1..n |-> g[i]]
<1>10. Loop(up)
  <2>1. ASSUME NEW i \in 1..n PROVE up[i] = IF i = 1 THEN seqs[i] ELSE up[i - 1] \o seqs[i]
    <3>1. up[i] = g[i - 1] \o seqs[i]
      BY <1>9 DEF next
    <3>2. CASE i = 1
      <4>1. g[i - 1] = none
        BY <1>7, <3>2
      <4> QED
        BY <1>5, <3>1, <3>2, <4>1
    <3>3. CASE i # 1
      <4>1. up[i - 1] = g[i - 1]
        BY <1>8, <3>3
      <4> QED
        BY <3>1, <3>3, <4>1
    <3> QED
      BY <3>2, <3>3
  <2> QED
    BY <2>1
<1>11. Loop(flatten)
  <2> HIDE DEF Loop, up
  <2> QED
    BY <1>10
<1> HIDE DEF flatten
<1>12. \A i \in 1..n : flatten[i] = IF i = 1 THEN seqs[i] ELSE flatten[i - 1] \o seqs[i]
  BY <1>11
<1>13. \A i \in 0..n : i # 0 => flatten[i] = g[i]
  <2> DEFINE T == {i \in 0..n : i # 0 => flatten[i] = g[i]}
  <2>1. 0 \in T
    BY <1>1
  <2>2. ASSUME NEW i \in 1..n, i - 1 \in T PROVE i \in T
    <3>1. g[i] = g[i - 1] \o seqs[i]
      BY <1>9 DEF next
    <3>2. CASE i = 1
      <4>1. g[i - 1] = none
        BY <1>7, <3>2
      <4> QED
        BY <1>5, <1>8, <1>12, <3>1, <3>2, <4>1
    <3>3. CASE i # 1
      <4>1. i - 1 # 0 /\ flatten[i - 1] = g[i - 1]
        BY <1>8, <2>2, <3>3
      <4> QED
        BY <1>8, <1>12, <3>1, <3>3, <4>1
    <3> QED
      BY <3>2, <3>3
  <2> HIDE DEF T
  <2>3. \A i \in 0..n : i \in T
    BY <1>1, <2>1, <2>2, UpTo
  <2> QED
    BY <2>3 DEF T
<1>14. FlattenSeq(seqs) = g[n]
  <2>1. CASE n = 0
    BY <1>3, <1>4, <1>7, <2>1
  <2>2. CASE n # 0
    <3>1. n \in 0..n
      BY <1>1
    <3> QED
      BY <1>3, <1>13, <2>2, <3>1
  <2> QED
    BY <2>1, <2>2
<1>15. \A i \in 1..n : g[i] = g[i - 1] \o seqs[i]
  BY <1>9 DEF next
<1> QED
  BY <1>7, <1>14, <1>15 DEF n, X, none, FlattensOf

LEMMA FlattenType ==
  ASSUME NEW S, NEW seqs \in Seq(Seq(S))
  PROVE  FlattenSeq(seqs) \in Seq(S)
<1>1. PICK f \in FlattensOf(seqs, S) : TRUE
  BY FlattenLoop
<1>2. f \in [0..Len(seqs) -> Seq(S)] /\ FlattenSeq(seqs) = f[Len(seqs)]
  BY <1>1 DEF FlattensOf
<1>3. Len(seqs) \in 0..Len(seqs)
  OBVIOUS
<1> QED
  BY <1>2, <1>3

LEMMA TwoTexts ==
  ASSUME NEW S, NEW a \in Seq(S), NEW b \in Seq(S)
  PROVE  a \o b \in Seq(S) /\ Len(a) + 1 > 0
<1>1. Len(a) \in Nat
  OBVIOUS
<1> QED
  BY <1>1

-----------------------------------------------------------------------------
Json == {"a", "{", "}", Quote, Backslash}

\* A text of one character.  Its definition is expanded where it must be only.
One(c) == <<c>>

LEMMA OneType == ASSUME NEW S, NEW c \in S PROVE One(c) \in Seq(S)
  BY DEF One

\* The loop reads x, of n characters, from s to t.
Leads(s, x, n, t) ==
  /\ s \in ScanState /\ n \in Nat /\ x \in Seq(Json) /\ Len(x) = n
  /\ Scan(s, x) = t

LEMMA Onward ==
  ASSUME NEW s, NEW t, NEW u, NEW a, NEW b, NEW i, NEW j,
         Leads(s, a, i, t), Leads(t, b, j, u)
  PROVE  Leads(s, a \o b, i + j, u)
<1>1. /\ s \in ScanState /\ a \in Seq(Json) /\ b \in Seq(Json)
      /\ Len(a) = i /\ Len(b) = j /\ Scan(s, a) = t /\ Scan(t, b) = u /\ i \in Nat /\ j \in Nat
  BY DEF Leads
<1>2. a \o b \in Seq(Json) /\ Len(a \o b) = i + j /\ i + j \in Nat
  BY <1>1
<1>3. Scan(s, a \o b) = u
  BY <1>1, ScanOn
<1> QED
  BY <1>1, <1>2, <1>3 DEF Leads

LEMMA OneLeads ==
  ASSUME NEW s \in ScanState, NEW c \in Json
  PROVE  Leads(s, One(c), 1, Step(s, c))
<1>1. <<c>> \in Seq(Json) /\ Len(<<c>>) = 1 /\ 1 \in Nat
  OBVIOUS
<1> QED
  BY <1>1, ScanOne DEF Leads, One

LEMMA TwoAreOnes ==
  ASSUME NEW c \in Json, NEW d \in Json
  PROVE  <<c, d>> = One(c) \o One(d)
<1> DEFINE l == <<c>> \o <<d>>
           r == <<c, d>>
<1>1. <<c>> \in Seq(Json) /\ <<d>> \in Seq(Json)
  OBVIOUS
<1>2. l \in Seq(Json) /\ r \in Seq(Json) /\ Len(l) = 2 /\ Len(r) = 2
  BY <1>1
<1>3. l[1] = r[1] /\ l[2] = r[2]
  BY <1>1
<1>4. l = One(c) \o One(d)
  BY DEF One
<1> HIDE DEF l, r
<1>5. l = r
  BY <1>2, <1>3, SeqEqual
<1> QED
  BY <1>4, <1>5 DEF r

\* How an object leaves the loop: the outermost one ends it.
Closed(len, depth) == IF depth = 0 THEN Ended(len) ELSE Outside(len, depth)

LEMMA CharLeads ==
  ASSUME NEW len \in Nat, NEW depth \in Nat
  PROVE  /\ Leads(Outside(len, depth), One(Quote), 1, Inside(len + 1, depth))
         /\ Leads(Outside(len, depth), One("{"), 1, Outside(len + 1, depth + 1))
         /\ Leads(Outside(len, depth), One("a"), 1, Outside(len + 1, depth))
         /\ Leads(Outside(len, depth + 1), One("}"), 1, Closed(len + 1, depth))
         /\ Leads(Inside(len, depth), One(Quote), 1, Outside(len + 1, depth))
         /\ Leads(Inside(len, depth), One(Backslash), 1, Escaped(len + 1, depth))
         /\ \A c \in {"a", "{", "}"} :
              Leads(Inside(len, depth), One(c), 1, Inside(len + 1, depth))
         /\ \A c \in Json : Leads(Escaped(len, depth), One(c), 1, Inside(len + 1, depth))
<1>1. /\ Outside(len, depth) \in ScanState /\ Inside(len, depth) \in ScanState
      /\ Escaped(len, depth) \in ScanState
  BY States
<1>2. /\ Quote \in Json /\ Backslash \in Json /\ "a" \in Json /\ "{" \in Json /\ "}" \in Json
  BY DEF Json
<1>3. Leads(Outside(len, depth + 1), One("}"), 1, Closed(len + 1, depth))
  <2> DEFINE d == depth + 1
  <2>1. d \in Nat /\ (depth = 0 => d = 1) /\ (depth # 0 => d > 1) /\ d - 1 = depth
    OBVIOUS
  <2> HIDE DEF d
  <2>2. Outside(len, d) \in ScanState
    BY <2>1, States
  <2>3. Step(Outside(len, d), "}") = Closed(len + 1, depth)
    BY <2>1, Steps DEF Closed
  <2>4. Leads(Outside(len, d), One("}"), 1, Step(Outside(len, d), "}"))
    BY <1>2, <2>2, OneLeads
  <2> QED
    BY <2>3, <2>4 DEF d
<1>4. /\ Leads(Outside(len, depth), One(Quote), 1, Inside(len + 1, depth))
      /\ Leads(Outside(len, depth), One("{"), 1, Outside(len + 1, depth + 1))
      /\ Leads(Outside(len, depth), One("a"), 1, Outside(len + 1, depth))
  <2>1. /\ Leads(Outside(len, depth), One(Quote), 1, Step(Outside(len, depth), Quote))
        /\ Leads(Outside(len, depth), One("{"), 1, Step(Outside(len, depth), "{"))
        /\ Leads(Outside(len, depth), One("a"), 1, Step(Outside(len, depth), "a"))
    BY <1>1, <1>2, OneLeads
  <2> QED
    BY <2>1, Steps
<1>5. /\ Leads(Inside(len, depth), One(Quote), 1, Outside(len + 1, depth))
      /\ Leads(Inside(len, depth), One(Backslash), 1, Escaped(len + 1, depth))
  <2>1. /\ Leads(Inside(len, depth), One(Quote), 1, Step(Inside(len, depth), Quote))
        /\ Leads(Inside(len, depth), One(Backslash), 1, Step(Inside(len, depth), Backslash))
    BY <1>1, <1>2, OneLeads
  <2> QED
    BY <2>1, Steps
<1>6. ASSUME NEW c \in {"a", "{", "}"}
      PROVE  Leads(Inside(len, depth), One(c), 1, Inside(len + 1, depth))
  <2>1. c \in Json
    BY <1>2
  <2>2. Leads(Inside(len, depth), One(c), 1, Step(Inside(len, depth), c))
    BY <1>1, <2>1, OneLeads
  <2> QED
    BY <2>2, Steps
<1>7. ASSUME NEW c \in Json
      PROVE  Leads(Escaped(len, depth), One(c), 1, Inside(len + 1, depth))
  <2>1. Leads(Escaped(len, depth), One(c), 1, Step(Escaped(len, depth), c))
    BY <1>1, OneLeads
  <2>2. Step(Escaped(len, depth), c) = Inside(len + 1, depth)
    <3>1. \A x : Step(Escaped(len, depth), x) = Inside(len + 1, depth)
      BY Steps
    <3> QED
      BY <3>1
  <2> QED
    BY <2>1, <2>2
<1> QED
  BY <1>3, <1>4, <1>5, <1>6, <1>7

LEMMA ElementLeads ==
  ASSUME NEW e \in Elements, NEW len \in Nat, NEW depth \in Nat
  PROVE  \E n \in Nat : Leads(Inside(len, depth), e, n, Inside(len + n, depth))
<1>1. CASE \E c \in {"a", "{", "}"} : e = One(c)
  BY <1>1, CharLeads
<1>2. ASSUME NEW c \in {Quote, Backslash}, e = One(Backslash) \o One(c)
      PROVE  Leads(Inside(len, depth), e, 2, Inside(len + 2, depth))
  <2>1. c \in Json
    BY DEF Json
  <2>2. len + 1 \in Nat /\ len + 1 + 1 = len + 2 /\ 1 + 1 = 2
    OBVIOUS
  <2>3. Leads(Inside(len, depth), One(Backslash), 1, Escaped(len + 1, depth))
    BY CharLeads
  <2>4. Leads(Escaped(len + 1, depth), One(c), 1, Inside(len + 1 + 1, depth))
    BY <2>1, <2>2, CharLeads
  <2>5. Leads(Inside(len, depth), One(Backslash) \o One(c), 1 + 1, Inside(len + 1 + 1, depth))
    BY <2>3, <2>4, Onward
  <2> QED
    BY <1>2, <2>5, <2>2
<1>3. \/ \E c \in {"a", "{", "}"} : e = One(c)
      \/ \E c \in {Quote, Backslash} : e = One(Backslash) \o One(c)
  <2>1. e \in {One("a"), One("{"), One("}"), <<Backslash, Quote>>, <<Backslash, Backslash>>}
    BY DEF Elements, One
  <2>2. \A c \in {Quote, Backslash} : <<Backslash, c>> = One(Backslash) \o One(c)
    BY TwoAreOnes DEF Json
  <2> QED
    BY <2>1, <2>2
<1> QED
  BY <1>1, <1>2, <1>3

\* The elements of a string keep the loop in it.
LEMMA ElementsLead ==
  ASSUME NEW s \in Seq(Elements), NEW len \in Nat, NEW depth \in Nat
  PROVE  \E n \in Nat : Leads(Inside(len, depth), FlattenSeq(s), n, Inside(len + n, depth))
<1> DEFINE k == Len(s)
           Stays(x) == \E n \in Nat : Leads(Inside(len, depth), x, n, Inside(len + n, depth))
<1>1. k \in Nat /\ \A i \in 1..k : s[i] \in Elements
  OBVIOUS
<1>2. s \in Seq(Seq(Json))
  <2>1. \A e \in Elements : e \in Seq(Json)
    BY ElementLeads DEF Leads
  <2> QED
    BY <2>1
<1>3. PICK f \in FlattensOf(s, Json) : TRUE
  BY <1>2, FlattenLoop
<1>4. /\ f \in [0..k -> Seq(Json)] /\ f[0] = <<>> /\ FlattenSeq(s) = f[k]
      /\ \A i \in 1..k : f[i] = f[i - 1] \o s[i]
  BY <1>3 DEF FlattensOf
<1> HIDE DEF k
<1>5. Stays(<<>>)
  <2>1. <<>> \in Seq(Json) /\ Len(<<>>) = 0 /\ len + 0 = len /\ 0 \in Nat
    OBVIOUS
  <2>2. Inside(len, depth) \in ScanState
    BY States
  <2>3. PICK g \in ScansOf(Inside(len, depth), <<>>) : TRUE
    BY <2>1, <2>2, ScanLoop
  <2>4. Scan(Inside(len, depth), <<>>) = Inside(len, depth)
    BY <2>1, <2>3 DEF ScansOf
  <2>5. Leads(Inside(len, depth), <<>>, 0, Inside(len + 0, depth))
    BY <2>1, <2>2, <2>4 DEF Leads
  <2> QED
    BY <2>1, <2>5
<1>6. ASSUME NEW x, Stays(x), NEW e \in Elements PROVE Stays(x \o e)
  <2>1. PICK m \in Nat : Leads(Inside(len, depth), x, m, Inside(len + m, depth))
    BY <1>6
  <2>2. PICK n \in Nat : Leads(Inside(len + m, depth), e, n, Inside(len + m + n, depth))
    <3>1. len + m \in Nat
      OBVIOUS
    <3> QED
      BY <3>1, ElementLeads
  <2>3. Leads(Inside(len, depth), x \o e, m + n, Inside(len + m + n, depth))
    BY <2>1, <2>2, Onward
  <2>4. m + n \in Nat /\ len + m + n = len + (m + n)
    OBVIOUS
  <2> QED
    BY <2>3, <2>4
<1> HIDE DEF Stays
<1> DEFINE T == {i \in 0..k : Stays(f[i])}
<1>7. 0 \in T
  BY <1>1, <1>4, <1>5
<1>8. ASSUME NEW i \in 1..k, i - 1 \in T PROVE i \in T
  <2>1. i \in 0..k /\ Stays(f[i - 1])
    BY <1>1, <1>8
  <2> QED
    BY <1>1, <1>4, <1>6, <2>1
<1> HIDE DEF T
<1>9. \A i \in 0..k : i \in T
  BY <1>1, <1>7, <1>8, UpTo
<1>10. k \in T
  BY <1>1, <1>9
<1> QED
  BY <1>4, <1>10 DEF T, Stays

\* A string leaves the loop as deep as it was.
LEMMA StringLeads ==
  ASSUME NEW str \in Strings, NEW len \in Nat, NEW depth \in Nat
  PROVE  \E n \in Nat : Leads(Outside(len, depth), str, n, Outside(len + n, depth))
<1> DEFINE q == One(Quote)
<1>1. PICK s \in BoundedSeq(Elements, MaxString) : str = q \o FlattenSeq(s) \o q
  BY DEF Strings, One
<1>2. s \in Seq(Elements)
  <2>1. PICK m \in 0..MaxString : s \in [1..m -> Elements]
    BY DEF BoundedSeq, SeqOf
  <2>2. m \in Nat
    BY <2>1, CodecAssumption DEF CodecAssumption
  <2> QED
    BY <2>1, <2>2
<1> DEFINE t == FlattenSeq(s)
<1>3. len + 1 \in Nat
  OBVIOUS
<1>4. PICK n \in Nat : Leads(Inside(len + 1, depth), t, n, Inside(len + 1 + n, depth))
  BY <1>2, <1>3, ElementsLead
<1>5. Leads(Outside(len, depth), q, 1, Inside(len + 1, depth))
  BY CharLeads
<1>6. Leads(Inside(len + 1 + n, depth), q, 1, Outside(len + 1 + n + 1, depth))
  <2>1. len + 1 + n \in Nat
    OBVIOUS
  <2> QED
    BY <2>1, CharLeads
<1> HIDE DEF q, t
<1>7. Leads(Outside(len, depth), q \o t, 1 + n, Inside(len + 1 + n, depth))
  BY <1>4, <1>5, Onward
<1>8. Leads(Outside(len, depth), (q \o t) \o q, 1 + n + 1, Outside(len + 1 + n + 1, depth))
  BY <1>6, <1>7, Onward
<1>9. 1 + n + 1 \in Nat /\ len + (1 + n + 1) = len + 1 + n + 1
  OBVIOUS
<1>10. str = (q \o t) \o q
  BY <1>1 DEF t
<1> QED
  BY <1>8, <1>9, <1>10

\* What is between an opening and a closing brace.
LEMMA BraceLeads ==
  ASSUME NEW len \in Nat, NEW depth \in Nat, NEW open, NEW mid, NEW m \in Nat, NEW n \in Nat,
         Leads(Outside(len, depth), open, m, Outside(len + m, depth + 1)),
         Leads(Outside(len + m, depth + 1), mid, n, Outside(len + m + n, depth + 1))
  PROVE  \E k \in Nat :
           Leads(Outside(len, depth), open \o mid \o One("}"), k, Closed(len + k, depth))
<1> DEFINE close == One("}")
<1>1. Leads(Outside(len + m + n, depth + 1), close, 1, Closed(len + m + n + 1, depth))
  <2>1. len + m + n \in Nat
    OBVIOUS
  <2> QED
    BY <2>1, CharLeads
<1> HIDE DEF close
<1>2. Leads(Outside(len, depth), open \o mid, m + n, Outside(len + m + n, depth + 1))
  BY Onward
<1>3. Leads(Outside(len, depth), open \o mid \o close, m + n + 1, Closed(len + m + n + 1, depth))
  BY <1>1, <1>2, Onward
<1>4. m + n + 1 \in Nat /\ len + (m + n + 1) = len + m + n + 1
  OBVIOUS
<1> QED
  BY <1>3, <1>4 DEF close

\* A part of an object, which leaves the loop as deep as it was.
Passes(x) ==
  \A len \in Nat, depth \in Nat \ {0} :
    \E n \in Nat : Leads(Outside(len, depth), x, n, Outside(len + n, depth))

\* An object, which ends the loop at its last character if nothing is around it.
IsObject(o) ==
  \A len \in Nat, depth \in Nat :
    \E k \in Nat : Leads(Outside(len, depth), o, k, Closed(len + k, depth))

LEMMA PassesNone == Passes(<<>>)
<1> SUFFICES ASSUME NEW len \in Nat, NEW depth \in Nat \ {0}
             PROVE  \E n \in Nat : Leads(Outside(len, depth), <<>>, n, Outside(len + n, depth))
  BY DEF Passes
<1>1. <<>> \in Seq(Json) /\ Len(<<>>) = 0 /\ len + 0 = len /\ 0 \in Nat /\ depth \in Nat
  OBVIOUS
<1>2. Outside(len, depth) \in ScanState
  BY <1>1, States
<1>3. PICK g \in ScansOf(Outside(len, depth), <<>>) : TRUE
  BY <1>1, <1>2, ScanLoop
<1>4. Scan(Outside(len, depth), <<>>) = Outside(len, depth)
  BY <1>1, <1>3 DEF ScansOf
<1>5. Leads(Outside(len, depth), <<>>, 0, Outside(len + 0, depth))
  BY <1>1, <1>2, <1>4 DEF Leads
<1> QED
  BY <1>1, <1>5

LEMMA PassesOn ==
  ASSUME NEW x, NEW y, Passes(x), Passes(y)
  PROVE  Passes(x \o y)
<1> SUFFICES ASSUME NEW len \in Nat, NEW depth \in Nat \ {0}
             PROVE  \E n \in Nat : Leads(Outside(len, depth), x \o y, n, Outside(len + n, depth))
  BY DEF Passes
<1>1. PICK m \in Nat : Leads(Outside(len, depth), x, m, Outside(len + m, depth))
  BY DEF Passes
<1>2. PICK n \in Nat : Leads(Outside(len + m, depth), y, n, Outside(len + m + n, depth))
  <2>1. len + m \in Nat
    OBVIOUS
  <2> QED
    BY <2>1 DEF Passes
<1>3. Leads(Outside(len, depth), x \o y, m + n, Outside(len + m + n, depth))
  BY <1>1, <1>2, Onward
<1>4. m + n \in Nat /\ len + m + n = len + (m + n)
  OBVIOUS
<1> QED
  BY <1>3, <1>4

LEMMA PassesJson == ASSUME NEW x, Passes(x) PROVE x \in Seq(Json)
<1>1. 1 \in Nat /\ 1 \in Nat \ {0}
  OBVIOUS
<1>2. \E n \in Nat : Leads(Outside(1, 1), x, n, Outside(1 + n, 1))
  BY <1>1 DEF Passes
<1> QED
  BY <1>2 DEF Leads

LEMMA MembersPass ==
  ASSUME NEW M, \A m \in M : Passes(m), NEW ms \in Seq(M)
  PROVE  Passes(FlattenSeq(ms))
<1> DEFINE k == Len(ms)
<1>1. k \in Nat /\ \A i \in 1..k : ms[i] \in M
  OBVIOUS
<1>2. ms \in Seq(Seq(Json))
  <2>1. \A m \in M : m \in Seq(Json)
    BY PassesJson
  <2> QED
    BY <2>1
<1>3. PICK f \in FlattensOf(ms, Json) : TRUE
  BY <1>2, FlattenLoop
<1>4. /\ f[0] = <<>> /\ FlattenSeq(ms) = f[k]
      /\ \A i \in 1..k : f[i] = f[i - 1] \o ms[i]
  BY <1>3 DEF FlattensOf
<1> HIDE DEF k
<1> DEFINE T == {i \in 0..k : Passes(f[i])}
<1>5. 0 \in T
  BY <1>1, <1>4, PassesNone
<1>6. ASSUME NEW i \in 1..k, i - 1 \in T PROVE i \in T
  <2>1. i \in 0..k /\ Passes(f[i - 1]) /\ Passes(ms[i])
    BY <1>1, <1>6
  <2> QED
    BY <1>4, <2>1, PassesOn
<1> HIDE DEF T
<1>7. \A i \in 0..k : i \in T
  BY <1>1, <1>5, <1>6, UpTo
<1>8. k \in T
  BY <1>1, <1>7
<1> QED
  BY <1>4, <1>8 DEF T

LEMMA ScalarsPass == \A m \in Scalars : Passes(m)
<1>1. ASSUME NEW m \in Strings PROVE Passes(m)
  BY StringLeads DEF Passes
<1>2. Passes(One("a"))
  <2> SUFFICES ASSUME NEW len \in Nat, NEW depth \in Nat \ {0}
               PROVE  \E n \in Nat :
                        Leads(Outside(len, depth), One("a"), n, Outside(len + n, depth))
    BY DEF Passes
  <2>1. Leads(Outside(len, depth), One("a"), 1, Outside(len + 1, depth))
    BY CharLeads
  <2>2. 1 \in Nat
    OBVIOUS
  <2> QED
    BY <2>1, <2>2
<1> QED
  BY <1>1, <1>2 DEF Scalars, One

LEMMA ObjectPasses == ASSUME NEW o, IsObject(o) PROVE Passes(o)
<1> SUFFICES ASSUME NEW len \in Nat, NEW depth \in Nat \ {0}
             PROVE  \E n \in Nat : Leads(Outside(len, depth), o, n, Outside(len + n, depth))
  BY DEF Passes
<1>1. depth \in Nat /\ depth # 0
  OBVIOUS
<1>2. PICK k \in Nat : Leads(Outside(len, depth), o, k, Closed(len + k, depth))
  BY <1>1 DEF IsObject
<1> QED
  BY <1>1, <1>2 DEF Closed

\* The members of an object, one after the other.
LEMMA MembersOf ==
  ASSUME NEW M, \A m \in M : Passes(m), NEW max \in Nat, NEW o \in ObjectsOf(M, max)
  PROVE  \E t : Passes(t) /\ o = One("{") \o t \o One("}")
<1>1. PICK ms \in BoundedSeq(M, max) : o = One("{") \o FlattenSeq(ms) \o One("}")
  BY DEF ObjectsOf, One
<1>2. ms \in Seq(M)
  <2>1. PICK m \in 0..max : ms \in [1..m -> M]
    BY DEF BoundedSeq, SeqOf
  <2>2. m \in Nat
    BY <2>1
  <2> QED
    BY <2>1, <2>2
<1> QED
  BY <1>1, <1>2, MembersPass

LEMMA BracesMakeAnObject ==
  ASSUME NEW t, Passes(t)
  PROVE  IsObject(One("{") \o t \o One("}"))
<1> DEFINE open == One("{")
<1> SUFFICES ASSUME NEW len \in Nat, NEW depth \in Nat
             PROVE  \E k \in Nat : Leads(Outside(len, depth), open \o t \o One("}"), k,
                                         Closed(len + k, depth))
  BY DEF IsObject
<1>1. len + 1 \in Nat /\ depth + 1 \in Nat \ {0} /\ 1 \in Nat
  OBVIOUS
<1>2. Leads(Outside(len, depth), open, 1, Outside(len + 1, depth + 1))
  BY CharLeads
<1> HIDE DEF open
<1>3. PICK n \in Nat :
        Leads(Outside(len + 1, depth + 1), t, n, Outside(len + 1 + n, depth + 1))
  BY <1>1 DEF Passes
<1> QED
  BY <1>1, <1>2, <1>3, BraceLeads

\* The levels of objects, from the innermost.
LEMMA Levels ==
  /\ Nested[0] = ObjectsOf(Scalars, MaxMembers[0])
  /\ \A d \in 1..MaxDepth : Nested[d] = ObjectsOf(Scalars \cup Nested[d - 1], MaxMembers[d])
<1> DEFINE X == SUBSET Seq(Json)
           n == MaxDepth
           base == ObjectsOf(Scalars, MaxMembers[0])
           next(i, x) == ObjectsOf(Scalars \cup x, MaxMembers[i])
           G == [i \in 1..n |-> [x \in X |-> next(i, x)]]
           Loop(g) == g = [d \in 0..n |->
             ObjectsOf(IF d = 0 THEN Scalars ELSE Scalars \cup g[d - 1], MaxMembers[d])]
           Walk(g) == /\ g[0] = base
                      /\ \A i \in 1..n : g[i] = next(i, g[i - 1])
<1>1. n \in Nat /\ MaxMembers \in [0..n -> Nat]
  BY CodecAssumption DEF CodecAssumption
<1>2. \A i \in 0..n : MaxMembers[i] \in Nat
  BY <1>1
<1>3. \A i \in 1..n : i \in 0..n /\ i # 0 /\ i - 1 \in 0..n
  BY <1>1
<1>4. 0 \in 0..n /\ \A i \in 0..n : i # 0 => i \in 1..n
  BY <1>1
<1>5. Nested = CHOOSE g : Loop(g)
  BY DEF Nested
<1>6. ASSUME NEW M \in X, NEW max \in Nat PROVE ObjectsOf(M, max) \in X
  <2> SUFFICES ASSUME NEW o \in ObjectsOf(M, max) PROVE o \in Seq(Json)
    OBVIOUS
  <2>1. PICK ms \in BoundedSeq(M, max) : o = <<"{">> \o FlattenSeq(ms) \o <<"}">>
    BY DEF ObjectsOf
  <2>2. ms \in Seq(M)
    <3>1. PICK m \in 0..max : ms \in [1..m -> M]
      BY DEF BoundedSeq, SeqOf
    <3>2. m \in Nat
      BY <3>1
    <3> QED
      BY <3>1, <3>2
  <2>3. ms \in Seq(Seq(Json))
    BY <2>2
  <2>4. FlattenSeq(ms) \in Seq(Json)
    BY <2>3, FlattenType
  <2>5. One("{") \in Seq(Json) /\ One("}") \in Seq(Json)
    <3>1. "{" \in Json /\ "}" \in Json
      BY DEF Json
    <3> QED
      BY <3>1, OneType
  <2>6. o = One("{") \o FlattenSeq(ms) \o One("}")
    BY <2>1 DEF One
  <2> QED
    BY <2>4, <2>5, <2>6, TwoTexts
<1>7. Scalars \in X
  BY ScalarsPass, PassesJson
<1> HIDE DEF n, X
<1>8. base \in X /\ \A i \in 1..n, x \in X : next(i, x) \in X
  <2>1. \A x \in X : Scalars \cup x \in X
    BY <1>7 DEF X
  <2> QED
    BY <1>2, <1>3, <1>4, <1>6, <1>7, <2>1
<1> HIDE DEF base, next
<1>9. PICK g \in Walks(n, X, base, G) : TRUE
  <2>1. G \in [1..n -> [X -> X]]
    BY <1>8
  <2> HIDE DEF G
  <2> QED
    BY <1>1, <1>8, <2>1, StepByStep
<1>10. g \in [0..n -> X] /\ g[0] = base /\ \A i \in 1..n : g[i] = G[i][g[i - 1]]
  BY <1>9 DEF Walks
<1>11. Loop(g)
  <2>1. \A i \in 1..n : g[i] = next(i, g[i - 1])
    <3> SUFFICES ASSUME NEW i \in 1..n PROVE g[i] = next(i, g[i - 1])
      OBVIOUS
    <3>1. g[i - 1] \in X
      BY <1>3, <1>10
    <3> QED
      BY <1>10, <3>1
  <2>2. g[0] = ObjectsOf(Scalars, MaxMembers[0])
    BY <1>10 DEF base
  <2>3. \A i \in 1..n : g[i] = ObjectsOf(Scalars \cup g[i - 1], MaxMembers[i])
    BY <2>1 DEF next
  <2>4. \A i \in 0..n :
          g[i] = ObjectsOf(IF i = 0 THEN Scalars ELSE Scalars \cup g[i - 1], MaxMembers[i])
    BY <1>4, <2>2, <2>3
  <2>5. g = [i \in 0..n |-> g[i]]
    BY <1>10
  <2> QED
    BY <2>4, <2>5
<1>12. Loop(Nested)
  <2> HIDE DEF Loop
  <2> QED
    BY <1>5, <1>11
<1> HIDE DEF G
<1>13. \A d \in 0..n :
         Nested[d] = ObjectsOf(IF d = 0 THEN Scalars ELSE Scalars \cup Nested[d - 1], MaxMembers[d])
  BY <1>12
<1> QED
  BY <1>3, <1>4, <1>13 DEF n

LEMMA NestedAreObjects ==
  \A d \in 0..MaxDepth : \A o \in Nested[d] :
    IsObject(o) /\ \E t : Passes(t) /\ o = One("{") \o t \o One("}")
<1> DEFINE n == MaxDepth
           Good(d) == \A o \in Nested[d] :
             IsObject(o) /\ \E t : Passes(t) /\ o = One("{") \o t \o One("}")
           T == {d \in 0..n : Good(d)}
<1>1. n \in Nat /\ MaxMembers \in [0..n -> Nat]
  BY CodecAssumption DEF CodecAssumption
<1>2. \A d \in 0..n : MaxMembers[d] \in Nat
  BY <1>1
<1>3. 0 \in 0..n /\ \A d \in 1..n : d \in 0..n
  BY <1>1
<1>4. ASSUME NEW M, \A m \in M : Passes(m), NEW max \in Nat, NEW o \in ObjectsOf(M, max)
      PROVE  IsObject(o) /\ \E t : Passes(t) /\ o = One("{") \o t \o One("}")
  <2>1. PICK t : Passes(t) /\ o = One("{") \o t \o One("}")
    BY <1>4, MembersOf
  <2>2. IsObject(One("{") \o t \o One("}"))
    BY <2>1, BracesMakeAnObject
  <2> QED
    BY <2>1, <2>2
<1>5. 0 \in T
  <2> DEFINE max == MaxMembers[0]
  <2>1. Nested[0] = ObjectsOf(Scalars, max) /\ max \in Nat
    BY <1>2, <1>3, Levels
  <2> HIDE DEF max
  <2>2. Good(0)
    <3> SUFFICES ASSUME NEW o \in Nested[0]
                 PROVE  IsObject(o) /\ \E t : Passes(t) /\ o = One("{") \o t \o One("}")
      OBVIOUS
    <3>1. o \in ObjectsOf(Scalars, max)
      BY <2>1
    <3> QED
      BY <1>4, <2>1, <3>1, ScalarsPass
  <2> HIDE DEF Good
  <2> QED
    BY <1>3, <2>2
<1>6. ASSUME NEW d \in 1..n, d - 1 \in T PROVE d \in T
  <2> DEFINE M == Scalars \cup Nested[d - 1]
             max == MaxMembers[d]
  <2>1. Nested[d] = ObjectsOf(M, max) /\ max \in Nat
    BY <1>2, <1>3, Levels
  <2>2. \A m \in M : Passes(m)
    BY <1>6, ScalarsPass, ObjectPasses
  <2> HIDE DEF M, max
  <2>3. Good(d)
    <3> SUFFICES ASSUME NEW o \in Nested[d]
                 PROVE  IsObject(o) /\ \E t : Passes(t) /\ o = One("{") \o t \o One("}")
      OBVIOUS
    <3>1. o \in ObjectsOf(M, max)
      BY <2>1
    <3> QED
      BY <1>4, <2>1, <2>2, <3>1
  <2> HIDE DEF Good
  <2> QED
    BY <1>3, <2>3
<1> HIDE DEF T
<1>7. \A d \in 0..n : d \in T
  BY <1>1, <1>5, <1>6, UpTo
<1> QED
  BY <1>7 DEF T

\* An object ends the loop at its last character.
LEMMA ObjectLeads ==
  ASSUME NEW o \in Objects
  PROVE  /\ \E k \in Nat : Leads(Begin, o, k, Ended(k))
         /\ \E t : Passes(t) /\ o = One("{") \o t \o One("}")
<1>1. Begin = Outside(0, 0) /\ \A k \in Nat : Closed(0 + k, 0) = Ended(k)
  BY DEF Begin, Outside, Closed
<1>2. MaxDepth \in 0..MaxDepth
  BY CodecAssumption DEF CodecAssumption
<1>3. IsObject(o) /\ \E t : Passes(t) /\ o = One("{") \o t \o One("}")
  BY <1>2, NestedAreObjects DEF Objects
<1>4. \E k \in Nat : Leads(Outside(0, 0), o, k, Closed(0 + k, 0))
  <2>1. 0 \in Nat
    OBVIOUS
  <2> QED
    BY <1>3, <2>1 DEF IsObject
<1> QED
  BY <1>1, <1>3, <1>4

-----------------------------------------------------------------------------
\* Texts in parts.
StartsAs(x, c) == x # <<>> /\ x[1] = c

LEMMA OpensOn ==
  ASSUME NEW S, NEW a \in Seq(S), NEW b \in Seq(S), NEW c, StartsAs(a, c)
  PROVE  StartsAs(a \o b, c)
<1>1. Len(a) \in Nat \ {0} /\ Len(b) \in Nat /\ a[1] = c
  BY DEF StartsAs
<1>2. a \o b \in Seq(S) /\ Len(a \o b) = Len(a) + Len(b) /\ (a \o b)[1] = a[1]
  BY <1>1
<1>3. Len(a \o b) # 0
  BY <1>1, <1>2
<1>4. a \o b # <<>>
  BY <1>3
<1> QED
  BY <1>1, <1>2, <1>4 DEF StartsAs

LEMMA ObjectOpens ==
  ASSUME NEW o \in Objects
  PROVE  o \in Seq(Json) /\ StartsAs(o, "{")
<1>1. PICK t : Passes(t) /\ o = One("{") \o t \o One("}")
  BY ObjectLeads
<1>2. t \in Seq(Json)
  BY <1>1, PassesJson
<1>3. One("{") \in Seq(Json) /\ One("}") \in Seq(Json) /\ StartsAs(One("{"), "{")
  BY DEF One, Json, StartsAs
<1>4. One("{") \o t \in Seq(Json) /\ StartsAs(One("{") \o t, "{")
  BY <1>2, <1>3, TwoTexts, OpensOn
<1> QED
  BY <1>1, <1>3, <1>4, TwoTexts, OpensOn

\* A text in two parts.
LEMMA TailOf ==
  ASSUME NEW S, NEW a \in Seq(S), NEW b \in Seq(S), b # <<>>
  PROVE  SubSeq(a \o b, Len(a) + 1, Len(a \o b)) = b
<1> DEFINE t == a \o b
           m == Len(a)
           n == Len(b)
           tail == SubSeq(t, m + 1, Len(t))
<1>1. t \in Seq(S) /\ Len(t) = m + n /\ m \in Nat /\ n \in Nat \ {0}
      /\ \A i \in 1..n : t[m + i] = b[i]
  OBVIOUS
<1> HIDE DEF t, m, n
<1>2. m + 1 \in 1..Len(t) /\ Len(t) \in 1..Len(t) /\ m + 1 <= Len(t)
      /\ Len(t) - (m + 1) + 1 = n
  BY <1>1
<1>3. \A i \in 1..n : m + 1 + i - 1 = m + i
  BY <1>1
<1>4. Len(tail) = n /\ \A i \in 1..n : tail[i] = t[m + 1 + i - 1]
  BY <1>1, <1>2, PartOf
<1>5. tail \in Seq(S)
  <2>1. \A i \in (m + 1)..Len(t) : t[i] \in S
    BY <1>1
  <2> QED
    BY <2>1, <1>1, SubSeqProperties
<1> HIDE DEF tail
<1> QED
  BY <1>1, <1>3, <1>4, <1>5, SeqEqual DEF tail, t, m, n

LEMMA HeadOf ==
  ASSUME NEW S, NEW a \in Seq(S), NEW b \in Seq(S), a # <<>>
  PROVE  SubSeq(a \o b, 1, Len(a)) = a
<1> DEFINE t == a \o b
           m == Len(a)
           n == Len(b)
           head == SubSeq(t, 1, m)
<1>1. t \in Seq(S) /\ Len(t) = m + n /\ m \in Nat \ {0} /\ n \in Nat
      /\ \A i \in 1..m : t[i] = a[i]
  OBVIOUS
<1> HIDE DEF t, m, n
<1>2. 1 \in 1..Len(t) /\ m \in 1..Len(t) /\ 1 <= m /\ m - 1 + 1 = m
  BY <1>1
<1>3. \A i \in 1..m : 1 + i - 1 = i
  BY <1>1
<1>4. Len(head) = m /\ \A i \in 1..m : head[i] = t[1 + i - 1]
  BY <1>1, <1>2, PartOf
<1>5. head \in Seq(S)
  <2>1. \A i \in 1..m : t[i] \in S
    BY <1>1
  <2> QED
    BY <2>1, <1>1, SubSeqProperties
<1> HIDE DEF head
<1> QED
  BY <1>1, <1>3, <1>4, <1>5, SeqEqual DEF head, t, m

Without(t, c) == \A i \in 1..Len(t) : t[i] # c

FirstPlace(t, c) == SelectInSeq(t, LAMBDA d : d = c)

\* The first of some characters in a text.
LEMMA FirstOf ==
  ASSUME NEW S, NEW a \in Seq(S), NEW b \in Seq(S), NEW c, StartsAs(b, c), Without(a, c)
  PROVE  FirstPlace(a \o b, c) = Len(a) + 1
<1> DEFINE t == a \o b
           m == Len(a)
           n == Len(b)
           I == {i \in 1..Len(t) : t[i] = c}
<1>1. m \in Nat /\ n \in Nat \ {0} /\ Len(t) = m + n
  BY DEF StartsAs
<1>2. /\ \A i \in 1..m : t[i] # c
      /\ t[m + 1] = c
  <2>1. \A i \in 1..m : t[i] = a[i]
    OBVIOUS
  <2>2. 1 \in 1..n /\ \A i \in 1..n : t[m + i] = b[i]
    BY <1>1
  <2> QED
    BY <2>1, <2>2 DEF StartsAs, Without
<1> HIDE DEF t, m, n
<1>3. m + 1 \in I
  <2>1. m + 1 \in 1..Len(t)
    BY <1>1
  <2> QED
    BY <1>2, <2>1
<1>4. ASSUME NEW i \in I PROVE i \in Nat /\ m + 1 <= i
  <2>1. i \in 1..Len(t) /\ i \notin 1..m
    BY <1>2
  <2> QED
    BY <1>1, <2>1
<1>5. FirstPlace(t, c) = Min(I)
  BY <1>3 DEF FirstPlace, SelectInSeq
<1> HIDE DEF I
<1>6. \A i \in I : (\A j \in I : i <= j) => i = m + 1
  <2> SUFFICES ASSUME NEW i \in I, \A j \in I : i <= j PROVE i = m + 1
    OBVIOUS
  <2>1. i <= m + 1 /\ m + 1 <= i /\ i \in Nat
    BY <1>3, <1>4
  <2> QED
    BY <1>1, <2>1
<1>7. \A j \in I : m + 1 <= j
  BY <1>4
<1>8. Min(I) = m + 1
  BY <1>3, <1>6, <1>7 DEF Min
<1> QED
  BY <1>5, <1>8 DEF t, m

LEMMA MoreCharacters ==
  ASSUME NEW R, NEW S, R \subseteq S
  PROVE  Seq(R) \subseteq Seq(S)
  OBVIOUS

\* The object is found where the first brace is.
LEMMA FindsFirst ==
  ASSUME NEW S, Json \subseteq S, NEW before \in Seq(S), NEW after \in Seq(S),
         Without(before, "{"), NEW o \in Objects
  PROVE  ExtractJson(before \o (o \o after)) = o
<1> DEFINE x == o \o after
           raw == before \o x
           start == Len(before) + 1
<1>1. o \in Seq(S)
  <2>1. Seq(Json) \subseteq Seq(S)
    BY MoreCharacters
  <2> QED
    BY <2>1, ObjectOpens
<1>2. x \in Seq(S)
  BY <1>1, TwoTexts
<1>3. StartsAs(o, "{") /\ StartsAs(x, "{")
  BY <1>1, ObjectOpens, OpensOn
<1>4. o # <<>> /\ x # <<>>
  BY <1>3 DEF StartsAs
<1>5. SubSeq(x, 1, Len(o)) = o
  BY <1>1, <1>4, HeadOf
<1> HIDE DEF x
<1>6. SubSeq(raw, start, Len(raw)) = x
  BY <1>2, <1>4, TailOf
<1>7. FirstPlace(raw, "{") = start
  BY <1>2, <1>3, FirstOf
<1>8. start > 0
  BY TwoTexts
<1>9. PICK k \in Nat : Leads(Begin, o, k, Ended(k))
  BY ObjectLeads
<1>10. /\ Begin \in ScanState /\ Scan(Begin, o) = Ended(k) /\ Len(o) = k
  BY <1>9 DEF Leads
<1>11. Ended(k) \in ScanState
  <2>1. 0 \in Nat
    OBVIOUS
  <2> QED
    BY <2>1, States
<1>12. Ended(k).done /\ Ended(k).len = k
  BY DEF Ended
<1>13. Scan(Begin, x) = Ended(k)
  <2>1. Scan(Begin, o \o after) = Scan(Scan(Begin, o), after)
    BY <1>1, <1>10, ScanOn
  <2>2. Scan(Ended(k), after) = Ended(k)
    BY <1>11, <1>12, ScanEnded
  <2> QED
    BY <1>10, <2>1, <2>2 DEF x
<1> HIDE DEF raw, start
<1>14. ExtractJson(raw) = o
  BY <1>5, <1>6, <1>7, <1>8, <1>10, <1>12, <1>13 DEF ExtractJson, FirstPlace, SelectInSeq
<1> QED
  BY <1>14 DEF raw, x

\* extract_json() returns the classifier's object whatever text follows it and
\* whatever text without a brace is before it, for texts in every alphabet and
\* strings of every length (ai.rs:173-201).
THEOREM FindsObject ==
  ASSUME CodecAssumption
  PROVE  TextSpec => []FindsTheObject
<1> DEFINE Chars == Alphabet["json"]
           JsonText == kind = "json" => text \in Seq(Chars)
<1>1. TextInit => JsonText
  BY DEF TextInit
<1>2. JsonText /\ [TextNext]_textVars => JsonText'
  <2> SUFFICES ASSUME JsonText, [TextNext]_textVars, kind' = "json"
               PROVE  text' \in Seq(Chars)
    OBVIOUS
  <2>1. CASE UNCHANGED textVars
    BY <2>1 DEF textVars
  <2>2. CASE TextNext
    <3>1. PICK c \in Chars : text' = Append(text, c)
      BY <2>2 DEF TextNext
    <3>2. text \in Seq(Chars)
      BY <2>2 DEF TextNext
    <3> HIDE DEF Chars
    <3> QED
      BY <3>1, <3>2, AppendProperties
  <2> QED
    BY <2>1, <2>2
<1>3. JsonText => FindsTheObject
  <2> SUFFICES ASSUME kind = "json", text \in Seq(Chars), NEW o \in Objects
               PROVE  /\ ExtractJson(o \o text) = o
                      /\ "{" \notin ToSet(text) => ExtractJson(text \o o) = o
    BY DEF FindsTheObject
  <2> DEFINE S == Chars \cup Json
             none == <<>>
  <2>1. text \in Seq(S) /\ Json \subseteq S
    OBVIOUS
  <2>2. o \in Seq(S)
    <3>1. Seq(Json) \subseteq Seq(S)
      BY <2>1, MoreCharacters
    <3> QED
      BY <3>1, ObjectOpens
  <2> HIDE DEF S
  <2>3. /\ none \in Seq(S) /\ Len(none) = 0
        /\ none \o (o \o text) = o \o text /\ o \o none = o
    BY <2>1, <2>2
  <2>4. Without(none, "{") /\ ("{" \notin ToSet(text) => Without(text, "{"))
    <3>1. \A c : c \notin ToSet(text) => Without(text, c)
      <4>1. DOMAIN text = 1..Len(text)
        BY <2>1
      <4> QED
        BY <4>1 DEF ToSet, Without
    <3>2. 1..Len(none) = {}
      BY <2>3
    <3> QED
      BY <3>1, <3>2 DEF Without
  <2> HIDE DEF none
  <2>5. none \in Seq(S) /\ Without(none, "{")
    BY <2>3, <2>4
  <2>6. \A before \in Seq(S), after \in Seq(S) :
          Without(before, "{") => ExtractJson(before \o (o \o after)) = o
    BY <2>1, FindsFirst
  <2>7. ExtractJson(none \o (o \o text)) = o
    BY <2>1, <2>5, <2>6
  <2>8. ASSUME "{" \notin ToSet(text) PROVE ExtractJson(text \o (o \o none)) = o
    <3>1. Without(text, "{")
      BY <2>4, <2>8
    <3> QED
      BY <2>1, <2>5, <2>6, <3>1
  <2> QED
    BY <2>3, <2>7, <2>8
<1> QED
  BY <1>1, <1>2, <1>3, PTL DEF TextSpec

-----------------------------------------------------------------------------
(* Flattening, one text more. *)

LEMMA FlattenNone == FlattenSeq(<<>>) = <<>>
  BY DEF FlattenSeq

LEMMA FlattenAppend ==
  ASSUME NEW S, NEW seqs \in Seq(Seq(S)), NEW x \in Seq(S)
  PROVE  /\ FlattenSeq(seqs) \in Seq(S)
         /\ FlattenSeq(Append(seqs, x)) = FlattenSeq(seqs) \o x
<1> DEFINE n == Len(seqs)
           more == Append(seqs, x)
<1>1. /\ n \in Nat /\ more \in Seq(Seq(S)) /\ Len(more) = n + 1 /\ more[n + 1] = x
      /\ \A i \in 1..n : more[i] = seqs[i]
  OBVIOUS
<1> HIDE DEF more
<1>2. PICK f \in FlattensOf(seqs, S) : TRUE
  BY FlattenLoop
<1>3. PICK g \in FlattensOf(more, S) : TRUE
  BY <1>1, FlattenLoop
<1>4. /\ f \in [0..n -> Seq(S)] /\ f[0] = <<>> /\ FlattenSeq(seqs) = f[n]
      /\ \A i \in 1..n : f[i] = f[i - 1] \o seqs[i]
  BY <1>2 DEF FlattensOf
<1>5. /\ g[0] = <<>> /\ FlattenSeq(more) = g[n + 1]
      /\ \A i \in 1..(n + 1) : g[i] = g[i - 1] \o more[i]
  BY <1>1, <1>3 DEF FlattensOf
<1> HIDE DEF n
<1> DEFINE T == {i \in 0..n : g[i] = f[i]}
<1>6. 0 \in T
  <2>1. g[0] = f[0]
    BY <1>4, <1>5
  <2>2. 0 \in 0..n
    BY <1>1
  <2> QED
    BY <2>1, <2>2
<1>7. ASSUME NEW i \in 1..n, i - 1 \in T PROVE i \in T
  <2>1. i \in 1..(n + 1) /\ i \in 0..n
    BY <1>1
  <2>2. g[i - 1] = f[i - 1] /\ more[i] = seqs[i]
    BY <1>1, <1>7
  <2>3. g[i] = g[i - 1] \o more[i] /\ f[i] = f[i - 1] \o seqs[i]
    BY <1>4, <1>5, <2>1
  <2> QED
    BY <2>1, <2>2, <2>3
<1> HIDE DEF T
<1>8. \A i \in 0..n : i \in T
  BY <1>1, <1>6, <1>7, UpTo
<1>9. n \in 0..n /\ n + 1 \in 1..(n + 1) /\ n + 1 - 1 = n
  BY <1>1
<1>10. g[n] = f[n]
  BY <1>8, <1>9 DEF T
<1>11. g[n + 1] = g[n] \o x
  <2> DEFINE k == n + 1
  <2>1. k \in 1..k /\ k - 1 = n /\ more[k] = x
    BY <1>1
  <2>2. \A i \in 1..k : g[i] = g[i - 1] \o more[i]
    BY <1>5
  <2> HIDE DEF k
  <2>3. g[k] = g[k - 1] \o more[k]
    BY <2>1, <2>2
  <2>4. g[k] = g[n] \o x
    BY <2>1, <2>3
  <2> QED
    BY <2>4 DEF k
<1>12. f[n] \in Seq(S)
  BY <1>4, <1>9
<1> QED
  BY <1>4, <1>5, <1>10, <1>11, <1>12 DEF more

LEMMA FlattenEmpties ==
  ASSUME NEW seqs, NEW n \in Nat, seqs = [i \in 1..n |-> <<>>]
  PROVE  FlattenSeq(seqs) = <<>>
<1>1. seqs \in Seq(Seq({})) /\ Len(seqs) = n /\ \A i \in 1..n : seqs[i] = <<>>
  OBVIOUS
<1>2. PICK f \in FlattensOf(seqs, {}) : TRUE
  BY <1>1, FlattenLoop
<1>3. /\ f[0] = <<>> /\ FlattenSeq(seqs) = f[n]
      /\ \A i \in 1..n : f[i] = f[i - 1] \o seqs[i]
  BY <1>1, <1>2 DEF FlattensOf
<1> DEFINE T == {i \in 0..n : f[i] = <<>>}
<1>4. 0 \in T
  BY <1>3
<1>5. ASSUME NEW i \in 1..n, i - 1 \in T PROVE i \in T
  <2>1. i \in 0..n /\ f[i - 1] = <<>>
    BY <1>5
  <2>2. f[i] = <<>> \o <<>>
    BY <1>1, <1>3, <2>1
  <2>3. <<>> \o <<>> = <<>>
    OBVIOUS
  <2> QED
    BY <2>1, <2>2, <2>3
<1> HIDE DEF T
<1>6. \A i \in 0..n : i \in T
  BY <1>4, <1>5, UpTo
<1> QED
  BY <1>3, <1>6 DEF T

-----------------------------------------------------------------------------
(* The readers. *)

EventOf(S) == [cdata: BOOLEAN, text: Seq(S)]

\* Where an XML reader may be.
ReadState(S) == [inside: BOOLEAN, text: Seq(S), events: Seq(EventOf(S))]

LEMMA PiecesAppend ==
  ASSUME NEW S, NEW events \in Seq(EventOf(S)), NEW e \in EventOf(S)
  PROVE  /\ Pieces(events) \in Seq(S)
         /\ Pieces(Append(events, e)) = Pieces(events) \o e.text
<1> DEFINE seqs == [i \in DOMAIN events |-> events[i].text]
           more == [i \in DOMAIN Append(events, e) |-> Append(events, e)[i].text]
           n == Len(events)
<1>1. e.text \in Seq(S) /\ \A f \in EventOf(S) : f.text \in Seq(S)
  BY DEF EventOf
<1>2. n \in Nat /\ DOMAIN events = 1..n /\ \A i \in 1..n : events[i] \in EventOf(S)
  OBVIOUS
<1>3. DOMAIN Append(events, e) = 1..(n + 1) /\ Append(events, e)[n + 1] = e
      /\ \A i \in 1..n : Append(events, e)[i] = events[i]
  BY <1>2
<1>4. seqs \in Seq(Seq(S)) /\ Len(seqs) = n
  <2>1. seqs \in [1..n -> Seq(S)]
    BY <1>1, <1>2
  <2> HIDE DEF seqs, n
  <2> QED
    BY <1>2, <2>1
<1>5. more = Append(seqs, e.text)
  <2> DEFINE r == Append(seqs, e.text)
  <2>1. r \in Seq(Seq(S)) /\ Len(r) = n + 1 /\ r[n + 1] = e.text
        /\ \A i \in 1..n : r[i] = seqs[i]
    <3> HIDE DEF seqs, n
    <3> QED
      BY <1>1, <1>4
  <2>2. DOMAIN r = 1..(n + 1) /\ DOMAIN more = 1..(n + 1)
    BY <1>3, <2>1
  <2>3. \A i \in 1..(n + 1) : more[i] = r[i]
    <3>1. \A i \in 1..n : more[i] = events[i].text /\ r[i] = events[i].text
      BY <1>2, <1>3, <2>1
    <3>2. more[n + 1] = e.text
      BY <1>2, <1>3
    <3>3. \A i \in 1..(n + 1) : i \in 1..n \/ i = n + 1
      BY <1>2
    <3> QED
      BY <2>1, <3>1, <3>2, <3>3
  <2>4. r = [i \in 1..(n + 1) |-> r[i]] /\ more = [i \in 1..(n + 1) |-> more[i]]
    BY <1>3, <2>1, <2>2
  <2> HIDE DEF r, more
  <2> QED
    BY <2>3, <2>4 DEF r
<1> HIDE DEF seqs, more
<1> QED
  BY <1>1, <1>4, <1>5, FlattenAppend DEF Pieces, seqs, more

LEMMA ReadType ==
  ASSUME NEW S, NEW r \in ReadState(S), NEW c \in S
  PROVE  Read(r, c) \in ReadState(S)
<1>1. /\ r.text \in Seq(S) /\ r.events \in Seq(EventOf(S)) /\ r.inside \in BOOLEAN
  BY DEF ReadState
<1>2. <<>> \in Seq(S) /\ <<c>> \in Seq(S) /\ Append(r.text, c) \in Seq(S)
  BY <1>1
<1>3. SubSeq(r.text, 1, Len(r.text) - 2) \in Seq(S)
  <2>1. Len(r.text) \in Nat /\ \A i \in 1..(Len(r.text) - 2) : r.text[i] \in S
    BY <1>1
  <2> QED
    BY <1>1, <2>1, SubSeqProperties
<1>4. \A x \in Seq(S), b \in BOOLEAN :
        Append(r.events, [cdata |-> b, text |-> x]) \in Seq(EventOf(S))
  <2> SUFFICES ASSUME NEW x \in Seq(S), NEW b \in BOOLEAN
               PROVE  Append(r.events, [cdata |-> b, text |-> x]) \in Seq(EventOf(S))
    OBVIOUS
  <2>1. [cdata |-> b, text |-> x] \in EventOf(S)
    BY DEF EventOf
  <2> QED
    BY <1>1, <2>1, AppendProperties
<1>5. \A b \in BOOLEAN, x \in Seq(S), v \in Seq(EventOf(S)) :
        /\ [r EXCEPT !.inside = b, !.text = x] \in ReadState(S)
        /\ [r EXCEPT !.inside = b, !.events = v] \in ReadState(S)
        /\ [r EXCEPT !.events = v] \in ReadState(S)
        /\ [r EXCEPT !.text = x] \in ReadState(S)
  BY DEF ReadState
<1> QED
  BY <1>2, <1>3, <1>4, <1>5 DEF Read

\* A reader goes through the characters one by one.
ReadsOf(r, chars, S) ==
  {g \in [0..Len(chars) -> ReadState(S)] :
     /\ g[0] = r
     /\ \A i \in 1..Len(chars) : g[i] = Read(g[i - 1], chars[i])
     /\ ReadOn(r, chars) = g[Len(chars)]}

LEMMA ReadLoop ==
  ASSUME NEW S, NEW r \in ReadState(S), NEW chars \in Seq(S)
  PROVE  ReadsOf(r, chars, S) # {}
<1> DEFINE n == Len(chars)
           X == ReadState(S)
           next(i, x) == Read(x, chars[i])
           G == [i \in 1..n |-> [x \in X |-> next(i, x)]]
           Loop(g) == g = [i \in 0..n |-> IF i = 0 THEN r ELSE next(i, g[i - 1])]
           at == CHOOSE h : Loop(h)
<1>1. n \in Nat /\ \A i \in 1..n : chars[i] \in S
  OBVIOUS
<1>2. \A i \in 1..n, x \in X : next(i, x) \in X
  BY <1>1, ReadType
<1>3. ReadOn(r, chars) = at[n]
  BY DEF ReadOn
<1> HIDE DEF n, next, X
<1>4. PICK g \in Walks(n, X, r, G) : TRUE
  <2>1. G \in [1..n -> [X -> X]]
    BY <1>2
  <2>2. r \in X
    BY DEF X
  <2> HIDE DEF G
  <2> QED
    BY <1>1, <2>1, <2>2, StepByStep
<1>5. g \in [0..n -> X] /\ g[0] = r /\ \A i \in 1..n : g[i] = G[i][g[i - 1]]
  BY <1>4 DEF Walks
<1>6. \A i \in 1..n : i - 1 \in 0..n /\ i \in 0..n /\ i # 0
  BY <1>1
<1>7. \A i \in 1..n : g[i] = next(i, g[i - 1])
  <2> SUFFICES ASSUME NEW i \in 1..n PROVE g[i] = next(i, g[i - 1])
    OBVIOUS
  <2>1. g[i - 1] \in X
    BY <1>5, <1>6
  <2> QED
    BY <1>5, <2>1
<1>8. Loop(g)
  <2>1. \A i \in 0..n : i # 0 => i \in 1..n
    BY <1>1
  <2>2. \A i \in 0..n : g[i] = IF i = 0 THEN r ELSE next(i, g[i - 1])
    BY <1>5, <1>7, <2>1
  <2> QED
    BY <1>5, <2>2
<1>9. Loop(at)
  <2> HIDE DEF Loop
  <2> QED
    BY <1>8
<1> HIDE DEF at
<1>10. at[0] = r /\ \A i \in 1..n : at[i] = next(i, at[i - 1])
  BY <1>1, <1>6, <1>9
<1>11. \A i \in 0..n : at[i] \in X
  <2> DEFINE T == {i \in 0..n : at[i] \in X}
  <2>1. 0 \in T
    BY <1>1, <1>10 DEF X
  <2>2. \A i \in 1..n : i - 1 \in T => i \in T
    BY <1>2, <1>6, <1>10
  <2> HIDE DEF T
  <2>3. \A i \in 0..n : i \in T
    BY <1>1, <2>1, <2>2, UpTo
  <2> QED
    BY <2>3 DEF T
<1>12. at \in [0..n -> X]
  <2>1. at = [i \in 0..n |-> at[i]]
    BY <1>9
  <2> QED
    BY <1>11, <2>1
<1> QED
  BY <1>3, <1>10, <1>12 DEF n, next, X, ReadsOf

\* What follows is read from where the reader is then.
LEMMA ReadParts ==
  ASSUME NEW S, NEW r \in ReadState(S), NEW a \in Seq(S), NEW b \in Seq(S)
  PROVE  /\ ReadOn(r, a) \in ReadState(S)
         /\ ReadOn(r, a \o b) = ReadOn(ReadOn(r, a), b)
<1> DEFINE c == a \o b
           m == Len(a)
           n == Len(b)
           mid == ReadOn(r, a)
<1>1. /\ c \in Seq(S) /\ m \in Nat /\ n \in Nat /\ Len(c) = m + n
      /\ \A i \in 1..m : c[i] = a[i]
      /\ \A i \in 1..n : c[m + i] = b[i]
  OBVIOUS
<1>2. PICK f \in ReadsOf(r, a, S) : TRUE
  BY ReadLoop
<1>3. f[0] = r /\ (\A i \in 1..m : f[i] = Read(f[i - 1], a[i])) /\ mid = f[m]
      /\ f \in [0..m -> ReadState(S)]
  BY <1>2 DEF ReadsOf
<1>4. mid \in ReadState(S)
  <2>1. m \in 0..m
    BY <1>1
  <2> HIDE DEF mid, m
  <2> QED
    BY <1>3, <2>1
<1> HIDE DEF c, mid
<1>5. PICK g \in ReadsOf(r, c, S) : TRUE
  BY <1>1, ReadLoop
<1>6. PICK h \in ReadsOf(mid, b, S) : TRUE
  BY <1>4, ReadLoop
<1>7. /\ g[0] = r /\ \A i \in 1..(m + n) : g[i] = Read(g[i - 1], c[i])
      /\ ReadOn(r, c) = g[m + n]
  BY <1>1, <1>5 DEF ReadsOf
<1>8. h[0] = mid /\ (\A i \in 1..n : h[i] = Read(h[i - 1], b[i])) /\ ReadOn(mid, b) = h[n]
  BY <1>6 DEF ReadsOf
<1> HIDE DEF m, n
<1>9. g[m] = mid
  <2> DEFINE T == {i \in 0..m : g[i] = f[i]}
  <2>1. 0 \in T
    BY <1>1, <1>3, <1>7
  <2>2. ASSUME NEW i \in 1..m, i - 1 \in T PROVE i \in T
    <3>1. i \in 1..(m + n) /\ i \in 0..m
      BY <1>1
    <3> QED
      BY <1>1, <1>3, <1>7, <2>2, <3>1
  <2> HIDE DEF T
  <2>3. \A i \in 0..m : i \in T
    BY <1>1, <2>1, <2>2, UpTo
  <2>4. m \in T
    BY <1>1, <2>3
  <2> QED
    BY <1>3, <2>4 DEF T
<1>10. g[m + n] = h[n]
  <2> DEFINE T == {i \in 0..n : g[m + i] = h[i]}
  <2>1. 0 \in T
    BY <1>1, <1>8, <1>9
  <2>2. ASSUME NEW i \in 1..n, i - 1 \in T PROVE i \in T
    <3>1. m + i \in 1..(m + n) /\ i \in 0..n /\ m + i - 1 = m + (i - 1)
      BY <1>1
    <3> QED
      BY <1>1, <1>7, <1>8, <2>2, <3>1
  <2> HIDE DEF T
  <2>3. \A i \in 0..n : i \in T
    BY <1>1, <2>1, <2>2, UpTo
  <2>4. n \in T
    BY <1>1, <2>3
  <2> QED
    BY <2>4 DEF T
<1> QED
  BY <1>4, <1>7, <1>8, <1>10 DEF c, mid

LEMMA ReadOne ==
  ASSUME NEW S, NEW r \in ReadState(S), NEW c \in S
  PROVE  ReadOn(r, <<c>>) = Read(r, c)
<1>1. <<c>> \in Seq(S) /\ Len(<<c>>) = 1 /\ <<c>>[1] = c
  OBVIOUS
<1>2. PICK g \in ReadsOf(r, <<c>>, S) : TRUE
  BY <1>1, ReadLoop
<1>3. 1 \in 1..1 /\ g[0] = r /\ ReadOn(r, <<c>>) = g[1] /\ g[1] = Read(g[0], <<c>>[1])
  BY <1>1, <1>2 DEF ReadsOf
<1> QED
  BY <1>1, <1>3

\* A reader gets through x from r to t.
Reads(S, r, x, t) == r \in ReadState(S) /\ x \in Seq(S) /\ ReadOn(r, x) = t

LEMMA ReadsOn ==
  ASSUME NEW S, NEW r, NEW t, NEW u, NEW a, NEW b, Reads(S, r, a, t), Reads(S, t, b, u)
  PROVE  Reads(S, r, a \o b, u)
<1>1. /\ r \in ReadState(S) /\ a \in Seq(S) /\ b \in Seq(S)
      /\ ReadOn(r, a) = t /\ ReadOn(t, b) = u
  BY DEF Reads
<1>2. a \o b \in Seq(S)
  BY <1>1
<1>3. ReadOn(r, a \o b) = u
  BY <1>1, ReadParts
<1> QED
  BY <1>1, <1>2, <1>3 DEF Reads

LEMMA ReadsOne ==
  ASSUME NEW S, NEW r \in ReadState(S), NEW c \in S
  PROVE  Reads(S, r, One(c), Read(r, c))
<1>1. <<c>> \in Seq(S)
  OBVIOUS
<1> QED
  BY <1>1, ReadOne DEF Reads, One

-----------------------------------------------------------------------------
\* A mark ends at a place of a text.
Mark(k) == CloseMark[k]

LEMMA MarkIs ==
  /\ CloseMark = <<Mark(1), Mark(2), Mark(3)>>
  /\ Mark(1) = "]" /\ Mark(2) = "]" /\ Mark(3) = ">"
  BY DEF CloseMark, Mark

LEMMA ClosesWhere ==
  ASSUME NEW S, NEW t \in Seq(S), NEW i \in 1..Len(t)
  PROVE  ClosesAt(t, i) <=>
           i > 2 /\ t[i - 2] = Mark(1) /\ t[i - 1] = Mark(2) /\ t[i] = Mark(3)
<1>1. CASE i > 2
  <2> DEFINE u == SubSeq(t, i - 2, i)
             v == <<Mark(1), Mark(2), Mark(3)>>
  <2>1. i - 2 \in 1..Len(t) /\ i \in 1..Len(t) /\ i - 2 <= i /\ i - (i - 2) + 1 = 3
    BY <1>1
  <2>2. Len(u) = 3 /\ \A n \in 1..3 : u[n] = t[i - 2 + n - 1]
    BY <2>1, PartOf
  <2>3. 1 \in 1..3 /\ 2 \in 1..3 /\ 3 \in 1..3
        /\ i - 2 + 1 - 1 = i - 2 /\ i - 2 + 2 - 1 = i - 1 /\ i - 2 + 3 - 1 = i
    BY <2>1
  <2>4. u[1] = t[i - 2] /\ u[2] = t[i - 1] /\ u[3] = t[i]
    BY <2>2, <2>3
  <2>5. u \in Seq(S)
    <3>1. \A n \in (i - 2)..i : t[n] \in S
      BY <2>1
    <3> QED
      BY <2>1, <3>1, SubSeqProperties
  <2> HIDE DEF u
  <2>6. u = v <=> u[1] = Mark(1) /\ u[2] = Mark(2) /\ u[3] = Mark(3)
    <3>1. u = v => u[1] = Mark(1) /\ u[2] = Mark(2) /\ u[3] = Mark(3)
      OBVIOUS
    <3>2. ASSUME u[1] = Mark(1), u[2] = Mark(2), u[3] = Mark(3) PROVE u = v
      <4>1. u = <<u[1], u[2], u[3]>>
        BY <2>2, <2>5
      <4> QED
        BY <3>2, <4>1
    <3> QED
      BY <3>1, <3>2
  <2> QED
    BY <1>1, <2>4, <2>6, MarkIs DEF ClosesAt, u
<1>2. CASE ~(i > 2)
  BY <1>2 DEF ClosesAt
<1> QED
  BY <1>1, <1>2

\* The next character of a text that a section has the end of.
LEMMA AppendCloses ==
  ASSUME NEW S, NEW x \in Seq(S), NEW c \in S
  PROVE  ClosesAt(Append(x, c), Len(x) + 1) <=>
           /\ Len(x) > 1 /\ c = Mark(3)
           /\ x[Len(x) - 1] = Mark(1) /\ x[Len(x)] = Mark(2)
<1> DEFINE y == Append(x, c)
           n == Len(x)
<1>1. y \in Seq(S) /\ Len(y) = n + 1 /\ y[n + 1] = c /\ n \in Nat
      /\ \A i \in 1..n : y[i] = x[i]
  OBVIOUS
<1> HIDE DEF y, n
<1>2. n + 1 \in 1..Len(y) /\ n + 1 - 2 = n - 1 /\ n + 1 - 1 = n
  BY <1>1
<1>3. ClosesAt(y, n + 1) <=>
        n + 1 > 2 /\ y[n - 1] = Mark(1) /\ y[n] = Mark(2) /\ y[n + 1] = Mark(3)
  <2>1. ClosesAt(y, n + 1) <=>
          n + 1 > 2 /\ y[n + 1 - 2] = Mark(1) /\ y[n + 1 - 1] = Mark(2) /\ y[n + 1] = Mark(3)
    BY <1>1, <1>2, ClosesWhere
  <2> QED
    BY <1>2, <2>1
<1>4. n > 1 => n - 1 \in 1..n /\ n \in 1..n
  BY <1>1
<1>5. n + 1 > 2 <=> n > 1
  BY <1>1
<1>6. n > 1 => y[n - 1] = x[n - 1] /\ y[n] = x[n]
  BY <1>1, <1>4
<1>7. ClosesAt(y, n + 1) <=>
        n > 1 /\ c = Mark(3) /\ x[n - 1] = Mark(1) /\ x[n] = Mark(2)
  BY <1>1, <1>3, <1>5, <1>6
<1> QED
  BY <1>7 DEF y, n

-----------------------------------------------------------------------------
\* A reader in a section.
In(x, v) == [inside |-> TRUE, text |-> x, events |-> v]

LEMMA InType ==
  ASSUME NEW S, NEW x \in Seq(S), NEW v \in Seq(EventOf(S))
  PROVE  In(x, v) \in ReadState(S)
  BY DEF In, ReadState

LEMMA ReadInside ==
  ASSUME NEW S, NEW x \in Seq(S), NEW v \in Seq(EventOf(S)), NEW c \in S,
         ~ClosesAt(Append(x, c), Len(x) + 1)
  PROVE  Read(In(x, v), c) = In(Append(x, c), v)
  BY DEF Read, In

\* The event of a section.
Section(x) == [cdata |-> TRUE, text |-> x]

Out(r, v) == r.inside = FALSE /\ r.events = v

LEMMA ReadMark ==
  ASSUME NEW S, Mark(1) \in S, Mark(2) \in S, Mark(3) \in S,
         NEW x \in Seq(S), NEW v \in Seq(EventOf(S))
  PROVE  \E r \in ReadState(S) :
           Reads(S, In(x, v), CloseMark, r) /\ Out(r, Append(v, Section(x)))
<1> DEFINE b == Mark(1)
           x1 == Append(x, Mark(1))
           x2 == Append(x1, Mark(2))
           n == Len(x)
<1>1. x1 \in Seq(S) /\ x2 \in Seq(S) /\ Len(x1) = n + 1 /\ Len(x2) = n + 2 /\ n \in Nat
      /\ x1[n + 1] = Mark(1) /\ x2[n + 1] = Mark(1) /\ x2[n + 2] = Mark(2)
      /\ \A i \in 1..n : x2[i] = x[i]
  OBVIOUS
<1>2. Mark(1) # Mark(3) /\ Mark(2) # Mark(3)
  BY MarkIs
<1>3. Read(In(x, v), Mark(1)) = In(x1, v)
  <2>1. ~ClosesAt(Append(x, Mark(1)), Len(x) + 1)
    BY <1>2, AppendCloses
  <2> QED
    BY <2>1, ReadInside
<1>4. Read(In(x1, v), Mark(2)) = In(x2, v)
  <2>1. ~ClosesAt(Append(x1, Mark(2)), Len(x1) + 1)
    BY <1>1, <1>2, AppendCloses
  <2> HIDE DEF x1
  <2> QED
    BY <1>1, <2>1, ReadInside
<1> HIDE DEF x1, x2, n
<1>5. ClosesAt(Append(x2, Mark(3)), Len(x2) + 1)
  <2>1. Len(x2) > 1 /\ Len(x2) - 1 = n + 1 /\ Len(x2) = n + 2
    BY <1>1
  <2>2. x2[Len(x2) - 1] = Mark(1) /\ x2[Len(x2)] = Mark(2)
    BY <1>1, <2>1
  <2> QED
    BY <1>1, <2>1, <2>2, AppendCloses
<1>6. SubSeq(x2, 1, Len(x2) - 2) = x
  <2>1. Len(x2) - 2 = n /\ Len(x) = n /\ n <= Len(x2)
    BY <1>1 DEF n
  <2>2. \A i \in 1..n : x2[i] \in S
    BY <1>1
  <2>3. /\ SubSeq(x2, 1, n) \in Seq(S)
        /\ Len(SubSeq(x2, 1, n)) = n /\ \A i \in 1..n : SubSeq(x2, 1, n)[i] = x2[i]
    BY <1>1, <2>1
  <2> QED
    BY <1>1, <2>1, <2>3, SeqEqual
<1>7. Out(Read(In(x2, v), Mark(3)), Append(v, Section(x)))
  BY <1>5, <1>6 DEF Read, In, Out, Section
<1>8. /\ In(x, v) \in ReadState(S) /\ In(x1, v) \in ReadState(S)
      /\ In(x2, v) \in ReadState(S)
  BY <1>1, InType
<1>9. CloseMark = (One(Mark(1)) \o One(Mark(2))) \o One(Mark(3))
  BY MarkIs DEF One
<1>10. Reads(S, In(x, v), One(Mark(1)), In(x1, v))
  BY <1>3, <1>8, ReadsOne
<1>11. Reads(S, In(x1, v), One(Mark(2)), In(x2, v))
  BY <1>4, <1>8, ReadsOne
<1>12. Reads(S, In(x2, v), One(Mark(3)), Read(In(x2, v), Mark(3)))
  BY <1>8, ReadsOne
<1>13. Reads(S, In(x, v), One(Mark(1)) \o One(Mark(2)), In(x2, v))
  BY <1>10, <1>11, ReadsOn
<1>14. Reads(S, In(x, v), (One(Mark(1)) \o One(Mark(2))) \o One(Mark(3)),
             Read(In(x2, v), Mark(3)))
  BY <1>12, <1>13, ReadsOn
<1>15. Read(In(x2, v), Mark(3)) \in ReadState(S)
  BY <1>8, ReadType
<1> QED
  BY <1>7, <1>9, <1>14, <1>15

-----------------------------------------------------------------------------
\* A text up to i, in what was said before and what a section has.
Split(t, i, p, x) ==
  /\ Len(p) + Len(x) = i
  /\ \A k \in 1..Len(p) : p[k] = t[k]
  /\ \A k \in 1..Len(x) : x[k] = t[Len(p) + k]

LEMMA SplitNext ==
  ASSUME NEW S, NEW t \in Seq(S), NEW p \in Seq(S), NEW x \in Seq(S), NEW i \in Nat,
         i < Len(t), Split(t, i, p, x)
  PROVE  Split(t, i + 1, p, Append(x, t[i + 1]))
<1> DEFINE c == t[i + 1]
           y == Append(x, c)
           m == Len(p)
           n == Len(x)
<1>1. c \in S
  OBVIOUS
<1>2. Len(y) = n + 1 /\ y[n + 1] = c /\ (\A k \in 1..n : y[k] = x[k]) /\ n \in Nat /\ m \in Nat
  BY <1>1
<1>3. m + n = i /\ (\A k \in 1..m : p[k] = t[k]) /\ \A k \in 1..n : x[k] = t[m + k]
  BY DEF Split
<1>4. t[m + (n + 1)] = c
  <2>1. m + (n + 1) = i + 1
    BY <1>2, <1>3
  <2> QED
    BY <2>1
<1> HIDE DEF c, y, m, n
<1>5. \A k \in 1..(n + 1) : k \in 1..n \/ k = n + 1
  BY <1>2
<1>6. \A k \in 1..(n + 1) : y[k] = t[m + k]
  BY <1>2, <1>3, <1>4, <1>5
<1>7. m + (n + 1) = i + 1
  BY <1>2, <1>3
<1> QED
  BY <1>2, <1>3, <1>6, <1>7 DEF Split, m, n, y, c

LEMMA SplitCut ==
  ASSUME NEW S, NEW t \in Seq(S), NEW p \in Seq(S), NEW x \in Seq(S), NEW i \in Nat,
         i < Len(t), Split(t, i, p, x)
  PROVE  Split(t, i + 1, p \o x, One(t[i + 1]))
<1> DEFINE c == t[i + 1]
           y == One(c)
           q == p \o x
           m == Len(p)
           n == Len(x)
<1>1. Len(y) = 1 /\ y[1] = c
  BY DEF One
<1>2. /\ m \in Nat /\ n \in Nat /\ Len(q) = m + n
      /\ \A k \in 1..m : q[k] = p[k]
      /\ \A k \in 1..n : q[m + k] = x[k]
  OBVIOUS
<1>3. m + n = i /\ (\A k \in 1..m : p[k] = t[k]) /\ \A k \in 1..n : x[k] = t[m + k]
  BY DEF Split
<1> HIDE DEF y, q, m, n
<1>4. ASSUME NEW k \in 1..Len(q) PROVE q[k] = t[k]
  <2>1. CASE k \in 1..m
    BY <1>2, <1>3, <2>1
  <2>2. CASE k \notin 1..m
    <3> DEFINE l == k - m
    <3>1. l \in 1..n /\ k = m + l
      BY <1>2, <2>2
    <3> HIDE DEF l
    <3> QED
      BY <1>2, <1>3, <3>1
  <2> QED
    BY <2>1, <2>2
<1>5. Len(q) + Len(y) = i + 1
  BY <1>1, <1>2, <1>3
<1>6. \A k \in 1..Len(y) : y[k] = t[Len(q) + k]
  <2>1. \A k \in 1..1 : k = 1
    OBVIOUS
  <2>2. Len(q) + 1 = i + 1
    BY <1>2, <1>3
  <2> QED
    BY <1>1, <2>1, <2>2
<1> QED
  BY <1>4, <1>5, <1>6 DEF Split, q, y

LEMMA SplitCloses ==
  ASSUME NEW S, NEW t \in Seq(S), NEW p \in Seq(S), NEW x \in Seq(S), NEW i \in Nat,
         i < Len(t), Split(t, i, p, x), ClosesAt(Append(x, t[i + 1]), Len(x) + 1)
  PROVE  ClosesAt(t, i + 1)
<1> DEFINE c == t[i + 1]
           m == Len(p)
           n == Len(x)
<1>1. c \in S /\ m \in Nat /\ n \in Nat
  OBVIOUS
<1>2. n > 1 /\ c = Mark(3) /\ x[n - 1] = Mark(1) /\ x[n] = Mark(2)
  BY <1>1, AppendCloses
<1>3. m + n = i /\ \A k \in 1..n : x[k] = t[m + k]
  BY DEF Split
<1>4. i + 1 \in 1..Len(t)
  OBVIOUS
<1> HIDE DEF c, m, n
<1>5. n - 1 \in 1..n /\ n \in 1..n /\ m + (n - 1) = i + 1 - 2 /\ m + n = i + 1 - 1 /\ i + 1 > 2
  BY <1>1, <1>2, <1>3
<1>6. t[i + 1 - 2] = Mark(1) /\ t[i + 1 - 1] = Mark(2)
  BY <1>2, <1>3, <1>5
<1> QED
  BY <1>2, <1>4, <1>5, <1>6, ClosesWhere DEF c

LEMMA SplitEnd ==
  ASSUME NEW S, NEW t \in Seq(S), NEW p \in Seq(S), NEW x \in Seq(S), Split(t, Len(t), p, x)
  PROVE  p \o x = t
<1> DEFINE q == p \o x
           m == Len(p)
           n == Len(x)
<1>1. /\ m \in Nat /\ n \in Nat /\ Len(q) = m + n /\ q \in Seq(S)
      /\ \A k \in 1..m : q[k] = p[k]
      /\ \A k \in 1..n : q[m + k] = x[k]
  OBVIOUS
<1>2. m + n = Len(t) /\ (\A k \in 1..m : p[k] = t[k]) /\ \A k \in 1..n : x[k] = t[m + k]
  BY DEF Split
<1> HIDE DEF q, m, n
<1>3. ASSUME NEW k \in 1..Len(q) PROVE q[k] = t[k]
  <2>1. CASE k \in 1..m
    BY <1>1, <1>2, <2>1
  <2>2. CASE k \notin 1..m
    <3> DEFINE l == k - m
    <3>1. l \in 1..n /\ k = m + l
      BY <1>1, <2>2
    <3> HIDE DEF l
    <3> QED
      BY <1>1, <1>2, <3>1
  <2> QED
    BY <2>1, <2>2
<1>4. q = t
  BY <1>1, <1>2, <1>3, SeqEqual
<1> QED
  BY <1>4 DEF q

-----------------------------------------------------------------------------
CharOf(t, i) ==
  IF ClosesAt(t, i) THEN CloseMark \o <<OpenMark, t[i]>> ELSE <<t[i]>>

\* The characters of marks.
HasMarks(S) == Mark(1) \in S /\ Mark(2) \in S /\ Mark(3) \in S /\ OpenMark \in S

LEMMA CharType ==
  ASSUME NEW S, HasMarks(S), NEW t \in Seq(S), NEW i \in 1..Len(t)
  PROVE  CharOf(t, i) \in Seq(S)
<1>1. t[i] \in S /\ <<t[i]>> \in Seq(S) /\ Mark(1) \in S /\ Mark(2) \in S /\ Mark(3) \in S
  BY DEF HasMarks
<1>2. CloseMark \in Seq(S)
  BY <1>1, MarkIs
<1>3. <<OpenMark, t[i]>> \in Seq(S)
  BY <1>1 DEF HasMarks
<1> QED
  BY <1>1, <1>2, <1>3, TwoTexts DEF CharOf

\* Reading a text in a section, after i of its characters.
Follows(S, t, i, r) ==
  \E x \in Seq(S), v \in Seq(EventOf(S)) :
    /\ r = In(x, v)
    /\ Split(t, i, Pieces(v), x)
    /\ \A j \in 1..Len(v) : v[j].cdata
    /\ v # <<>> => \E j \in 1..i : ClosesAt(t, j)

LEMMA SectionType ==
  ASSUME NEW S, NEW x \in Seq(S), NEW v \in Seq(EventOf(S))
  PROVE  /\ Append(v, Section(x)) \in Seq(EventOf(S)) /\ Append(v, Section(x)) # <<>>
         /\ Pieces(v) \in Seq(S) /\ Pieces(Append(v, Section(x))) = Pieces(v) \o x
         /\ (\A j \in 1..Len(v) : v[j].cdata) =>
              \A j \in 1..Len(Append(v, Section(x))) : Append(v, Section(x))[j].cdata
<1> DEFINE e == Section(x)
           w == Append(v, e)
<1>1. e \in EventOf(S) /\ e.text = x /\ e.cdata
  BY DEF Section, EventOf
<1> HIDE DEF e
<1>2. /\ w \in Seq(EventOf(S)) /\ Len(w) = Len(v) + 1 /\ w[Len(v) + 1] = e /\ Len(v) \in Nat
      /\ \A j \in 1..Len(v) : w[j] = v[j]
  BY <1>1
<1>3. Pieces(v) \in Seq(S) /\ Pieces(w) = Pieces(v) \o x
  BY <1>1, PiecesAppend
<1>4. w # <<>>
  <2>1. Len(w) # 0
    BY <1>2
  <2> QED
    BY <2>1
<1>5. ASSUME \A j \in 1..Len(v) : v[j].cdata, NEW j \in 1..Len(w) PROVE w[j].cdata
  <2>1. j \in 1..Len(v) \/ j = Len(v) + 1
    BY <1>2
  <2> QED
    BY <1>1, <1>2, <1>5, <2>1
<1> QED
  BY <1>2, <1>3, <1>4, <1>5 DEF e

LEMMA FollowsNext ==
  ASSUME NEW S, HasMarks(S), NEW t \in Seq(S), NEW i \in Nat, i < Len(t),
         NEW r, Follows(S, t, i, r)
  PROVE  \E u : Reads(S, r, CharOf(t, i + 1), u) /\ Follows(S, t, i + 1, u)
<1> DEFINE c == t[i + 1]
<1>1. c \in S /\ i + 1 \in 1..Len(t) /\ i + 1 \in 1..(i + 1) /\ 1..i \subseteq 1..(i + 1)
  OBVIOUS
<1>2. PICK x \in Seq(S), v \in Seq(EventOf(S)) :
        /\ r = In(x, v)
        /\ Split(t, i, Pieces(v), x)
        /\ \A j \in 1..Len(v) : v[j].cdata
        /\ v # <<>> => \E j \in 1..i : ClosesAt(t, j)
  BY DEF Follows
<1>3. Pieces(v) \in Seq(S)
  BY SectionType
<1>4. CASE ~ClosesAt(t, i + 1)
  <2> DEFINE y == Append(x, c)
  <2>1. ~ClosesAt(y, Len(x) + 1)
    BY <1>2, <1>3, <1>4, SplitCloses
  <2>2. Split(t, i + 1, Pieces(v), y)
    BY <1>2, <1>3, SplitNext
  <2>3. y \in Seq(S)
    BY <1>1, AppendProperties
  <2>4. Reads(S, In(x, v), One(c), Read(In(x, v), c))
    BY <1>1, InType, ReadsOne
  <2> HIDE DEF c
  <2>5. Read(In(x, v), c) = In(y, v)
    BY <1>1, <2>1, ReadInside
  <2> HIDE DEF y
  <2>6. CharOf(t, i + 1) = One(c)
    BY <1>4 DEF CharOf, One, c
  <2>7. Follows(S, t, i + 1, In(y, v))
    <3>1. v # <<>> => \E j \in 1..(i + 1) : ClosesAt(t, j)
      BY <1>1, <1>2
    <3> QED
      BY <1>2, <2>2, <2>3, <3>1 DEF Follows
  <2> QED
    BY <1>2, <2>4, <2>5, <2>6, <2>7
<1>5. CASE ClosesAt(t, i + 1)
  <2> DEFINE w == Append(v, Section(x))
             none == <<>>
  <2>1. /\ w \in Seq(EventOf(S)) /\ Pieces(w) = Pieces(v) \o x
        /\ \A j \in 1..Len(w) : w[j].cdata
    BY <1>2, SectionType
  <2>2. Split(t, i + 1, Pieces(w), One(c))
    BY <1>2, <1>3, <2>1, SplitCut
  <2> HIDE DEF w, c
  <2>3. PICK u \in ReadState(S) : Reads(S, In(x, v), CloseMark, u) /\ Out(u, w)
    BY ReadMark DEF HasMarks, w
  <2>4. none \in Seq(S) /\ OpenMark \in S /\ One(c) \in Seq(S)
    BY <1>1 DEF HasMarks, One
  <2>5. Read(u, OpenMark) = In(none, w)
    BY <2>3 DEF Out, Read, ReadState, In
  <2>6. Reads(S, u, One(OpenMark), In(none, w))
    BY <2>4, <2>5, ReadsOne
  <2>7. In(none, w) \in ReadState(S)
    BY <2>1, <2>4, InType
  <2>8. ~ClosesAt(Append(none, c), Len(none) + 1)
    <3>1. ~(Len(none) > 1)
      OBVIOUS
    <3> HIDE DEF none
    <3> QED
      BY <1>1, <2>4, <3>1, AppendCloses
  <2>9. Append(none, c) = One(c)
    BY DEF One
  <2> HIDE DEF none
  <2>10. Read(In(none, w), c) = In(One(c), w)
    BY <1>1, <2>1, <2>4, <2>8, <2>9, ReadInside
  <2>11. Reads(S, In(none, w), One(c), In(One(c), w))
    BY <1>1, <2>7, <2>10, ReadsOne
  <2>12. Reads(S, u, One(OpenMark) \o One(c), In(One(c), w))
    BY <2>6, <2>11, ReadsOn
  <2>13. Reads(S, In(x, v), CloseMark \o (One(OpenMark) \o One(c)), In(One(c), w))
    BY <2>3, <2>12, ReadsOn
  <2>14. CharOf(t, i + 1) = CloseMark \o (One(OpenMark) \o One(c))
    <3>1. <<OpenMark, c>> = One(OpenMark) \o One(c)
      BY DEF One
    <3>2. CharOf(t, i + 1) = CloseMark \o <<OpenMark, c>>
      BY <1>5 DEF CharOf, c
    <3> QED
      BY <3>1, <3>2
  <2>15. Follows(S, t, i + 1, In(One(c), w))
    <3>1. \E j \in 1..(i + 1) : ClosesAt(t, j)
      BY <1>1, <1>5
    <3> QED
      BY <2>1, <2>2, <2>4, <3>1 DEF Follows
  <2> QED
    BY <1>2, <2>13, <2>14, <2>15
<1> QED
  BY <1>4, <1>5

-----------------------------------------------------------------------------
\* What escape_cdata() writes, character by character.
LEMMA EscapeWalk ==
  ASSUME NEW S, HasMarks(S), NEW t \in Seq(S)
  PROVE  \E f \in [0..Len(t) -> Seq(S)] :
           /\ f[0] = <<>>
           /\ \A i \in 1..Len(t) : f[i] = f[i - 1] \o CharOf(t, i)
           /\ Escape(t) = f[Len(t)]
<1> DEFINE seqs == [i \in DOMAIN t |-> CharOf(t, i)]
           n == Len(t)
<1>1. Escape(t) = FlattenSeq(seqs)
  BY DEF Escape, CharOf
<1>2. n \in Nat /\ DOMAIN t = 1..n
  OBVIOUS
<1>3. seqs \in [1..n -> Seq(S)] /\ \A i \in 1..n : seqs[i] = CharOf(t, i)
  BY <1>2, CharType
<1> HIDE DEF seqs
<1>4. seqs \in Seq(Seq(S)) /\ Len(seqs) = n
  <2> HIDE DEF n
  <2> QED
    BY <1>2, <1>3
<1>5. PICK f \in FlattensOf(seqs, S) : TRUE
  BY <1>4, FlattenLoop
<1>6. /\ f \in [0..n -> Seq(S)] /\ f[0] = <<>> /\ FlattenSeq(seqs) = f[n]
      /\ \A i \in 1..n : f[i] = f[i - 1] \o seqs[i]
  BY <1>4, <1>5 DEF FlattensOf
<1>7. \A i \in 1..n : f[i] = f[i - 1] \o CharOf(t, i)
  BY <1>3, <1>6
<1> QED
  BY <1>1, <1>6, <1>7

Begins == [inside |-> FALSE, text |-> <<>>, events |-> <<>>]

\* A body up to the closing mark.
LEMMA BodyFollows ==
  ASSUME NEW S, HasMarks(S), NEW t \in Seq(S)
  PROVE  \E u : Reads(S, Begins, One(OpenMark) \o Escape(t), u) /\ Follows(S, t, Len(t), u)
<1> DEFINE none == <<>>
           n == Len(t)
           start == In(none, none)
           Good(i, e) == \E u : Reads(S, start, e, u) /\ Follows(S, t, i, u)
<1>1. none \in Seq(S) /\ none \in Seq(EventOf(S)) /\ n \in Nat /\ Len(none) = 0
  OBVIOUS
<1>2. start \in ReadState(S)
  BY <1>1, InType
<1>3. PICK f \in [0..n -> Seq(S)] :
        /\ f[0] = none
        /\ \A i \in 1..n : f[i] = f[i - 1] \o CharOf(t, i)
        /\ Escape(t) = f[n]
  BY EscapeWalk
<1> DEFINE T == {i \in 0..n : Good(i, f[i])}
<1>4. 0 \in T
  <2>1. Pieces(none) = none
    <3>1. [i \in DOMAIN none |-> none[i].text] = none
      OBVIOUS
    <3> QED
      BY <3>1, FlattenNone DEF Pieces
  <2>2. Split(t, 0, Pieces(none), none)
    <3> HIDE DEF none
    <3> QED
      BY <1>1, <2>1 DEF Split
  <2>3. \A j \in 1..Len(none) : none[j].cdata
    <3> HIDE DEF none
    <3>1. 1..Len(none) = {}
      BY <1>1
    <3> QED
      BY <3>1
  <2>4. none # <<>> => \E j \in 1..0 : ClosesAt(t, j)
    OBVIOUS
  <2> HIDE DEF none
  <2>5. Follows(S, t, 0, start)
    BY <1>1, <2>2, <2>3, <2>4 DEF Follows
  <2>6. ReadOn(start, none) = start
    <3>1. PICK g \in ReadsOf(start, none, S) : TRUE
      BY <1>1, <1>2, ReadLoop
    <3> HIDE DEF start
    <3> QED
      BY <1>1, <3>1 DEF ReadsOf
  <2>7. Reads(S, start, none, start)
    BY <1>1, <1>2, <2>6 DEF Reads
  <2>8. 0 \in 0..n
    BY <1>1
  <2> HIDE DEF start, n
  <2> QED
    BY <1>3, <2>5, <2>7, <2>8
<1>5. ASSUME NEW i \in 1..n, i - 1 \in T PROVE i \in T
  <2> DEFINE k == i - 1
  <2>1. k \in Nat /\ k < Len(t) /\ k + 1 = i /\ i \in 0..n /\ k \in T
    BY <1>1, <1>5
  <2> HIDE DEF k, start, n
  <2>2. PICK r : Reads(S, start, f[k], r) /\ Follows(S, t, k, r)
    BY <2>1
  <2>3. PICK u : Reads(S, r, CharOf(t, k + 1), u) /\ Follows(S, t, k + 1, u)
    BY <2>1, <2>2, FollowsNext
  <2>4. Reads(S, start, f[k] \o CharOf(t, k + 1), u)
    BY <2>2, <2>3, ReadsOn
  <2>5. f[i] = f[k] \o CharOf(t, k + 1)
    BY <1>3, <2>1 DEF k
  <2> QED
    BY <2>1, <2>3, <2>4, <2>5
<1> HIDE DEF T, Good
<1>6. \A i \in 0..n : i \in T
  BY <1>1, <1>4, <1>5, UpTo
<1>7. n \in T
  BY <1>1, <1>6
<1>8. PICK u : Reads(S, start, Escape(t), u) /\ Follows(S, t, n, u)
  BY <1>3, <1>7 DEF T, Good
<1>9. Reads(S, Begins, One(OpenMark), start)
  <2>1. Begins \in ReadState(S)
    BY <1>1 DEF Begins, ReadState
  <2>2. Read(Begins, OpenMark) = start
    BY DEF Begins, Read, In
  <2> HIDE DEF start
  <2> QED
    BY <2>1, <2>2, ReadsOne DEF HasMarks
<1> QED
  BY <1>8, <1>9, ReadsOn

\* The sections that a reader finds say the text, and are one when no mark is
\* in it.
SectionsSay(S, t, v) ==
  /\ v \in Seq(EventOf(S)) /\ v # <<>>
  /\ \A j \in 1..Len(v) : v[j].cdata
  /\ Pieces(v) = t
  /\ (\A i \in 1..Len(t) : ~ClosesAt(t, i)) => v = One(Section(t))

LEMMA SectionsOf ==
  ASSUME NEW S, HasMarks(S), NEW t \in Seq(S)
  PROVE  \E v : Out(Sections(Cdata(t)), v) /\ SectionsSay(S, t, v)
<1>1. PICK u : Reads(S, Begins, One(OpenMark) \o Escape(t), u) /\ Follows(S, t, Len(t), u)
  BY BodyFollows
<1>2. PICK x \in Seq(S), v \in Seq(EventOf(S)) :
        /\ u = In(x, v)
        /\ Split(t, Len(t), Pieces(v), x)
        /\ \A j \in 1..Len(v) : v[j].cdata
        /\ v # <<>> => \E j \in 1..Len(t) : ClosesAt(t, j)
  BY <1>1 DEF Follows
<1> DEFINE w == Append(v, Section(x))
<1>3. PICK r \in ReadState(S) : Reads(S, u, CloseMark, r) /\ Out(r, w)
  BY <1>2, ReadMark DEF HasMarks
<1>4. Reads(S, Begins, (One(OpenMark) \o Escape(t)) \o CloseMark, r)
  BY <1>1, <1>3, ReadsOn
<1>5. Sections(Cdata(t)) = r
  BY <1>4 DEF Reads, Sections, Cdata, Begins, One
<1>6. /\ w \in Seq(EventOf(S)) /\ w # <<>> /\ Pieces(w) = Pieces(v) \o x
      /\ (\A j \in 1..Len(w) : w[j].cdata) /\ Pieces(v) \in Seq(S)
  BY <1>2, SectionType
<1>7. Pieces(w) = t
  BY <1>2, <1>6, SplitEnd
<1>8. ASSUME \A i \in 1..Len(t) : ~ClosesAt(t, i) PROVE w = One(Section(t))
  <2>1. v = <<>>
    BY <1>2, <1>8
  <2>2. Pieces(v) = <<>>
    <3>1. [i \in DOMAIN v |-> v[i].text] = <<>>
      BY <2>1
    <3> QED
      BY <2>1, <3>1, FlattenNone DEF Pieces
  <2>3. x = t
    <3>1. <<>> \o x = x
      OBVIOUS
    <3> QED
      BY <1>6, <1>7, <2>2, <3>1
  <2> QED
    BY <2>1, <2>3 DEF One
<1> QED
  BY <1>3, <1>5, <1>6, <1>7, <1>8 DEF SectionsSay

\* WeChat reads the text.
LEMMA WholeOf ==
  ASSUME NEW S, HasMarks(S), NEW t \in Seq(S)
  PROVE  Whole(Cdata(t)) = t
<1>1. PICK v : Out(Sections(Cdata(t)), v) /\ SectionsSay(S, t, v)
  BY SectionsOf
<1>2. /\ v \in Seq(EventOf(S)) /\ Pieces(v) = t /\ \A j \in 1..Len(v) : v[j].cdata
  BY <1>1 DEF SectionsSay
<1> DEFINE n == Len(v)
           seqs == [i \in DOMAIN v |-> IF v[i].cdata THEN <<>> ELSE v[i].text]
<1>3. n \in Nat /\ DOMAIN v = 1..n
  BY <1>2
<1>4. seqs = [i \in 1..n |-> <<>>]
  <2> HIDE DEF n
  <2> QED
    BY <1>2, <1>3 DEF n
<1>5. Loose(v) = FlattenSeq(seqs)
  BY DEF Loose
<1> HIDE DEF seqs, n
<1>6. Loose(v) = <<>>
  BY <1>3, <1>4, <1>5, FlattenEmpties
<1>7. DOMAIN Loose(v) = {}
  BY <1>6
<1> QED
  BY <1>1, <1>2, <1>7 DEF Out, Whole

\* parse_inbound() keeps the text of one section.
LEMMA KeptOne == ASSUME NEW t PROVE Kept(One(Section(t))) = t
<1> DEFINE v == One(Section(t))
           I == {i \in DOMAIN v : v[i].cdata}
<1>1. DOMAIN v = {1} /\ v[1] = Section(t)
  BY DEF One
<1>2. Section(t).cdata /\ Section(t).text = t
  BY DEF Section
<1> HIDE DEF v
<1>3. I = {1} /\ I # {}
  BY <1>1, <1>2
<1>4. Max(I) = 1
  <2>1. 1 >= 1
    OBVIOUS
  <2> HIDE DEF I
  <2> QED
    BY <1>3, <2>1 DEF Max
<1> QED
  BY <1>1, <1>2, <1>3, <1>4 DEF Kept, v

LEMMA KeptOf ==
  ASSUME NEW S, HasMarks(S), NEW t \in Seq(S), \A i \in 1..Len(t) : ~ClosesAt(t, i)
  PROVE  Kept(Sections(Cdata(t)).events) = t
<1>1. PICK v : Out(Sections(Cdata(t)), v) /\ SectionsSay(S, t, v)
  BY SectionsOf
<1>2. v = One(Section(t))
  BY <1>1 DEF SectionsSay
<1> QED
  BY <1>1, <1>2, KeptOne DEF Out

\* Every element in a section is heard, and a number is.
LEMMA HeardOf ==
  ASSUME NEW S, HasMarks(S), NEW t \in Seq(S)
  PROVE  Sections(Cdata(t)).events # <<>>
  BY SectionsOf DEF Out, SectionsSay

LEMMA NumberHeard ==
  ASSUME NEW c, c # OpenMark
  PROVE  Sections(One(c)).events # <<>>
<1> DEFINE S == {c}
           none == <<>>
           e == [cdata |-> FALSE, text |-> <<c>>]
<1>1. Begins \in ReadState(S) /\ Begins.inside = FALSE /\ Begins.events = none
  BY DEF Begins, ReadState
<1>2. ReadOn(Begins, One(c)) = Read(Begins, c)
  BY <1>1, ReadOne DEF One
<1>3. Read(Begins, c).events = Append(none, e)
  BY DEF Begins, Read
<1>4. Append(none, e) # none
  OBVIOUS
<1> QED
  BY <1>2, <1>3, <1>4 DEF Sections, Begins

-----------------------------------------------------------------------------
LEMMA CapOf ==
  ASSUME NEW S, Ellipsis \in S, NEW t \in Seq(S), NEW max \in Nat \ {0}
  PROVE  Cap(t, max) \in Seq(S) /\ Len(Cap(t, max)) <= max
<1> DEFINE u == SubSeq(t, 1, max - 1)
<1>1. CASE Len(t) <= max
  BY <1>1 DEF Cap
<1>2. CASE ~(Len(t) <= max)
  <2>1. max - 1 \in Nat /\ Len(t) \in Nat /\ \A i \in 1..(max - 1) : t[i] \in S
    BY <1>2
  <2>2. u \in Seq(S) /\ Len(u) = max - 1
    BY <2>1, SubSeqProperties
  <2> HIDE DEF u
  <2>3. Append(u, Ellipsis) \in Seq(S) /\ Len(Append(u, Ellipsis)) = max
    BY <2>2
  <2> QED
    BY <1>2, <2>3 DEF Cap, u
<1> QED
  BY <1>1, <1>2

-----------------------------------------------------------------------------
\* An element of a document has a name of its own.
Only(doc, i, name) ==
  /\ i \in DOMAIN doc /\ doc[i].name = name
  /\ \A j \in DOMAIN doc : doc[j].name = name => j = i

LEMMA SaysOf ==
  ASSUME NEW doc, NEW i, NEW name, Only(doc, i, name)
  PROVE  Says(doc, name) = Whole(doc[i].body)
BY DEF Only, Says

AllHeard(doc) == \A i \in DOMAIN doc : Sections(doc[i].body).events # <<>>

LEMMA BagOf ==
  ASSUME NEW doc, AllHeard(doc)
  PROVE  /\ DOMAIN Bag(doc) = {doc[i].name : i \in DOMAIN doc}
         /\ \A i, name : Only(doc, i, name) =>
              Bag(doc)[name] = Kept(Sections(doc[i].body).events)
<1> DEFINE heard == {i \in DOMAIN doc : Sections(doc[i].body).events # <<>>}
           place(name) == CHOOSE i \in heard : doc[i].name = name
           kept(name) == Kept(Sections(doc[place(name)].body).events)
<1>1. heard = DOMAIN doc
  BY DEF AllHeard
<1>2. Bag(doc) = [name \in {doc[i].name : i \in heard} |-> kept(name)]
  BY DEF Bag
<1> HIDE DEF heard
<1>3. ASSUME NEW i, NEW name, Only(doc, i, name) PROVE place(name) = i
  BY <1>1, <1>3 DEF Only
<1>4. ASSUME NEW i, NEW name, Only(doc, i, name)
      PROVE  name \in {doc[j].name : j \in heard}
  BY <1>1, <1>4 DEF Only
<1> HIDE DEF place
<1>5. ASSUME NEW i, NEW name, Only(doc, i, name)
      PROVE  Bag(doc)[name] = Kept(Sections(doc[i].body).events)
  <2>1. Bag(doc)[name] = kept(name)
    <3> HIDE DEF kept
    <3> QED
      BY <1>2, <1>4, <1>5
  <2> QED
    BY <1>3, <1>5, <2>1
<1>6. DOMAIN Bag(doc) = {doc[i].name : i \in DOMAIN doc}
  <2> HIDE DEF kept
  <2> QED
    BY <1>1, <1>2
<1> QED
  BY <1>5, <1>6

LEMMA TextElements ==
  ASSUME NEW to, NEW from, NEW content
  PROVE  LET doc == TextReply(to, from, content)
         IN  /\ Only(doc, 1, "ToUserName") /\ doc[1].body = Cdata(to)
             /\ Only(doc, 2, "FromUserName") /\ doc[2].body = Cdata(from)
             /\ Only(doc, 3, "CreateTime") /\ doc[3].body = One("now")
             /\ Only(doc, 4, "MsgType") /\ doc[4].body = Cdata(One("text"))
             /\ Only(doc, 5, "Content") /\ doc[5].body = Cdata(content)
             /\ DOMAIN doc = 1..5
  BY DEF TextReply, Leaf, Only, One

LEMMA NewsElements ==
  ASSUME NEW to, NEW from, NEW article
  PROVE  LET doc == NewsReply(to, from, article)
         IN  /\ Only(doc, 1, "ToUserName") /\ doc[1].body = Cdata(to)
             /\ Only(doc, 6, "Title") /\ doc[6].body = Cdata(article.title)
             /\ Only(doc, 7, "Description") /\ doc[7].body = Cdata(article.description)
  BY DEF NewsReply, Leaf, Only

\* Short texts have no mark in them.
LEMMA OneCharacter ==
  ASSUME NEW S, NEW c \in S
  PROVE  One(c) \in Seq(S) /\ \A i \in 1..Len(One(c)) : ~ClosesAt(One(c), i)
<1>1. One(c) \in Seq(S) /\ Len(One(c)) = 1
  BY DEF One
<1>2. \A i \in 1..1 : ~(i > 2)
  OBVIOUS
<1> QED
  BY <1>1, <1>2 DEF ClosesAt

\* parse_inbound() reads a text reply.
LEMMA ParsesReply ==
  ASSUME NEW S, HasMarks(S), "text" \in S,
         NEW to \in Seq(S), NEW from \in Seq(S), NEW content \in Seq(S)
  PROVE  LET read == ParseInbound(TextReply(to, from, content))
         IN  /\ read["ToUserName"] = Kept(Sections(Cdata(to)).events)
             /\ read["FromUserName"] = Kept(Sections(Cdata(from)).events)
             /\ read["Content"] = Kept(Sections(Cdata(content)).events)
<1> DEFINE doc == TextReply(to, from, content)
<1>1. /\ Only(doc, 1, "ToUserName") /\ doc[1].body = Cdata(to)
      /\ Only(doc, 2, "FromUserName") /\ doc[2].body = Cdata(from)
      /\ Only(doc, 3, "CreateTime") /\ doc[3].body = One("now")
      /\ Only(doc, 4, "MsgType") /\ doc[4].body = Cdata(One("text"))
      /\ Only(doc, 5, "Content") /\ doc[5].body = Cdata(content)
      /\ DOMAIN doc = 1..5
  BY TextElements
<1> HIDE DEF doc
<1>2. AllHeard(doc)
  <2>1. One("text") \in Seq(S)
    BY DEF One
  <2>2. Sections(One("now")).events # <<>>
    <3>1. "now" # OpenMark
      BY DEF OpenMark
    <3> QED
      BY <3>1, NumberHeard
  <2>3. \A t \in Seq(S) : Sections(Cdata(t)).events # <<>>
    BY HeardOf
  <2>4. \A i \in DOMAIN doc : i = 1 \/ i = 2 \/ i = 3 \/ i = 4 \/ i = 5
    BY <1>1
  <2> QED
    BY <1>1, <2>1, <2>2, <2>3, <2>4 DEF AllHeard
<1>3. Required \subseteq DOMAIN Bag(doc)
  <2>1. DOMAIN Bag(doc) = {doc[i].name : i \in DOMAIN doc}
    BY <1>2, BagOf
  <2>2. /\ \E i \in DOMAIN doc : doc[i].name = "ToUserName"
        /\ \E i \in DOMAIN doc : doc[i].name = "FromUserName"
        /\ \E i \in DOMAIN doc : doc[i].name = "CreateTime"
        /\ \E i \in DOMAIN doc : doc[i].name = "MsgType"
    BY <1>1 DEF Only
  <2> QED
    BY <2>1, <2>2 DEF Required
<1>4. ParseInbound(doc) = Bag(doc)
  BY <1>3 DEF ParseInbound
<1>5. \A i, name : Only(doc, i, name) => Bag(doc)[name] = Kept(Sections(doc[i].body).events)
  BY <1>2, BagOf
<1>6. /\ Bag(doc)["ToUserName"] = Kept(Sections(Cdata(to)).events)
      /\ Bag(doc)["FromUserName"] = Kept(Sections(Cdata(from)).events)
      /\ Bag(doc)["Content"] = Kept(Sections(Cdata(content)).events)
  BY <1>1, <1>5
<1> QED
  BY <1>4, <1>6 DEF doc

\* Texts of an account, and what replies add to them.
ReplyChars ==
  Alphabet["xml"] \cup {Ellipsis, OpenMark, Mark(1), Mark(2), Mark(3), "fan", "account", "text"}

\* A reply is read whole and within the limit, whatever a child, a fan or a
\* digest puts into it, marks included, for texts of any length in any alphabet
\* (xml.rs:99-179, handler.rs:572-588).
THEOREM RepliesAreWhole ==
  ASSUME CodecAssumption
  PROVE  TextSpec => []RepliesReadWhole
<1> DEFINE Chars == Alphabet["xml"]
           XmlText == kind = "xml" => text \in Seq(Chars)
<1>1. TextInit => XmlText
  BY DEF TextInit
<1>2. XmlText /\ [TextNext]_textVars => XmlText'
  <2> SUFFICES ASSUME XmlText, [TextNext]_textVars, kind' = "xml"
               PROVE  text' \in Seq(Chars)
    OBVIOUS
  <2>1. CASE UNCHANGED textVars
    BY <2>1 DEF textVars
  <2>2. CASE TextNext
    <3>1. PICK c \in Chars : text' = Append(text, c)
      BY <2>2 DEF TextNext
    <3>2. text \in Seq(Chars)
      BY <2>2 DEF TextNext
    <3> HIDE DEF Chars
    <3> QED
      BY <3>1, <3>2, AppendProperties
  <2> QED
    BY <2>1, <2>2
<1>3. XmlText => RepliesReadWhole
  <2> DEFINE S == ReplyChars
             said(max) == Cap(text, max)
             asText(max) == TextReply(<<"fan">>, <<"account">>, said(max))
             asNews(max) == NewsReply(text, <<"account">>,
                            [title |-> text, description |-> said(max),
                             pic_url |-> <<"https">>, url |-> <<"https">>])
             read(max) == ParseInbound(asText(max))
  <2> SUFFICES ASSUME kind = "xml", text \in Seq(Chars), NEW max \in 1..(MaxLen["xml"] + 1)
               PROVE  /\ Says(asText(max), "Content") = said(max) /\ Len(said(max)) <= max
                      /\ Says(asNews(max), "Title") = text
                      /\ Says(asNews(max), "Description") = said(max)
                      /\ Says(asNews(max), "ToUserName") = text
                      /\ read(max)["FromUserName"] = <<"account">>
                      /\ read(max)["ToUserName"] = <<"fan">>
                      /\ (\A i \in DOMAIN said(max) : ~ClosesAt(said(max), i)) =>
                           read(max)["Content"] = said(max)
    BY DEF RepliesReadWhole
  <2>1. HasMarks(S) /\ Ellipsis \in S /\ "fan" \in S /\ "account" \in S /\ "text" \in S
        /\ Chars \subseteq S
    BY DEF ReplyChars, HasMarks
  <2>2. max \in Nat \ {0}
    BY CodecAssumption DEF CodecAssumption
  <2>3. text \in Seq(S)
    BY <2>1, MoreCharacters
  <2> HIDE DEF S
  <2> DEFINE m == said(max)
             doc == asText(max)
             more == asNews(max)
             found == read(max)
  <2>4. m \in Seq(S) /\ Len(m) <= max
    BY <2>1, <2>2, <2>3, CapOf
  <2>5. Says(doc, "Content") = m
    <3>1. Only(doc, 5, "Content") /\ doc[5].body = Cdata(m)
      <4> HIDE DEF said
      <4> QED
        BY TextElements
    <3>2. Says(doc, "Content") = Whole(doc[5].body)
      <4> HIDE DEF doc
      <4> QED
        BY <3>1, SaysOf
    <3> QED
      BY <2>1, <2>4, <3>1, <3>2, WholeOf
  <2>6. /\ Says(more, "ToUserName") = text /\ Says(more, "Title") = text
        /\ Says(more, "Description") = m
    <3>1. /\ Only(more, 1, "ToUserName") /\ more[1].body = Cdata(text)
          /\ Only(more, 6, "Title") /\ more[6].body = Cdata(text)
          /\ Only(more, 7, "Description") /\ more[7].body = Cdata(m)
      <4> DEFINE article == [title |-> text, description |-> m,
                             pic_url |-> <<"https">>, url |-> <<"https">>]
      <4>1. /\ article.title = text /\ article.description = m
            /\ more = NewsReply(text, <<"account">>, article)
        BY DEF m
      <4> HIDE DEF article, m, more
      <4> QED
        BY <4>1, NewsElements
    <3> HIDE DEF more
    <3>2. /\ Says(more, "ToUserName") = Whole(Cdata(text))
          /\ Says(more, "Title") = Whole(Cdata(text))
          /\ Says(more, "Description") = Whole(Cdata(m))
      BY <3>1, SaysOf
    <3> QED
      BY <2>1, <2>3, <2>4, <3>2, WholeOf
  <2>7. One("fan") \in Seq(S) /\ One("account") \in Seq(S)
        /\ Kept(Sections(Cdata(One("fan"))).events) = One("fan")
        /\ Kept(Sections(Cdata(One("account"))).events) = One("account")
    BY <2>1, OneCharacter, KeptOf
  <2>8. /\ found["ToUserName"] = Kept(Sections(Cdata(One("fan"))).events)
        /\ found["FromUserName"] = Kept(Sections(Cdata(One("account"))).events)
        /\ found["Content"] = Kept(Sections(Cdata(m)).events)
    <3>1. found = ParseInbound(TextReply(One("fan"), One("account"), m))
      BY DEF One
    <3> HIDE DEF found, m
    <3> QED
      BY <2>1, <2>4, <2>7, <3>1, ParsesReply
  <2>9. ASSUME \A i \in DOMAIN m : ~ClosesAt(m, i) PROVE found["Content"] = m
    <3>1. DOMAIN m = 1..Len(m)
      <4> HIDE DEF m
      <4> QED
        BY <2>4
    <3> HIDE DEF m, found
    <3> QED
      BY <2>1, <2>4, <2>8, <2>9, <3>1, KeptOf
  <2>10. One("fan") = <<"fan">> /\ One("account") = <<"account">>
    BY DEF One
  <2> HIDE DEF said, asText, asNews, read
  <2> QED
    BY <2>4, <2>5, <2>6, <2>7, <2>8, <2>9, <2>10
<1> QED
  BY <1>1, <1>2, <1>3, PTL DEF TextSpec
=============================================================================
