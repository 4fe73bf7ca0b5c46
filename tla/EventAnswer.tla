----------------------------- MODULE EventAnswer -----------------------------
(***************************************************************************)
(* From a text message to what is said about events: the dictionary and    *)
(* the AI classifier (src/src/intent), the query on the digest             *)
(* (src/src/digest_cache.rs:276-428) and the router                        *)
(* (src/src/wechat/router.rs:30-131), while days go by and digests come    *)
(* and go.  TextPath shows when this runs; DigestCache where the digest    *)
(* comes from.                                                             *)
(*                                                                         *)
(* Days are numbers, and day 0 is a Monday.  A message is what the         *)
(* dictionary sees in it: whether a help or an action word occurs, and     *)
(* which tags have a word that occurs.                                     *)
(***************************************************************************)
EXTENDS Integers, Sequences, FiniteSets

CONSTANTS
  Scopes,     \* the strict dimensions: country, city, category
  Tags,       \* tags of the strict dimensions and of the time of day
  DateWords,  \* tags of the date, among them aliases and unknown ones
  Events,     \* possible rows of a digest
  Digests,    \* possible digests: sequences of rows
  Messages,   \* possible messages
  AiAnswers,  \* what the classifier's JSON may say of a message
  Dictionary, \* Dictionary[d]: tags of dimension d in the order of the file
  AiFallback, \* intent.ai_fallback
  CardLimit,  \* router.events_in_card
  CardReady,  \* TRUE iff news_card.pic_url and url are set
  MaxDay,     \* bound: days that pass
  NoTag,      \* an absent field of an event or a filter
  Blank,      \* a field of the classifier's JSON that is only white space
  NoSnapshot  \* snapshot() returned None

Dims == Scopes \cup {"date", "time"}

DateTags == {"today", "tomorrow", "weekend", "week", "all"}

Days == 0..MaxDay

\* Rows may lack any field, and say nothing sensible about their days.
EventType ==
  [scope: [Scopes -> Tags \cup {NoTag}], time: Tags \cup {NoTag},
   start: Int \cup {NoTag}, end: Int \cup {NoTag}]

Filters ==
  [scope: [Scopes -> Tags \cup {NoTag}], time: Tags \cup {NoTag},
   date: DateTags \cup {NoTag}]

Kinds == {"help", "events", "general_qa", "unknown"}

Intents == [kind: Kinds, filter: Filters]

RawIntents ==
  [kind: STRING, scope: [Scopes -> Tags \cup {NoTag, Blank}],
   time: Tags \cup {NoTag, Blank}, date: DateWords \cup {NoTag}]

ASSUME AnswerAssumption ==
  /\ Events \subseteq EventType
  /\ Digests \subseteq Seq(Events)
  /\ Messages \subseteq [help: BOOLEAN, action: BOOLEAN, hits: SUBSET (Tags \cup DateWords)]
  /\ "date" \notin Scopes
  /\ Dictionary \in [Dims -> Seq(Tags \cup DateWords)]
  /\ \A d \in Dims \ {"date"} : Dictionary[d] \in Seq(Tags)
  /\ AiAnswers \subseteq RawIntents
  /\ AiFallback \in BOOLEAN
  /\ CardReady \in BOOLEAN
  /\ CardLimit \in Nat \ {0}
  /\ MaxDay \in Nat
  /\ NoTag \notin Tags \cup DateTags \cup DateWords \cup Int
  /\ Blank \notin Tags
  /\ Blank # NoTag
  /\ NoSnapshot \notin Seq(Events)

VARIABLES
  today,   \* the local date
  digest,  \* the snapshot's events, or NoSnapshot
  asked,   \* the intent of the last message
  reply    \* the reply to it

vars == <<today, digest, asked, reply>>

Forms == {"help", "unknown", "llm", "empty", "titles", "card"}

TypeOK ==
  /\ today \in Days
  /\ digest \in Digests \cup {NoSnapshot}
  /\ asked \in Intents
  /\ reply \in [form: Forms, events: Seq(Events)]

-----------------------------------------------------------------------------
(* Filtering. *)

\* 0 is Monday, 6 is Sunday.
Weekday(day) == day % 7

Least(i, j) == IF i < j THEN i ELSE j

\* date_tag_range(): the first and the last day that a tag stands for.
DateRange(tag, day) ==
  LET monday == day - Weekday(day)
  IN  CASE tag = "today"    -> <<day, day>>
        [] tag = "tomorrow" -> <<day + 1, day + 1>>
        [] tag = "weekend"  -> <<Least(monday + 5, day), monday + 6>>
        [] tag = "week"     -> <<monday, monday + 6>>

Dated(e) == e.start # NoTag \/ e.end # NoTag

\* A row with one date is a row of one day.
FirstDay(e) == IF e.start # NoTag THEN e.start ELSE e.end
LastDay(e) == IF e.end # NoTag THEN e.end ELSE e.start

\* Mutant of Overlaps: the bounds of both intervals are left out.
OverlapsOpen(e, range) == LastDay(e) > range[1] /\ FirstDay(e) < range[2]

\* Days from..to have one in common with the row's.
Overlaps(e, range) == LastDay(e) >= range[1] /\ FirstDay(e) <= range[2]

\* Mutant of Matches: an absent condition is compared like any other.
MatchesExactly(e, f, day) ==
  /\ \A s \in Scopes : e.scope[s] = f.scope[s]
  /\ f.time # NoTag => e.time \in {NoTag, f.time}
  /\ f.date \notin {NoTag, "all"} => Dated(e) /\ Overlaps(e, DateRange(f.date, day))

\* matches_filter(): a row without a scope tag never matches one, a row
\* without a time matches any, a row without dates no date.
Matches(e, f, day) ==
  /\ \A s \in Scopes : f.scope[s] # NoTag => e.scope[s] = f.scope[s]
  /\ f.time # NoTag => e.time \in {NoTag, f.time}
  /\ f.date \notin {NoTag, "all"} => Dated(e) /\ Overlaps(e, DateRange(f.date, day))

\* Bug: take() before filter().
QueryOfFirst(d, f, day) ==
  SelectSeq(SubSeq(d, 1, Least(CardLimit, Len(d))), LAMBDA e : Matches(e, f, day))

\* query(): the first matches in the digest's order, one row after the other.
Query(d, f, day) ==
  LET found[i \in 0..Len(d)] ==
        IF i = 0 THEN <<>>
        ELSE IF Len(found[i - 1]) < CardLimit /\ Matches(d[i], f, day)
        THEN Append(found[i - 1], d[i])
        ELSE found[i - 1]
  IN  found[Len(d)]

-----------------------------------------------------------------------------
(* Classification. *)

NoFilter == [scope |-> [s \in Scopes |-> NoTag], time |-> NoTag, date |-> NoTag]

Plain(kind) == [kind |-> kind, filter |-> NoFilter]

\* pick_tag(): the first tag of the dictionary that the message hits.
PickTag(m, d) ==
  LET found == {i \in DOMAIN Dictionary[d] : Dictionary[d][i] \in m.hits}
  IN  IF found = {} THEN NoTag
      ELSE Dictionary[d][CHOOSE i \in found : \A j \in found : i <= j]

\* parse_date_tag()
ParseDate(t) ==
  CASE t \in DateTags -> t
    [] t \in {"thisweek", "this_week"} -> "week"
    [] OTHER -> NoTag

TagFilter(m) ==
  [scope |-> [s \in Scopes |-> PickTag(m, s)],
   time |-> PickTag(m, "time"),
   date |-> ParseDate(PickTag(m, "date"))]

\* raw_to_intent(): what the classifier says, without blank fields and with
\* any other kind taken for "unknown".
FromRaw(r) ==
  LET field(x) == IF x = Blank THEN NoTag ELSE x
  IN  [kind |-> IF r.kind \in Kinds THEN r.kind ELSE "unknown",
       filter |-> [scope |-> [s \in Scopes |-> field(r.scope[s])],
                   time |-> field(r.time), date |-> ParseDate(r.date)]]

\* classify_intent(): help words win, then action words; what has neither
\* goes to the AI classifier, if there is one, whose failures are "unknown".
Understood(m) ==
  IF m.help THEN {Plain("help")}
  ELSE IF m.action THEN {[kind |-> "events", filter |-> TagFilter(m)]}
  ELSE IF AiFallback THEN {FromRaw(r) : r \in AiAnswers} \cup {Plain("unknown")}
  ELSE {Plain("unknown")}

-----------------------------------------------------------------------------
(* The router. *)

Say(form) == [form |-> form, events |-> <<>>]

\* build_events_reply()
EventsReply(f) ==
  LET found == Query(digest, f, today)
  IN  IF found = <<>> THEN Say("empty")
      ELSE [form |-> IF CardReady THEN "card" ELSE "titles", events |-> found]

\* route()
Route(i) ==
  CASE i.kind = "help" -> Say("help")
    [] i.kind = "unknown" -> Say("unknown")
    [] i.kind = "general_qa" -> Say("llm")
    [] i.kind = "events" ->
         IF digest = NoSnapshot THEN Say("unknown") ELSE EventsReply(i.filter)

-----------------------------------------------------------------------------
Init ==
  /\ today = 0
  /\ digest = NoSnapshot
  /\ asked = Plain("unknown")
  /\ reply = Say("unknown")

Ask(m) ==
  /\ asked' \in Understood(m)
  /\ reply' = Route(asked')
  /\ UNCHANGED <<today, digest>>

Midnight ==
  /\ today < MaxDay
  /\ today' = today + 1
  /\ UNCHANGED <<digest, asked, reply>>

\* The snapshot is replaced, refused, or available again.
Publish(d) ==
  /\ digest' = d
  /\ UNCHANGED <<today, asked, reply>>

Next ==
  \/ \E m \in Messages : Ask(m)
  \/ Midnight
  \/ \E d \in Digests \cup {NoSnapshot} : Publish(d)

Spec == Init /\ [][Next]_vars

-----------------------------------------------------------------------------
(* Properties. *)

\* The conditions other than the date, and with a date.
Undated == {f \in Filters : f.date = NoTag}
On(f, tag) == [f EXCEPT !.date = tag]

\* A row is shown for tomorrow iff it will be shown for today then, and for a
\* week iff it is shown for one of its days: the overlap of two intervals agrees
\* with a look at each day (digest_cache.rs:367-387).  Whatever is on at the
\* weekend is shown for it, and nothing beyond the week; on a Saturday and on a
\* Sunday nothing else than what is on at the weekend.
RangeAgreesWithDays ==
  \A e \in Events, f \in Undated :
    Dated(e) /\ FirstDay(e) <= LastDay(e) =>
      LET monday == today - Weekday(today)
          shown(day) == Matches(e, On(f, "today"), day)
          week == Matches(e, On(f, "week"), today)
          weekend == Matches(e, On(f, "weekend"), today)
      IN  /\ Matches(e, On(f, "tomorrow"), today) <=> shown(today + 1)
          /\ week <=> \E day \in monday..(monday + 6) : shown(day)
          /\ shown(monday + 5) \/ shown(monday + 6) => weekend
          /\ weekend => week
          /\ weekend /\ Weekday(today) >= 5 => shown(monday + 5) \/ shown(monday + 6)

\* Taking a condition out of a question never takes a row out of the answer:
\* rows that lack a field are lost to those who ask for it only (digest_
\* cache.rs:307-330).
FewerConditionsMoreRows ==
  \A e \in Events, f \in Filters : Matches(e, f, today) =>
    /\ \A s \in Scopes : Matches(e, [f EXCEPT !.scope[s] = NoTag], today)
    /\ Matches(e, [f EXCEPT !.time = NoTag], today)
    /\ Matches(e, On(f, NoTag), today)

\* What the dictionary or the classifier understood decides a reply: a card or a
\* list of titles shows the first matching rows of the digest it was made from,
\* and as many of them as it may (digest_cache.rs:276-279).
FirstMatchesShown ==
  [][(\E m \in Messages : Ask(m)) /\ reply'.form \in {"card", "titles", "empty"} =>
       LET f == asked'.filter
           hit(i) == Matches(digest[i], f, today)
           nth(i) == Cardinality({j \in 1..i : hit(j)})
           shown == {i \in 1..Len(digest) : hit(i) /\ nth(i) <= CardLimit}
       IN  /\ Len(reply'.events) = Cardinality(shown)
           /\ \A i \in shown : reply'.events[nth(i)] = digest[i]]_vars

\* "Walk to next Saturday inclusive. If today IS already Saturday or Sunday,
\* that day is in range." (digest_cache.rs:405-406): a reply about the weekend
\* shows what is on at the weekend, on whatever day it was asked for.
WeekendIsSaturdayOn ==
  [][(\E m \in Messages : Ask(m)) /\ asked'.filter.date = "weekend" =>
       LET saturday == today - Weekday(today) + 5
       IN  \A i \in 1..Len(reply'.events) :
             \E day \in {saturday, saturday + 1} :
               FirstDay(reply'.events[i]) <= day /\ day <= LastDay(reply'.events[i])]_vars
=============================================================================
