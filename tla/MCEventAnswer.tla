--------------------------- MODULE MCEventAnswer ---------------------------
\* An instance of EventAnswer for TLC: one strict dimension, two cities, a
\* week and the beginning of the next.
EXTENDS EventAnswer

MCScopes == {"city"}

MCTags == {"dubai", "ankara", "night"}

MCDateWords == {"today", "weekend", "thisweek", "someday"}

Row(city, part, from, to) ==
  [scope |-> [s \in Scopes |-> city], time |-> part, start |-> from, end |-> to]

\* A day, an evening, a fair that spans a weekend, a deadline without a
\* start, a row without dates, and one whose dates are the wrong way round.
MCEvents ==
  { Row("dubai", NoTag, 2, 2), Row("dubai", "night", 5, NoTag),
    Row("ankara", NoTag, 4, 7), Row(NoTag, "night", NoTag, 6),
    Row("dubai", NoTag, NoTag, NoTag), Row("ankara", NoTag, 9, 3) }

\* Nothing, one row, two rows, and more rows than a card may show.
MCDigests ==
  {<<>>} \cup {<<e>> : e \in Events}
    \cup {<<Row("dubai", NoTag, 2, 2), Row(NoTag, "night", NoTag, 6)>>,
          <<Row("dubai", NoTag, 2, 2), Row("ankara", NoTag, 4, 7),
            Row("dubai", "night", 5, NoTag), Row("ankara", NoTag, 4, 7)>>}

MCDictionary ==
  [d \in Dims |-> CASE d = "date" -> <<"today", "weekend", "thisweek", "someday">>
                    [] d = "time" -> <<"night">>
                    [] OTHER -> <<"dubai", "ankara">>]

Message(help, action, hits) ==
  [help |-> help, action |-> action, hits |-> hits]

MCMessages ==
  { Message(TRUE, TRUE, {"dubai"}), Message(FALSE, FALSE, {"dubai"}),
    Message(FALSE, TRUE, {}), Message(FALSE, TRUE, {"ankara", "dubai"}),
    Message(FALSE, TRUE, {"night", "weekend"}),
    Message(FALSE, TRUE, {"ankara", "thisweek"}) }

MCAiAnswers ==
  { [kind |-> "events", scope |-> [s \in Scopes |-> Blank], time |-> NoTag, date |-> "weekend"],
    [kind |-> "chat", scope |-> [s \in Scopes |-> NoTag], time |-> Blank, date |-> "someday"],
    [kind |-> "general_qa", scope |-> [s \in Scopes |-> "dubai"], time |-> NoTag, date |-> NoTag] }
=============================================================================
