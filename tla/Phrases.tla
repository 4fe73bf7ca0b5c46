------------------------------ MODULE Phrases ------------------------------
(***************************************************************************)
(* How words and JSON are found in texts: word_matches() of the dictionary *)
(* (src/src/intent/dict.rs:56-102) and extract_json() of the classifier    *)
(* (src/src/intent/ai.rs:173-201).  EventAnswer starts from what these     *)
(* find.  Characters are in lower case.                                    *)
(***************************************************************************)
EXTENDS Naturals, Sequences, SequencesExt

CONSTANTS
  Alnum,  \* ASCII letters and digits
  Wide    \* characters beyond ASCII

IsAscii(word) == ToSet(word) \cap Wide = {}

OccursAt(text, word, i) ==
  /\ i + Len(word) - 1 <= Len(text)
  /\ SubSeq(text, i, i + Len(word) - 1) = word

\* No letter or digit at i, or no character at all.
Boundary(text, i) == i \in DOMAIN text => text[i] \notin Alnum

\* Bug: the boundaries of the first occurrence decide.
FirstWordMatches(text, word) ==
  /\ word # <<>>
  /\ \E i \in DOMAIN text :
       /\ OccursAt(text, word, i)
       /\ \A j \in 1..(i - 1) : ~OccursAt(text, word, j)
       /\ IsAscii(word) => Boundary(text, i - 1) /\ Boundary(text, i + Len(word))

WordMatches(text, word) ==
  /\ word # <<>>
  /\ \E i \in DOMAIN text :
       /\ OccursAt(text, word, i)
       /\ IsAscii(word) => Boundary(text, i - 1) /\ Boundary(text, i + Len(word))

ContainsAny(text, words) == \E w \in words : WordMatches(text, w)

-----------------------------------------------------------------------------
Quote == "quote"

Backslash == "backslash"

NoJson == <<>>

\* Bug: a backslash does not protect the next character.
StepUnescaped(s, c) ==
  LET t == [s EXCEPT !.len = @ + 1] IN
  IF s.done THEN s
  ELSE IF c = Quote THEN [t EXCEPT !.string = ~@]
  ELSE IF c = "{" /\ ~s.string THEN [t EXCEPT !.depth = @ + 1]
  ELSE IF c = "}" /\ ~s.string THEN [t EXCEPT !.depth = @ - 1, !.done = s.depth = 1]
  ELSE t

\* The body of the loop of extract_json().
Step(s, c) ==
  LET t == [s EXCEPT !.len = @ + 1] IN
  IF s.done THEN s
  ELSE IF s.escaped THEN [t EXCEPT !.escaped = FALSE]
  ELSE IF c = Backslash /\ s.string THEN [t EXCEPT !.escaped = TRUE]
  ELSE IF c = Quote THEN [t EXCEPT !.string = ~@]
  ELSE IF c = "{" /\ ~s.string THEN [t EXCEPT !.depth = @ + 1]
  ELSE IF c = "}" /\ ~s.string THEN [t EXCEPT !.depth = @ - 1, !.done = s.depth = 1]
  ELSE t

Begin == [len |-> 0, depth |-> 0, string |-> FALSE, escaped |-> FALSE, done |-> FALSE]

\* The loop over some characters.
Scan(s, chars) ==
  LET at[i \in 0..Len(chars)] == IF i = 0 THEN s ELSE Step(at[i - 1], chars[i])
  IN  at[Len(chars)]

\* From the first brace to the one that balances it, outside of strings.
ExtractJson(raw) ==
  LET start == SelectInSeq(raw, LAMBDA c : c = "{")
      rest == SubSeq(raw, start, Len(raw))
      end == Scan(Begin, rest)
  IN  IF start > 0 /\ end.done THEN SubSeq(rest, 1, end.len) ELSE NoJson
=============================================================================
