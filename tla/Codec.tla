------------------------------- MODULE Codec -------------------------------
(***************************************************************************)
(* Envelope and Phrases on every text up to a length: a state is a text,   *)
(* in the alphabet of one of the functions, and a step makes it longer.    *)
(***************************************************************************)
EXTENDS Envelope, Phrases

CONSTANTS
  Alphabet,  \* Alphabet[kind]: the characters that matter
  MaxLen,    \* MaxLen[kind]: bound on the length of texts
  Words,     \* words of a dictionary
  AppId,     \* the AppID, in bytes
  MaxString, \* bound on the elements of a JSON string
  MaxDepth,  \* bound on the levels of objects in a JSON object
  MaxMembers \* MaxMembers[d]: bound on the members of an object d levels deep

\* Bytes are numbers, and nothing beyond ASCII is an ASCII letter.
ASSUME CodecAssumption ==
  /\ MaxLen["xml"] \in Nat
  /\ Alphabet["bytes"] \subseteq Nat
  /\ AppId \in Seq(Nat)
  /\ Words \subseteq Seq(Alphabet["words"])
  /\ Alnum \cap Wide = {}
  /\ MaxString \in Nat /\ MaxDepth \in Nat
  /\ MaxMembers \in [0..MaxDepth -> Nat]

VARIABLES kind, text

textVars == <<kind, text>>

TextInit ==
  /\ kind \in DOMAIN Alphabet
  /\ text = <<>>

TextNext ==
  /\ Len(text) < MaxLen[kind]
  /\ \E c \in Alphabet[kind] : text' = Append(text, c)
  /\ UNCHANGED kind

TextSpec == TextInit /\ [][TextNext]_textVars

-----------------------------------------------------------------------------
(* Properties. *)

Says(doc, name) ==
  LET i == CHOOSE j \in DOMAIN doc : doc[j].name = name IN Whole(doc[i].body)

\* Whatever a child, a fan or a digest puts into a reply, "]]>" included, an
\* XML reader gets the same text, cut at reply.max_chars, and the right names
\* (xml.rs:99-179, handler.rs:572-588).  parse_inbound() reads it too, if it is
\* one section (the test at xml.rs:243).
RepliesReadWhole ==
  kind = "xml" =>
    \A max \in 1..(MaxLen["xml"] + 1) :
      LET said == Cap(text, max)
          reply == TextReply(<<"fan">>, <<"account">>, said)
          news == NewsReply(text, <<"account">>,
                            [title |-> text, description |-> said,
                             pic_url |-> <<"https">>, url |-> <<"https">>])
          read == ParseInbound(reply)
      IN  /\ Says(reply, "Content") = said /\ Len(said) <= max
          /\ Says(news, "Title") = text /\ Says(news, "Description") = said
          /\ Says(news, "ToUserName") = text
          /\ read.FromUserName = <<"account">> /\ read.ToUserName = <<"fan">>
          /\ (\A i \in DOMAIN said : ~ClosesAt(said, i)) => read.Content = said

\* decrypt() gives back what encrypt() sealed for the account, for every
\* message, and accepts no other bytes: the length field and the padding leave
\* one reading (crypto.rs:56-120).
OpensOnlySealed ==
  kind = "bytes" =>
    /\ Decrypt(Encrypt(0, text, AppId), AppId) = {text}
    /\ \A xml \in Decrypt(text, AppId) : text = Encrypt(text[1], xml, AppId)

\* The words of a text, as a reader of English sees them.
WordsOf(t) ==
  { SubSeq(t, p[1], p[2]) : p \in
      { p \in (DOMAIN t) \X (DOMAIN t) :
          /\ p[1] <= p[2]
          /\ \A k \in p[1]..p[2] : t[k] \in Alnum
          /\ Boundary(t, p[1] - 1) /\ Boundary(t, p[2] + 1) } }

\* A word in ASCII letters is found iff it is one of the words of the text,
\* wherever else its letters occur; any other script is found as a substring
\* (dict.rs:61-73).
WholeWords ==
  kind = "words" =>
    \A w \in Words :
      /\ ToSet(w) \subseteq Alnum => (WordMatches(text, w) <=> w \in WordsOf(text))
      /\ ~IsAscii(w) => (WordMatches(text, w) <=> \E i \in DOMAIN text : OccursAt(text, w, i))

\* JSON objects: strings with braces and escaped characters in them, other
\* characters, and objects, in any order.
Elements ==
  {<<"a">>, <<"{">>, <<"}">>, <<Backslash, Quote>>, <<Backslash, Backslash>>}

Strings ==
  { <<Quote>> \o FlattenSeq(s) \o <<Quote>> : s \in BoundedSeq(Elements, MaxString) }

ObjectsOf(members, max) ==
  { <<"{">> \o FlattenSeq(ms) \o <<"}">> : ms \in BoundedSeq(members, max) }

Scalars == Strings \cup {<<"a">>}

\* Objects in objects, so many levels below the outer one.
Nested[d \in 0..MaxDepth] ==
  ObjectsOf(IF d = 0 THEN Scalars ELSE Scalars \cup Nested[d - 1], MaxMembers[d])

Objects == Nested[MaxDepth]

\* The classifier's object is found behind prose without a brace and before
\* whatever follows (ai.rs:163-176).
FindsTheObject ==
  kind = "json" =>
    \A o \in Objects :
      /\ ExtractJson(o \o text) = o
      /\ "{" \notin ToSet(text) => ExtractJson(text \o o) = o
=============================================================================
