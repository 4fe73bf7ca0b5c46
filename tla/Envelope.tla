------------------------------ MODULE Envelope ------------------------------
(***************************************************************************)
(* What goes over the wire: the XML of messages and replies                *)
(* (src/src/wechat/xml.rs), the text limit of replies, and the envelope of *)
(* the encrypted modes (src/src/wechat/crypto.rs).                         *)
(*                                                                         *)
(* A text is a sequence of characters; the opening mark of a CDATA section *)
(* counts as one.  A document is the sequence of its leaf elements, with   *)
(* names of their own.                                                     *)
(***************************************************************************)
EXTENDS Naturals, Sequences, SequencesExt

CONSTANT Block  \* bytes of a cipher block: 16

ASSUME EnvelopeAssumption == Block \in Nat \ {0}

OpenMark == "<![CDATA["

CloseMark == <<"]", "]", ">">>

-----------------------------------------------------------------------------
(* Replies. *)

Ellipsis == "..."

\* Bug: the mark comes on top of the limit.
CapOverlong(text, max) ==
  IF Len(text) <= max THEN text ELSE Append(SubSeq(text, 1, max), Ellipsis)

\* cap_reply_text(); render_description() ends a list of titles like that.
Cap(text, max) ==
  IF Len(text) <= max THEN text ELSE Append(SubSeq(text, 1, max - 1), Ellipsis)

ClosesAt(text, i) == i > 2 /\ SubSeq(text, i - 2, i) = CloseMark

\* Bug: the first marker only.
EscapeFirst(text) ==
  LET split(i) == ClosesAt(text, i) /\ \A j \in 1..(i - 1) : ~ClosesAt(text, j)
      char(i) == IF split(i) THEN CloseMark \o <<OpenMark, text[i]>> ELSE <<text[i]>>
  IN  FlattenSeq([i \in DOMAIN text |-> char(i)])

\* escape_cdata(): every "]]>" is split between its brackets and the ">".
Escape(text) ==
  LET char(i) == IF ClosesAt(text, i) THEN CloseMark \o <<OpenMark, text[i]>> ELSE <<text[i]>>
  IN  FlattenSeq([i \in DOMAIN text |-> char(i)])

\* What stands between the tags of an element.
Cdata(text) == <<OpenMark>> \o Escape(text) \o CloseMark

Leaf(name, body) == [name |-> name, body |-> body]

TextReply(to, from, content) ==
  << Leaf("ToUserName", Cdata(to)), Leaf("FromUserName", Cdata(from)),
     Leaf("CreateTime", <<"now">>), Leaf("MsgType", Cdata(<<"text">>)),
     Leaf("Content", Cdata(content)) >>

NewsReply(to, from, article) ==
  << Leaf("ToUserName", Cdata(to)), Leaf("FromUserName", Cdata(from)),
     Leaf("CreateTime", <<"now">>), Leaf("MsgType", Cdata(<<"news">>)),
     Leaf("ArticleCount", <<"1">>),
     Leaf("Title", Cdata(article.title)), Leaf("Description", Cdata(article.description)),
     Leaf("PicUrl", Cdata(article.pic_url)), Leaf("Url", Cdata(article.url)) >>

-----------------------------------------------------------------------------
(* Readers. *)

\* One character further.  A reader is in a section, which ends at the first
\* closing mark, or outside, where a number or a name counts as one character.
Read(r, c) ==
  IF ~r.inside /\ c = OpenMark THEN [r EXCEPT !.inside = TRUE, !.text = <<>>]
  ELSE IF ~r.inside THEN
    [r EXCEPT !.events = Append(@, [cdata |-> FALSE, text |-> <<c>>])]
  ELSE IF ClosesAt(Append(r.text, c), Len(r.text) + 1) THEN
    [r EXCEPT !.inside = FALSE,
              !.events = Append(@, [cdata |-> TRUE,
                                    text |-> SubSeq(r.text, 1, Len(r.text) - 2)])]
  ELSE [r EXCEPT !.text = Append(@, c)]

ReadOn(r, chars) ==
  LET at[i \in 0..Len(chars)] == IF i = 0 THEN r ELSE Read(at[i - 1], chars[i])
  IN  at[Len(chars)]

\* An XML reader's events for a body.
Sections(body) == ReadOn([inside |-> FALSE, text |-> <<>>, events |-> <<>>], body)

Pieces(events) == FlattenSeq([i \in DOMAIN events |-> events[i].text])

Loose(events) ==
  FlattenSeq([i \in DOMAIN events |-> IF events[i].cdata THEN <<>> ELSE events[i].text])

\* What an element says to a reader that puts its pieces together, as WeChat
\* does.  No section is left open, and no mark closes nothing.
Whole(body) ==
  LET r == Sections(body)
      loose == Loose(r.events)
  IN  IF r.inside \/ \E i \in DOMAIN loose : ClosesAt(loose, i) THEN <<"malformed">>
      ELSE Pieces(r.events)

\* What parse_inbound() keeps of an element: a section replaces what is there,
\* and other text does not.
Kept(events) ==
  LET sections == {i \in DOMAIN events : events[i].cdata}
  IN  events[IF sections = {} THEN 1 ELSE Max(sections)].text

Bag(doc) ==
  LET heard == {i \in DOMAIN doc : Sections(doc[i].body).events # <<>>}
      place(name) == CHOOSE i \in heard : doc[i].name = name
  IN  [name \in {doc[i].name : i \in heard} |->
         Kept(Sections(doc[place(name)].body).events)]

Required == {"ToUserName", "FromUserName", "CreateTime", "MsgType"}

BadXml == [error |-> "missing"]

ParseInbound(doc) ==
  LET bag == Bag(doc) IN IF Required \subseteq DOMAIN bag THEN bag ELSE BadXml

-----------------------------------------------------------------------------
(* The encrypted envelope.  AES and base64 are left out: the same key      *)
(* undoes what it did.  A byte is a number; the random prefix and the      *)
(* length take one byte each, and a cipher block has Block of them.        *)

Pad(plain) ==
  LET n == Block - (Len(plain) % Block) IN plain \o [i \in 1..n |-> n]

\* encrypt()
Encrypt(rand, xml, appId) == Pad(<<rand, Len(xml)>> \o xml \o appId)

\* Bug: only the last byte of the padding is looked at.
PaddedAtEnd(buf) == buf[Len(buf)] \in 1..Block

\* PKCS7
Padded(buf) ==
  LET n == buf[Len(buf)]
  IN  n \in 1..Block /\ \A i \in (Len(buf) - n + 1)..Len(buf) : buf[i] = n

\* The layout, and the AppID behind the message.
Opens(plain, appId) ==
  /\ Len(plain) >= 2
  /\ 2 + plain[2] <= Len(plain)
  /\ SubSeq(plain, 3 + plain[2], Len(plain)) = appId

\* decrypt(): the XML, or nothing.
Decrypt(buf, appId) ==
  LET plain == SubSeq(buf, 1, Len(buf) - buf[Len(buf)])
      sealed == /\ buf # <<>>
                /\ Len(buf) % Block = 0
                /\ Padded(buf)
                /\ Opens(plain, appId)
  IN  IF sealed THEN {SubSeq(plain, 3, 2 + plain[2])} ELSE {}
=============================================================================
