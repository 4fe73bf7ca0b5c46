------------------------------ MODULE MCCodec ------------------------------
\* An instance of Codec for TLC.  "z" stands for a character beyond ASCII.
EXTENDS Codec

MCAlphabet ==
  [xml |-> {"a", "]", ">"}, bytes |-> 0..3,
   words |-> {"a", "b", " ", "z"}, json |-> {"a", "{", "}", Quote, Backslash}]

MCMaxLen == [xml |-> 6, bytes |-> 8, words |-> 6, json |-> 4]

MCWords == {<<"a">>, <<"a", "b">>, <<"a", "a">>, <<"z">>, <<"a", "z">>}

\* Two members beside or around an object of one.
MCMaxMembers == [d \in 0..1 |-> d + 1]

MCAppId == <<3, 0>>
=============================================================================
