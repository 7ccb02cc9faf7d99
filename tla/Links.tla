-------------------------------- MODULE Links --------------------------------
(***************************************************************************)
(* What `inspect` (telegram/extract.rs) takes for a link in a message.     *)
(*                                                                         *)
(* A text is a sequence of pieces: words, made of the characters of `idc`, *)
(* and marks, made of others.  No piece but "t" has the letter t, so the   *)
(* code's matches of 't' are the pieces "t".  What stands around a name is *)
(* compared letter by letter; the names themselves, as UniCase, are not.   *)
(***************************************************************************)
EXTENDS Integers, Sequences, FiniteSets

Words == {"t", "elegram", "elesco", "g", "join", "cha", "me", "dev", "dog",
          "pe", "invi", "e", "alice", "bob", "T", "ME", "Join", "Alice"}
Marks == {".", "/", "://", "?", "=", "+", " ", "emoji"}
Text == Seq(Words \cup Marks)

\* The words with capitals, in lower case.
LowerCase == [T |-> "t", ME |-> "me", Join |-> "join", Alice |-> "alice"]
Lower(c) == IF c \in DOMAIN LowerCase THEN LowerCase[c] ELSE c

\* UniCase: a name stands for all its spellings.
Folded(s) == [k \in DOMAIN s |-> Lower(s[k])]

From(s, i) == SubSeq(s, i, Len(s))

StartsWith(s, p) == Len(p) <= Len(s) /\ SubSeq(s, 1, Len(p)) = p
Strip(s, p) == IF StartsWith(s, p) THEN From(s, Len(p) + 1) ELSE s

Tails == {"elegram", "elesco", "g"}
Domains == {<<".", d, "/">> : d \in {"me", "dev", "dog", "pe"}}
TgJoin == <<"g", "://", "join">>
JoinChat == <<"join", "cha", "t">>

\* Mutant: joinchat is taken for a name.
AfterHead_JoinChat(s) ==
  IF StartsWith(s, TgJoin) THEN {From(s, 4)}
  ELSE LET rest == IF s # <<>> /\ s[1] \in Tails THEN Tail(s) ELSE s
       IN  {From(rest, 4) : d \in {d \in Domains : StartsWith(rest, d)}}

\* What follows the head of a link, for the text s behind a 't'; nothing when
\* there is no link ('continue 'fo').
AfterHead(s) ==
  IF StartsWith(s, TgJoin) THEN {From(s, 4)}
  ELSE LET rest == IF s # <<>> /\ s[1] \in Tails THEN Tail(s) ELSE s
       IN  {Strip(From(rest, 4), JoinChat) :
             d \in {d \in Domains : StartsWith(rest, d)}}

\* The bytes of s before position i, where all pieces are marks; "://" has 3
\* of them and an emoji 4.
Offset(s, i) ==
  LET Wide(k) == Cardinality({j \in 1..i - 1 : s[j] = k})
  IN  i - 1 + 2 * Wide("://") + 3 * Wide("emoji")

\* suffix[..8.min(suffix.len())]
InWindow(s, i) == Offset(s, i) < 8

\* s[i..j] is a whole run of words.
IsRun(s, i, j) ==
  /\ i <= j /\ j <= Len(s)
  /\ \A k \in i..j : s[k] \in Words
  /\ j = Len(s) \/ s[j + 1] \in Marks

Spans(s) == (1..Len(s)) \X (1..Len(s))

\* The name behind a head: the first run of words, if it begins in the window.
NameIn(s) ==
  {SubSeq(s, r[1], r[2]) : r \in
    {r \in Spans(s) : /\ IsRun(s, r[1], r[2])
                      /\ \A k \in 1..r[1] - 1 : s[k] \in Marks
                      /\ InWindow(s, r[1])}}

\* text.match_indices('t')
Matches(text) == {i \in DOMAIN text : text[i] = "t"}

\* The names that inspect takes from a message, as they are spelled there.
Taken(text) ==
  UNION {UNION {NameIn(s) : s \in AfterHead(From(text, i + 1))} :
           i \in Matches(text)}

Found(text) == {Folded(n) : n \in Taken(text)}

-----------------------------------------------------------------------------
(* A reference definition: links as they are written.                      *)

At(text, i, p) == StartsWith(From(text, i), p)

Hosts == {<<"t">>} \cup {<<"t", h>> : h \in Tails}
Heads == {h \o d : h \in Hosts, d \in Domains}

\* The names of t.me/NAME, t.me/+HASH and t.me/joinchat/HASH, in all domains, where
\* all but the name is in lower case, as Telegram writes it, and the name does not
\* begin with joinchat: the code does not see T.me and t.ME, takes the word behind
\* t.me in t.me/Joinchat/HASH for a name, and joinchat off one that begins with it.
AsWritten(text) ==
  {SubSeq(text, r[1], r[2]) : r \in
    {r \in Spans(text) :
       /\ IsRun(text, r[1], r[2])
       /\ \E h \in Heads, f \in {<<>>, <<"+">>, JoinChat \o <<"/">>} :
            LET k == r[1] - Len(h \o f)
            IN  /\ k >= 1
                /\ At(text, k, h \o f)
                /\ f = <<>> => ~At(text, r[1], JoinChat)}}

Meant(text) == {Folded(n) : n \in AsWritten(text)}

\* A run that ends where name does, and has the head of a link less than eight
\* bytes before, or before joinchat.
Named(text, name) ==
  \E h \in Heads \cup {<<"t">> \o TgJoin} :
    \E k \in DOMAIN text :
      /\ At(text, k, h)
      /\ \E i \in (k + Len(h))..Len(text) :
           /\ At(Folded(text), i, name)
           /\ LET gap == Strip(SubSeq(text, k + Len(h), i - 1), JoinChat)
              IN  /\ \A j \in DOMAIN gap : gap[j] \in Marks
                  /\ Offset(gap, Len(gap) + 1) < 8
           /\ i + Len(name) > Len(text) \/ text[i + Len(name)] \in Marks
=============================================================================
