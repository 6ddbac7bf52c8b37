------------------------------- MODULE MCHttp -------------------------------
(* RequestStream for TLC, with the text functions and the templates checked *)
(* over all short inputs.                                                  *)
EXTENDS RequestStream, SequencesExt

T == INSTANCE Templates

HexDigit(n) == IF n < 10 THEN 48 + n ELSE 55 + n

Unreserved == Digits \cup (65..90) \cup (97..122)

\* A browser's encoding of a form value.
RECURSIVE url_encode(_)
url_encode(s) ==
  IF s = <<>> THEN <<>>
  ELSE (IF Head(s) = SPACE THEN <<PLUS>>
        ELSE IF Head(s) \in Unreserved THEN <<Head(s)>>
        ELSE <<PERCENT, HexDigit(Head(s) \div 16), HexDigit(Head(s) % 16)>>)
       \o url_encode(Tail(s))

\* "ba=" and "a=": one name ends with the other.
FieldNames == <<<<98, 97, EQ>>, <<97, EQ>>>>

\* A form as a browser sends it.
Form(first, second) ==
  FieldNames[1] \o url_encode(first) \o <<AMP>> \o FieldNames[2] \o url_encode(second)

\* "&a=": it has to be escaped, and looks like the other field.
Tricky == <<AMP, 97, EQ>>

\* One client sends forms of several lengths and everything else, the other
\* one form.
OneBusyClient == [c \in Clients |->
  IF c = CHOOSE x \in Clients : TRUE
  THEN {Post(Form(Tricky, <<97>>), TRUE), Post(Form(<<97>>, <<>>), TRUE),
        Post(Form(<<>>, Tricky), FALSE), Post(<<97, EQ, 98, NUL, 99>>, TRUE),
        Plain("get", TRUE), Plain("bad", TRUE), Plain("post", TRUE)}
  ELSE {Post(Form(<<98>>, <<98>>), TRUE)}]

-----------------------------------------------------------------------------
(* Inputs for the text functions and the templates.                        *)

Bytes == {SPACE, PERCENT, AMP, PLUS, EQ, LT, QUOT, 97}
Texts == [kind : {"text"}, text : SeqOf(Bytes, 3)]

\* A cookie's name as short as the argument allows; other cookies, some whose
\* names end with it or whose values contain it.
Sid == <<98, 97>>
Cookies == {<<97, EQ, 99>>, <<99>> \o Sid \o <<EQ, 99, 99>>, <<99, EQ>> \o Sid \o <<EQ, 99>>}
CookieLists == [kind : {"cookies"}, before : SeqOf(Cookies, 2), after : SeqOf(Cookies, 2),
                token : [1..2 -> {97, 98}]]

Sources == [kind : {"source"}, text : SeqOf({"{", "}", "K"}, 6)]

\* What pages are made of; the value of K looks like a placeholder itself.
Text(s) == [page |-> s, shown |-> s, literal |-> TRUE]
Pieces == {Text(<<"x">>), Text(<<"{", "x", "}">>),
           [page |-> <<"{", "{", "K", "}", "}">>,
            shown |-> <<"{", "{", "K", "}", "}">>, literal |-> FALSE],
           [page |-> <<"{", "{", "x", "}", "}">>, shown |-> <<>>, literal |-> FALSE]}
Pages == [kind : {"page"}, pieces : SeqOf(Pieces, 3)]

VARIABLE input  \* what the functions are tried on

None == [kind |-> "none"]

\* An input is tried and put away, while no client has done anything.
Try ==
  /\ Init
  /\ IF input = None THEN input' \in Texts \cup CookieLists \cup Sources \cup Pages
     ELSE input' = None
  /\ UNCHANGED vars

TryInit == Init /\ input = None
TryNext == Try \/ (input = None /\ Next /\ UNCHANGED input)
TrySpec == TryInit /\ [][TryNext]_<<vars, input>>

-----------------------------------------------------------------------------
\* get_field finds either field of a form, whatever the other one contains, and
\* url_decode undoes the encoding of its value, up to the size of the
\* destination.
DecodesEncoded ==
  input.kind = "text" =>
    \A max \in 1..4, other \in {<<>>, Tricky} :
      LET kept == SubSeq(input.text, 1, Min({Len(input.text), max - 1}))
      IN  /\ get_field(Form(input.text, other), FieldNames[1], max) = kept
          /\ get_field(Form(other, input.text), FieldNames[2], max) = kept

Join(cookies) ==
  FoldLeft(LAMBDA text, cookie :
             IF text = <<>> THEN cookie ELSE text \o <<SEMICOLON, SPACE>> \o cookie,
           <<>>, cookies)

\* With a buffer of the token's length and a NUL, the session cookie is read
\* right wherever it stands among other cookies (get_session_user).
SessionCookieRead ==
  input.kind = "cookies" =>
    http_request_cookie(Join(input.before \o <<Sid \o <<EQ>> \o input.token>> \o input.after),
                        Sid, 3) = input.token

\* The character an escaped text starts with.
First(s) ==
  CHOOSE c \in Bytes \cup {GT, APOS} :
    At(s, Entity(c), 1) /\ (s[1] = AMP => Len(Entity(c)) > 1)

RECURSIVE Unescaped(_)
Unescaped(s) ==
  IF s = <<>> THEN <<>>
  ELSE <<First(s)>> \o Unescaped(From(s, Len(Entity(First(s))) + 1))

\* html_escape stays within its buffer, leaves no markup, and cuts the text
\* between characters only, never inside an entity.
EscapeSafe ==
  input.kind = "text" =>
    \A max \in 1..14 :
      LET out == html_escape(input.text, max)
      IN  /\ Len(out) < max
          /\ \A i \in DOMAIN out : out[i] \notin {LT, GT, QUOT, APOS}
          /\ IsPrefix(Unescaped(out), input.text)

\* The array that parse_fragments allocates has room for every fragment it
\* stores, and no more, for any page text, broken placeholders included.
FragmentsCounted ==
  input.kind = "source" =>
    Len(T!parse_fragments(input.text)) = T!fragCount(input.text)

Vars == [key \in {<<"K">>} |-> <<"{", "{", "K", "}", "}">>]

\* What the first n pieces of a page show.
Shown(pieces, n) == FlattenSeq([i \in 1..n |-> pieces[i].shown])

\* Where fragments meet: not between two literals, which are one fragment.
Seams(pieces) ==
  {n \in 0..Len(pieces) :
     ~(n > 0 /\ n < Len(pieces) /\ pieces[n].literal /\ pieces[n + 1].literal)}

\* A page shows its literals and the values of its placeholders, which are
\* not searched for placeholders again; if that does not fit, as many whole
\* fragments as do, and -1.  Nothing is written past the buffer.
RendersRight ==
  input.kind = "page" =>
    LET page == FlattenSeq([i \in DOMAIN input.pieces |-> input.pieces[i].page])
    IN  \A destSize \in 1..12 :
          LET out  == T!tpl_render(T!parse_fragments(page), destSize, Vars)
              fits == {n \in Seams(input.pieces) : Len(Shown(input.pieces, n)) < destSize}
          IN  /\ out.dest = Shown(input.pieces, Max(fits))
              /\ out.ok <=> Len(input.pieces) \in fits
=============================================================================
