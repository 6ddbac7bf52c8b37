------------------------------ MODULE HttpText ------------------------------
(***************************************************************************)
(* The text functions of http_utils.c.  A string is a sequence of byte     *)
(* values without the NUL that ends it; max is the size of the buffer the  *)
(* result is written to, NUL included.                                     *)
(***************************************************************************)
EXTENDS Naturals, Sequences, FiniteSetsExt

NUL == 0
CR == 13
LF == 10
SPACE == 32
QUOT == 34
PERCENT == 37
AMP == 38
APOS == 39
PLUS == 43
SEMICOLON == 59
LT == 60
EQ == 61
GT == 62

From(s, i) == SubSeq(s, i, Len(s))

\* part occurs in s at i.
At(s, part, i) == i + Len(part) - 1 <= Len(s) /\ SubSeq(s, i, i + Len(part) - 1) = part

\* The first place in s where P holds, 0 if there is none.
FirstPlace(s, P(_)) == LET I == {i \in DOMAIN s : P(i)} IN IF I = {} THEN 0 ELSE Min(I)

Digits == 48..57
xdigits == Digits \cup (65..70) \cup (97..102)

hex_val(c) ==
  CASE c \in Digits -> c - 48 [] c \in 97..102 -> c - 87 [] c \in 65..70 -> c - 55 [] OTHER -> 0

-----------------------------------------------------------------------------
Escaped(s) == Len(s) >= 3 /\ s[1] = PERCENT /\ s[2] \in xdigits /\ s[3] \in xdigits

\* Mutant of UnescapedByte: the two digits are swapped.
UnescapedSwapped(s) == 16 * hex_val(s[3]) + hex_val(s[2])

UnescapedByte(s) == 16 * hex_val(s[2]) + hex_val(s[3])

\* Where url_decode stops: s is what is left of the string.
Stops(s) ==
  s = <<>> \/ Head(s) \in {AMP, SPACE, CR, LF} \/ (Escaped(s) /\ UnescapedByte(s) = NUL)

FieldFull(dest, max) == Len(dest) >= max - 1

\* One round of its loop, or none: how many bytes of src are read, dest so far.
DecodeRound(src, loop, max) ==
  LET s == From(src, loop.read + 1)
  IN  IF Stops(s) \/ FieldFull(loop.dest, max) THEN loop
      ELSE IF Escaped(s)
           THEN [read |-> loop.read + 3, dest |-> Append(loop.dest, UnescapedByte(s))]
      ELSE [read |-> loop.read + 1,
            dest |-> Append(loop.dest, IF Head(s) = PLUS THEN SPACE ELSE Head(s))]

\* Every round reads something, so Len(src) of them are enough.
url_decode(src, max) ==
  LET Loop[i \in 0..Len(src)] ==
        IF i = 0 THEN [read |-> 0, dest |-> <<>>] ELSE DecodeRound(src, Loop[i - 1], max)
  IN  Loop[Len(src)].dest

\* A match counts at the start and after '&' only.
FieldAt(src, name, i) == At(src, name, i) /\ (i = 1 \/ src[i - 1] = AMP)

\* name ends with '='.  No body is the empty string here.
get_field(src, name, max) ==
  LET p == FirstPlace(src, LAMBDA i : FieldAt(src, name, i))
  IN  IF p = 0 THEN <<>> ELSE url_decode(From(src, p + Len(name)), max)

\* Mutant of CookieAt: a name that ends with this one is taken for it.
CookieAtAnyEnd(value, name, i) == At(value, name \o <<EQ>>, i)

CookieAt(value, name, i) ==
  At(value, name \o <<EQ>>, i) /\ (i = 1 \/ value[i - 1] \in {SPACE, SEMICOLON})

\* value is the Cookie header's; url_decode reads on to the CR after it.
http_request_cookie(value, name, max) ==
  LET p == FirstPlace(value, LAMBDA i : CookieAt(value, name, i))
  IN  IF p = 0 THEN <<>>
      ELSE url_decode(From(value, p + Len(name) + 1) \o <<CR, LF>>, max)

-----------------------------------------------------------------------------
\* "&lt;", "&gt;", "&amp;", "&quot;" and "&#39;"; any other byte stays.
Entity(c) ==
  CASE c = LT   -> <<AMP, 108, 116, SEMICOLON>>
    [] c = GT   -> <<AMP, 103, 116, SEMICOLON>>
    [] c = AMP  -> <<AMP, 97, 109, 112, SEMICOLON>>
    [] c = QUOT -> <<AMP, 113, 117, 111, 116, SEMICOLON>>
    [] c = APOS -> <<AMP, 35, 51, 57, SEMICOLON>>
    [] OTHER    -> <<c>>

\* Mutant of Room: the NUL is not counted.
RoomNoNul(i, max) == i + 5 < max

\* There is room for the longest entity and the NUL.
Room(i, max) == i + 7 < max

\* One round of the loop of html_escape, or none.
EscapeRound(dest, c, max) == IF Room(Len(dest), max) THEN dest \o Entity(c) ELSE dest

html_escape(src, max) ==
  LET Dest[i \in 0..Len(src)] ==
        IF i = 0 THEN <<>> ELSE EscapeRound(Dest[i - 1], src[i], max)
  IN  Dest[Len(src)]
=============================================================================
