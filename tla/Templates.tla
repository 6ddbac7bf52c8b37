----------------------------- MODULE Templates -----------------------------
(***************************************************************************)
(* template.c: a page is split once into literals and {{KEY}} placeholders *)
(* and rendered from the fragments for every request.  A text is a         *)
(* sequence of characters; a position counts from 1 and End(src) is the    *)
(* one behind the last.                                                    *)
(***************************************************************************)
EXTENDS Naturals, Sequences, FiniteSetsExt

OPEN == "{"
CLOSE == "}"

End(src) == Len(src) + 1

\* The first place from cur on where c stands twice, or none.
Doubled(src, c, cur, none) ==
  LET I == {i \in cur..(Len(src) - 1) : src[i] = c /\ src[i + 1] = c}
  IN  IF I = {} THEN none ELSE Min(I)

\* 0 stands for NULL.
find_open(src, cur) == Doubled(src, OPEN, cur, 0)

find_close(src, cur) == Doubled(src, CLOSE, cur, End(src))

\* Where the scan goes on after a placeholder whose key ends before ke.
After(src, ke) == IF ke < End(src) THEN ke + 2 ELSE End(src)

\* Mutant of CountRound: a placeholder is counted only where it is closed.
CountRoundClosed(src, loop) ==
  LET open == find_open(src, loop.cur)
      ke   == find_close(src, open + 2)
  IN  IF loop.cur >= End(src) THEN loop
      ELSE IF open = 0 THEN [cur |-> End(src), count |-> loop.count + 1]
      ELSE [cur |-> After(src, ke),
            count |-> loop.count + (IF open > loop.cur THEN 1 ELSE 0)
                                 + (IF ke < End(src) THEN 1 ELSE 0)]

\* One round of the first pass of parse_fragments, which sizes the array; none
\* at the end.
CountRound(src, loop) ==
  LET open == find_open(src, loop.cur)
  IN  IF loop.cur >= End(src) THEN loop
      ELSE IF open = 0 THEN [cur |-> End(src), count |-> loop.count + 1]
      ELSE [cur |-> After(src, find_close(src, open + 2)),
            count |-> loop.count + (IF open > loop.cur THEN 2 ELSE 1)]

\* Every round reads something, so Len(src) of them are enough.
fragCount(src) ==
  LET Loop[i \in 0..Len(src)] ==
        IF i = 0 THEN [cur |-> 1, count |-> 0] ELSE CountRound(src, Loop[i - 1])
  IN  Loop[Len(src)].count

Literal(text) == [type |-> "literal", text |-> text]
Variable(key) == [type |-> "variable", text |-> key]

\* One round of the second pass, which fills it.
FillRound(src, loop) ==
  LET open == find_open(src, loop.cur)
      ke   == find_close(src, open + 2)
      literal  == Literal(SubSeq(src, loop.cur, open - 1))
      variable == Variable(SubSeq(src, open + 2, ke - 1))
  IN  IF loop.cur >= End(src) THEN loop
      ELSE IF open = 0
           THEN [cur |-> End(src),
                 fragments |-> Append(loop.fragments, Literal(SubSeq(src, loop.cur, Len(src))))]
      ELSE [cur |-> After(src, ke),
            fragments |-> loop.fragments \o (IF open > loop.cur THEN <<literal, variable>>
                                             ELSE <<variable>>)]

parse_fragments(src) ==
  LET Loop[i \in 0..Len(src)] ==
        IF i = 0 THEN [cur |-> 1, fragments |-> <<>>] ELSE FillRound(src, Loop[i - 1])
  IN  Loop[Len(src)].fragments

\* vars: key -> value; an unknown key has the empty value.
lookup(key, vars) == IF key \in DOMAIN vars THEN vars[key] ELSE <<>>

\* Mutant of Fits: the NUL is forgotten.
FitsNoNul(written, len, destSize) == written + len <= destSize

Fits(written, len, destSize) == written + len + 1 <= destSize

Data(fragment, vars) ==
  IF fragment.type = "literal" THEN fragment.text ELSE lookup(fragment.text, vars)

\* Mutant of RenderRound: what does not fit is copied up to the end.
RenderRoundCuts(loop, data, destSize) ==
  IF loop.ok /\ Fits(Len(loop.dest), Len(data), destSize)
  THEN [ok |-> TRUE, dest |-> loop.dest \o data]
  ELSE [ok |-> FALSE, dest |-> SubSeq(loop.dest \o data, 1, destSize - 1)]

\* One round of the loop of tpl_render, or none; ok is false for a return of -1.
RenderRound(loop, data, destSize) ==
  IF loop.ok /\ Fits(Len(loop.dest), Len(data), destSize)
  THEN [ok |-> TRUE, dest |-> loop.dest \o data]
  ELSE [ok |-> FALSE, dest |-> loop.dest]

tpl_render(fragments, destSize, vars) ==
  LET Loop[i \in 0..Len(fragments)] ==
        IF i = 0 THEN [ok |-> TRUE, dest |-> <<>>]
        ELSE RenderRound(Loop[i - 1], Data(fragments[i], vars), destSize)
  IN  Loop[Len(fragments)]
=============================================================================
