-------------------------------- MODULE Text --------------------------------
(***************************************************************************)
(* The few operations of Go's strings package that the configuration, the *)
(* policy and the APM code decide with.  A text is a sequence of words and *)
(* separators, so that splitting it is visible and its letters are not;   *)
(* the empty string is the empty sequence.                                *)
(* An optional pointer is a sequence too: Nil, or one element.            *)
(***************************************************************************)
EXTENDS Integers, Sequences, FiniteSetsExt, Functions

Texts == Seq(STRING)

Nil == <<>>

Ptr(x) == <<x>>

\* The map f, and what g has besides.
Over(f, g) ==
  [k \in DOMAIN f \cup DOMAIN g |-> IF k \in DOMAIN f THEN f[k] ELSE g[k]]

\* strings.Index(s, sep), or 0.
Index(s, sep) ==
  LET at == {i \in 1 .. Len(s) : s[i] = sep}
  IN  IF at = {} THEN 0 ELSE Min(at)

Contains(s, sep) == \E i \in 1 .. Len(s) : s[i] = sep

Cut(s, sep) ==
  IF Index(s, sep) = 0
  THEN <<s>>
  ELSE <<SubSeq(s, 1, Index(s, sep) - 1), SubSeq(s, Index(s, sep) + 1, Len(s))>>

\* strings.SplitN(s, sep, n): at most n parts, the last one unsplit.  The code
\* asks for two parts or for three.
SplitN(s, sep, n) ==
  IF n = 2 \/ Index(s, sep) = 0
  THEN Cut(s, sep)
  ELSE <<Cut(s, sep)[1]>> \o Cut(Cut(s, sep)[2], sep)
=============================================================================
