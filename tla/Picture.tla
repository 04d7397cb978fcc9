------------------------------ MODULE Picture ------------------------------
(***************************************************************************)
(* The colours of the picture: redraw of prga-hw09-main.c, which makes     *)
(* three bytes of each point of the grid, and xwin_redraw of xwin_sdl.c,   *)
(* which puts them on the screen.  One point stands for all.               *)
(***************************************************************************)
EXTENDS Integers

CONSTANTS
  Thresholds,  \* the numbers of iterations at which a point is given up
  Points       \* the numbers of iterations the grid may hold
ASSUME BytesAssumption == Thresholds \subseteq 0 .. 255 /\ Points \subseteq 0 .. 255

VARIABLE out   \* what redraw was given last, and what it made of it

\* The conversions of C: to an int toward zero, to an unsigned char modulo 256.
Trunc(a, d) == IF a < 0 THEN -((-a) \div d) ELSE a \div d
UChar(i)    == i % 256

Black == [c \in {"r", "g", "b"} |-> 0]
NoOut == [n |-> 0, threshold |-> 1, bytes |-> Black]

PictureInit == out = NoOut

\* The three polynomials in t = n / threshold, over a common denominator.
\* Mutant: one t too few in the first.
ColourFlat(n, threshold) ==
  LET s == threshold - n
      d == threshold * threshold * threshold * threshold
  IN  [r |-> Trunc(9 * 255 * s * n * n * threshold, d),
       g |-> Trunc(15 * 255 * s * s * n * n, d),
       b |-> Trunc(17 * 255 * s * s * s * n, 2 * d)]

Colour(n, threshold) ==
  LET s == threshold - n
      d == threshold * threshold * threshold * threshold
  IN  [r |-> Trunc(9 * 255 * s * n * n * n, d),
       g |-> Trunc(15 * 255 * s * s * n * n, d),
       b |-> Trunc(17 * 255 * s * s * s * n, 2 * d)]

\* t is compared with threshold, not with one; with a threshold of zero it is
\* infinite or not a number, and the comparison fails.
redraw(n, threshold) ==
  out' = [n |-> n, threshold |-> threshold,
          bytes |-> IF n < threshold * threshold
                    THEN LET colour == Colour(n, threshold) IN [c \in DOMAIN colour |-> UChar(colour[c])]
                    ELSE Black]

\* The bytes go to the screen, and are of no further use.
xwin_redraw == out' = NoOut

-----------------------------------------------------------------------------
\* A point that left the loop of its iterations at the threshold at the latest
\* (line 102) is drawn in the colour computed, no byte of which is cut, and a
\* point given up at the threshold is black, as is one from the square of the
\* threshold on; between the two the comparison lets in what is no colour, and
\* what is drawn is not what was computed.
ColoursFit ==
  LET n == out.n  threshold == out.threshold
  IN  /\ threshold > 0 /\ n <= threshold => out.bytes = Colour(n, threshold)
      /\ n = threshold \/ n >= threshold * threshold => out.bytes = Black
      /\ threshold < n /\ n < threshold * threshold => out.bytes # Colour(n, threshold)
=============================================================================
