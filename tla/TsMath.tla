------------------------------- MODULE TsMath -------------------------------
(***************************************************************************)
(* The arithmetic of timestamps: ft-time.c in the driver and               *)
(* fmctdc-lib-math.c in the library.  A timestamp counts seconds, ticks of  *)
(* 8 ns within the second and fractions of a tick.                          *)
(***************************************************************************)
EXTENDS Integers

CONSTANTS Frac,    \* fractions in a tick: 4096
          Coarse,  \* ticks in a second: 125000000
          Picos,   \* picoseconds in a tick: 8000
          Era      \* seconds the 32-bit counter can tell apart: 2^32

ASSUME TsConstants ==
  /\ Frac \in Nat \ {0} /\ Coarse \in Nat \ {0, 1}
  /\ Picos \in Nat \ {0} /\ Era \in Nat \ {0, 1}

\* Normalized timestamps.
Time == [seconds : 0 .. Era - 1, coarse : 0 .. Coarse - 1, frac : 0 .. Frac - 1]
Ts(s, c, f) == [seconds |-> s, coarse |-> c, frac |-> f]
Zero == Ts(0, 0, 0)

\* seconds is a uint32_t: sums and differences of two of them wrap at most once.
Wrap(s) == IF s < 0 THEN s + Era ELSE IF s >= Era THEN s - Era ELSE s

FromPicos(p) == Ts(0, p \div Picos, ((p % Picos) * Frac) \div Picos)

\* The mutated form of Add carries one fraction too late.
AddMut(a, b) ==
  LET f == a.frac + b.frac
      c == a.coarse + b.coarse + (IF f > Frac THEN 1 ELSE 0)
      s == a.seconds + b.seconds + (IF c >= Coarse THEN 1 ELSE 0)
  IN  Ts(Wrap(s), IF c >= Coarse THEN c - Coarse ELSE c,
         IF f > Frac THEN f - Frac ELSE f)
Add(a, b) ==
  LET f == a.frac + b.frac
      c == a.coarse + b.coarse + (IF f >= Frac THEN 1 ELSE 0)
      s == a.seconds + b.seconds + (IF c >= Coarse THEN 1 ELSE 0)
  IN  Ts(Wrap(s), IF c >= Coarse THEN c - Coarse ELSE c,
         IF f >= Frac THEN f - Frac ELSE f)

Sub(a, b) ==
  LET f == a.frac - b.frac
      c == a.coarse - b.coarse - (IF f < 0 THEN 1 ELSE 0)
      s == a.seconds - b.seconds - (IF c < 0 THEN 1 ELSE 0)
  IN  Ts(Wrap(s), IF c < 0 THEN c + Coarse ELSE c, IF f < 0 THEN f + Frac ELSE f)

ApplyOffset(t, p) == IF p < 0 THEN Sub(t, FromPicos(-p)) ELSE Add(t, FromPicos(p))

-----------------------------------------------------------------------------
\* The library: seconds has 64 bits there, a difference of seconds goes
\* through an int32_t.
Earlier(a, b) ==
  \/ a.seconds < b.seconds
  \/ a.seconds = b.seconds /\ a.coarse < b.coarse
  \/ a.seconds = b.seconds /\ a.coarse = b.coarse /\ a.frac < b.frac

Int32(d) == IF 2 * d < Era THEN d ELSE d - Era

LibDiff(a, b) ==
  LET f == a.frac - b.frac
      c == a.coarse - b.coarse - (IF f < 0 THEN 1 ELSE 0)
  IN  Ts(Int32(a.seconds - b.seconds - (IF c < 0 THEN 1 ELSE 0)),
         IF c < 0 THEN c + Coarse ELSE c, IF f < 0 THEN f + Frac ELSE f)

LibSub(a, b) == IF Earlier(a, b) THEN LibDiff(b, a) ELSE LibDiff(a, b)

LibAdd(a, b) ==
  LET f == a.frac + b.frac
      c == a.coarse + b.coarse + (IF f >= Frac THEN 1 ELSE 0)
  IN  Ts(a.seconds + b.seconds + (IF c >= Coarse THEN 1 ELSE 0),
         IF c >= Coarse THEN c - Coarse ELSE c, IF f >= Frac THEN f - Frac ELSE f)

Norm(a) ==
  LET c == a.coarse + a.frac \div Frac
  IN  Ts(a.seconds + c \div Coarse, c % Coarse, a.frac % Frac)
=============================================================================
