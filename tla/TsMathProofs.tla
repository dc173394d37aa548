---------------------------- MODULE TsMathProofs ----------------------------
(***************************************************************************)
(* Facts about the arithmetic of timestamps, for every resolution and every *)
(* width of the seconds.                                                    *)
(***************************************************************************)
EXTENDS TsMath, TLAPS

\* Timestamps whose fields are any integers.
AnyTs == [seconds : Int, coarse : Int, frac : Int]

\* The fields of a timestamp put together.
LEMMA TsFields ==
  ASSUME NEW s, NEW c, NEW f
  PROVE  Ts(s, c, f).seconds = s /\ Ts(s, c, f).coarse = c /\ Ts(s, c, f).frac = f
  BY DEF Ts

\* Fields in their ranges make a normalized timestamp.
LEMMA TsIsTime ==
  ASSUME NEW s \in 0 .. Era - 1, NEW c \in 0 .. Coarse - 1, NEW f \in 0 .. Frac - 1
  PROVE  Ts(s, c, f) \in Time
  BY DEF Ts, Time

\* The fields of a normalized timestamp are in their ranges.
LEMMA TimeFields ==
  ASSUME NEW a \in Time
  PROVE  /\ a.seconds \in 0 .. Era - 1 /\ a.coarse \in 0 .. Coarse - 1 /\ a.frac \in 0 .. Frac - 1
         /\ a = Ts(a.seconds, a.coarse, a.frac)
  BY DEF Ts, Time

\* ft_ts_add and ft_ts_sub keep timestamps normalized.
THEOREM AddIsNormal ==
  ASSUME NEW a \in Time, NEW b \in Time
  PROVE  Add(a, b) \in Time
  <1> DEFINE f == a.frac + b.frac
             c == a.coarse + b.coarse + (IF f >= Frac THEN 1 ELSE 0)
             s == a.seconds + b.seconds + (IF c >= Coarse THEN 1 ELSE 0)
  <1>1. a.seconds \in 0 .. Era - 1 /\ a.coarse \in 0 .. Coarse - 1 /\ a.frac \in 0 .. Frac - 1
    BY TimeFields
  <1>2. b.seconds \in 0 .. Era - 1 /\ b.coarse \in 0 .. Coarse - 1 /\ b.frac \in 0 .. Frac - 1
    BY TimeFields
  <1>3. f \in 0 .. 2 * Frac - 2
    BY <1>1, <1>2, TsConstants
  <1>4. c \in 0 .. 2 * Coarse - 1
    BY <1>1, <1>2, TsConstants
  <1>5. s \in 0 .. 2 * Era - 1
    BY <1>1, <1>2, TsConstants
  <1> HIDE DEF f, c, s
  <1>6. (IF f >= Frac THEN f - Frac ELSE f) \in 0 .. Frac - 1
    BY <1>3, TsConstants
  <1>7. (IF c >= Coarse THEN c - Coarse ELSE c) \in 0 .. Coarse - 1
    BY <1>4, TsConstants
  <1>8. Wrap(s) \in 0 .. Era - 1
    BY <1>5, TsConstants DEF Wrap
  <1>9. Add(a, b) = Ts(Wrap(s), IF c >= Coarse THEN c - Coarse ELSE c, IF f >= Frac THEN f - Frac ELSE f)
    BY DEF Add, f, c, s
  <1> QED BY <1>6, <1>7, <1>8, <1>9, TsIsTime

\* ft_ts_sub of two normalized timestamps is normalized: it borrows at most once per field.
THEOREM SubIsNormal ==
  ASSUME NEW a \in Time, NEW b \in Time
  PROVE  Sub(a, b) \in Time
  <1> DEFINE f == a.frac - b.frac
             c == a.coarse - b.coarse - (IF f < 0 THEN 1 ELSE 0)
             s == a.seconds - b.seconds - (IF c < 0 THEN 1 ELSE 0)
  <1>1. a.seconds \in 0 .. Era - 1 /\ a.coarse \in 0 .. Coarse - 1 /\ a.frac \in 0 .. Frac - 1
    BY TimeFields
  <1>2. b.seconds \in 0 .. Era - 1 /\ b.coarse \in 0 .. Coarse - 1 /\ b.frac \in 0 .. Frac - 1
    BY TimeFields
  <1>3. f \in 1 - Frac .. Frac - 1
    BY <1>1, <1>2, TsConstants
  <1>4. c \in -Coarse .. Coarse - 1
    BY <1>1, <1>2, TsConstants
  <1>5. s \in -Era .. Era - 1
    BY <1>1, <1>2, TsConstants
  <1> HIDE DEF f, c, s
  <1>6. (IF f < 0 THEN f + Frac ELSE f) \in 0 .. Frac - 1
    BY <1>3, TsConstants
  <1>7. (IF c < 0 THEN c + Coarse ELSE c) \in 0 .. Coarse - 1
    BY <1>4, TsConstants
  <1>8. Wrap(s) \in 0 .. Era - 1
    BY <1>5, TsConstants DEF Wrap
  <1>9. Sub(a, b) = Ts(Wrap(s), IF c < 0 THEN c + Coarse ELSE c, IF f < 0 THEN f + Frac ELSE f)
    BY DEF Sub, f, c, s
  <1> QED BY <1>6, <1>7, <1>8, <1>9, TsIsTime

\* ft_ts_sub undoes ft_ts_add: no carry or borrow is lost, whatever wraps.
THEOREM SubUndoesAdd ==
  ASSUME NEW a \in Time, NEW b \in Time
  PROVE  Sub(Add(a, b), b) = a
  <1> DEFINE f == a.frac + b.frac
             k == IF f >= Frac THEN 1 ELSE 0
             c == a.coarse + b.coarse + k
             l == IF c >= Coarse THEN 1 ELSE 0
             s == a.seconds + b.seconds + l
             rf == IF f >= Frac THEN f - Frac ELSE f
             rc == IF c >= Coarse THEN c - Coarse ELSE c
             df == rf - b.frac
             dc == rc - b.coarse - (IF df < 0 THEN 1 ELSE 0)
             ds == Wrap(s) - b.seconds - (IF dc < 0 THEN 1 ELSE 0)
  <1>1. a.seconds \in 0 .. Era - 1 /\ a.coarse \in 0 .. Coarse - 1 /\ a.frac \in 0 .. Frac - 1
        /\ a = Ts(a.seconds, a.coarse, a.frac)
    BY TimeFields
  <1>2. b.seconds \in 0 .. Era - 1 /\ b.coarse \in 0 .. Coarse - 1 /\ b.frac \in 0 .. Frac - 1
    BY TimeFields
  <1>3. Add(a, b) = Ts(Wrap(s), rc, rf)
    BY DEF Add
  <1>4. Sub(Add(a, b), b) = Ts(Wrap(ds), IF dc < 0 THEN dc + Coarse ELSE dc,
                               IF df < 0 THEN df + Frac ELSE df)
    BY <1>3, TsFields DEF Sub
  <1>5. df = a.frac - k * Frac /\ (df < 0 <=> k = 1)
    BY <1>1, <1>2, TsConstants
  <1>6. (IF df < 0 THEN df + Frac ELSE df) = a.frac /\ (IF df < 0 THEN 1 ELSE 0) = k
    BY <1>1, <1>2, TsConstants
  <1>7. k \in {0, 1}
    OBVIOUS
  <1> HIDE DEF f, k, df
  <1>8. dc = a.coarse - l * Coarse /\ (dc < 0 <=> l = 1)
    BY <1>1, <1>2, <1>6, <1>7, TsConstants
  <1>9. (IF dc < 0 THEN dc + Coarse ELSE dc) = a.coarse /\ (IF dc < 0 THEN 1 ELSE 0) = l
    BY <1>1, <1>2, <1>6, <1>7, TsConstants
  <1>10. l \in {0, 1}
    OBVIOUS
  <1> HIDE DEF c, l, dc, rc
  <1>11. Wrap(ds) = a.seconds
    BY <1>1, <1>2, <1>9, <1>10, TsConstants DEF Wrap
  <1> QED BY <1>1, <1>4, <1>6, <1>9, <1>11

\* ft_ts_add undoes ft_ts_sub.
THEOREM AddUndoesSub ==
  ASSUME NEW a \in Time, NEW b \in Time
  PROVE  Add(Sub(a, b), b) = a
  <1> DEFINE f == a.frac - b.frac
             k == IF f < 0 THEN 1 ELSE 0
             c == a.coarse - b.coarse - k
             l == IF c < 0 THEN 1 ELSE 0
             s == a.seconds - b.seconds - l
             rf == IF f < 0 THEN f + Frac ELSE f
             rc == IF c < 0 THEN c + Coarse ELSE c
             df == rf + b.frac
             dc == rc + b.coarse + (IF df >= Frac THEN 1 ELSE 0)
             ds == Wrap(s) + b.seconds + (IF dc >= Coarse THEN 1 ELSE 0)
  <1>1. a.seconds \in 0 .. Era - 1 /\ a.coarse \in 0 .. Coarse - 1 /\ a.frac \in 0 .. Frac - 1
        /\ a = Ts(a.seconds, a.coarse, a.frac)
    BY TimeFields
  <1>2. b.seconds \in 0 .. Era - 1 /\ b.coarse \in 0 .. Coarse - 1 /\ b.frac \in 0 .. Frac - 1
    BY TimeFields
  <1>3. Sub(a, b) = Ts(Wrap(s), rc, rf)
    BY DEF Sub
  <1>4. Add(Sub(a, b), b) = Ts(Wrap(ds), IF dc >= Coarse THEN dc - Coarse ELSE dc,
                               IF df >= Frac THEN df - Frac ELSE df)
    BY <1>3, TsFields DEF Add
  <1>6. (IF df >= Frac THEN df - Frac ELSE df) = a.frac /\ (IF df >= Frac THEN 1 ELSE 0) = k
    BY <1>1, <1>2, TsConstants
  <1>7. k \in {0, 1}
    OBVIOUS
  <1> HIDE DEF f, k, df
  <1>9. (IF dc >= Coarse THEN dc - Coarse ELSE dc) = a.coarse
        /\ (IF dc >= Coarse THEN 1 ELSE 0) = l
    BY <1>1, <1>2, <1>6, <1>7, TsConstants
  <1>10. l \in {0, 1}
    OBVIOUS
  <1> HIDE DEF c, l, dc, rc
  <1>11. Wrap(ds) = a.seconds
    BY <1>1, <1>2, <1>9, <1>10, TsConstants DEF Wrap
  <1> QED BY <1>1, <1>4, <1>6, <1>9, <1>11

-----------------------------------------------------------------------------
\* The library, which has 64 bits for the seconds.

LibTime == [seconds : Nat, coarse : 0 .. Coarse - 1, frac : 0 .. Frac - 1]

\* The fields of a timestamp of the library are in their ranges.
LEMMA LibTimeFields ==
  ASSUME NEW a \in LibTime
  PROVE  a.seconds \in Nat /\ a.coarse \in 0 .. Coarse - 1 /\ a.frac \in 0 .. Frac - 1
  BY DEF LibTime

\* fmctdc_ts_sub returns the distance of two timestamps, whichever is the later
\* one, as long as they are less than half an era apart.
THEOREM LibSubIsDistance ==
  ASSUME NEW a \in LibTime, NEW b \in LibTime,
         Earlier(b, a), 2 * (a.seconds - b.seconds) < Era
  PROVE  /\ LibSub(a, b) \in LibTime
         /\ LibAdd(b, LibSub(a, b)) = a
         /\ LibSub(b, a) = LibSub(a, b)
  <1> DEFINE f == a.frac - b.frac
             k == IF f < 0 THEN 1 ELSE 0
             c == a.coarse - b.coarse - k
             l == IF c < 0 THEN 1 ELSE 0
             d == a.seconds - b.seconds - l
             rf == IF f < 0 THEN f + Frac ELSE f
             rc == IF c < 0 THEN c + Coarse ELSE c
             af == b.frac + rf
             ac == b.coarse + rc + (IF af >= Frac THEN 1 ELSE 0)
  <1>1. a.seconds \in Nat /\ a.coarse \in 0 .. Coarse - 1 /\ a.frac \in 0 .. Frac - 1
    BY LibTimeFields
  <1>2. b.seconds \in Nat /\ b.coarse \in 0 .. Coarse - 1 /\ b.frac \in 0 .. Frac - 1
    BY LibTimeFields
  <1>3. ~Earlier(a, b)
    BY <1>1, <1>2 DEF Earlier
  <1>4. LibSub(a, b) = LibDiff(a, b) /\ LibSub(b, a) = LibDiff(a, b)
    BY <1>3 DEF LibSub
  <1>5. d \in Nat
    BY <1>1, <1>2, TsConstants DEF Earlier
  <1>6. Int32(d) = d
    <2>1. 2 * d < Era
      BY <1>1, <1>2, TsConstants
    <2> HIDE DEF d
    <2> QED BY <2>1 DEF Int32
  <1>7. LibDiff(a, b) = Ts(d, rc, rf)
    <2>1. LibDiff(a, b) = Ts(Int32(d), rc, rf)
      BY DEF LibDiff
    <2> HIDE DEF d, rc, rf
    <2> QED BY <2>1, <1>6
  <1>8. rf \in 0 .. Frac - 1 /\ rc \in 0 .. Coarse - 1
    BY <1>1, <1>2, TsConstants
  <1>9. LibDiff(a, b) \in LibTime
    <2> HIDE DEF d, rc, rf
    <2> QED BY <1>5, <1>7, <1>8 DEF LibTime, Ts
  <1>10. (IF af >= Frac THEN af - Frac ELSE af) = a.frac /\ (IF af >= Frac THEN 1 ELSE 0) = k
    BY <1>1, <1>2, TsConstants
  <1>11. k \in {0, 1}
    OBVIOUS
  <1>12. LibAdd(b, Ts(d, rc, rf)) =
           Ts(b.seconds + d + (IF ac >= Coarse THEN 1 ELSE 0),
              IF ac >= Coarse THEN ac - Coarse ELSE ac, IF af >= Frac THEN af - Frac ELSE af)
    <2> HIDE DEF d, rc, rf
    <2> QED BY TsFields DEF LibAdd
  <1>13. (IF ac >= Coarse THEN ac - Coarse ELSE ac) = a.coarse
         /\ (IF ac >= Coarse THEN 1 ELSE 0) = l
    <2> HIDE DEF f, k, af
    <2> QED BY <1>1, <1>2, <1>10, <1>11, TsConstants
  <1>14. b.seconds + d + (IF ac >= Coarse THEN 1 ELSE 0) = a.seconds
    <2>1. l \in {0, 1}
      OBVIOUS
    <2> HIDE DEF f, k, c, l, rf, rc, af, ac
    <2> QED BY <1>1, <1>2, <1>13, <2>1
  <1>15. a = Ts(a.seconds, a.coarse, a.frac)
    BY DEF Ts, LibTime
  <1> HIDE DEF f, k, c, l, d, rf, rc, af, ac
  <1>16. LibAdd(b, LibDiff(a, b)) = a
    BY <1>7, <1>10, <1>12, <1>13, <1>14, <1>15
  <1> QED BY <1>4, <1>9, <1>16

\* fmctdc_ts_norm returns a normalized timestamp.
THEOREM NormIsNormal ==
  ASSUME NEW a \in [seconds : Nat, coarse : Nat, frac : Nat]
  PROVE  Norm(a) \in LibTime
  <1>1. a.seconds \in Nat /\ a.coarse \in Nat /\ a.frac \in Nat
    OBVIOUS
  <1>2. a.frac \div Frac \in Nat /\ a.frac % Frac \in 0 .. Frac - 1
    BY <1>1, TsConstants
  <1> DEFINE c == a.coarse + a.frac \div Frac
  <1>3. c \in Nat
    BY <1>1, <1>2
  <1> HIDE DEF c
  <1>4. c \div Coarse \in Nat /\ c % Coarse \in 0 .. Coarse - 1
    BY <1>3, TsConstants
  <1>5. Norm(a) = Ts(a.seconds + c \div Coarse, c % Coarse, a.frac % Frac)
    BY DEF Norm, c
  <1> QED BY <1>1, <1>2, <1>4, <1>5 DEF Ts, LibTime
=============================================================================
