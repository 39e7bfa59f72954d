------------------------------- MODULE BestMatch -------------------------------
(***************************************************************************)
(* The comparison in Handle_Water (APP/dsp/usr_dsp.c 99-124): half a       *)
(* message is held against the stored watermarks one by one, and stands    *)
(* for the best of them if enough of its bits agree.                       *)
(***************************************************************************)
EXTENDS Integers, SequencesExt

CONSTANTS
  Bits,        \* bits of a watermark and of half a message: 96
  WM_AND_MIN,  \* the bits that must agree: 80
  IndexLimit,  \* GetWM's int8_t index holds -IndexLimit..IndexLimit-1
  NoMatch      \* no watermark agrees in so many

ASSUME ComparisonParameters ==
  /\ Bits \in Nat /\ WM_AND_MIN \in 1 .. Bits /\ IndexLimit \in Nat \ {0}

Pattern == [1 .. Bits -> {0, 1}]

(* Find_Str of the bytes of ~(a ^ b): the bits in which they agree.         *)
Find_Str(a, b) == Cardinality({k \in 1 .. Bits : a[k] = b[k]})

Int8(n) == ((n + IndexLimit) % (2 * IndexLimit)) - IndexLimit

(* GetWM(&t_WMData, i) as the loop uses it: nobody looks at what it         *)
(* returns, and t_WMData stays what it was when the index is refused.       *)
GetWM(marks, i, t_WMData) ==
  IF Int8(i) < 0 THEN t_WMData ELSE marks[Int8(i) + 1]

(* Mutant: a watermark replaces one that agrees in as many bits never. *)
CompareStrictly(best, wm, half) ==
  LET num == Find_Str(half, wm.pattern)
  IN IF num > best.nMaxSim THEN [wm |-> wm, nMaxSim |-> num, id |-> wm.id]
                           ELSE [best EXCEPT !.wm = wm]

(* One turn of the loop. *)
Compare(best, wm, half) ==
  LET num == Find_Str(half, wm.pattern)
  IN IF num >= best.nMaxSim THEN [wm |-> wm, nMaxSim |-> num, id |-> wm.id]
                            ELSE [best EXCEPT !.wm = wm]

(* The loop over WM_Data_Num watermarks: what it has after n turns ...      *)
Turns(marks, half) ==
  LET best[n \in 0 .. Len(marks)] ==
        IF n = 0 THEN [wm |-> marks[1], nMaxSim |-> 0, id |-> 0]
        ELSE LET b == best[n - 1]
             IN Compare(b, GetWM(marks, n - 1, b.wm), half)
  IN best

(* ... and the test against WM_AND_MIN.                                     *)
Match(marks, half) ==
  LET best == Turns(marks, half)[Len(marks)]
  IN IF best.nMaxSim >= WM_AND_MIN THEN best.id ELSE NoMatch

-----------------------------------------------------------------------------
(* What it is for: of the watermarks an int8_t can index, the last of those *)
(* that agree in most bits.                                                 *)
LastOfMostSimilar(marks, half) ==
  LET sim(k) == Find_Str(half, marks[k].pattern)
      Seen   == {k \in DOMAIN marks : k <= IndexLimit}
      Best   == {k \in Seen : \A j \in Seen : sim(j) <= sim(k)}
      latest == CHOOSE k \in Best : \A j \in Best : j <= k
  IN IF \E k \in Seen : sim(k) >= WM_AND_MIN THEN marks[latest].id ELSE NoMatch
=============================================================================
