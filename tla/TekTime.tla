------------------------------- MODULE TekTime -------------------------------
(***************************************************************************)
(* Time and date arithmetic (src/src/teklib/teklib.c: TAddTime to          *)
(* TExtractTime) on 64 bit microseconds, with fewer microseconds to the    *)
(* second, seconds to the day and bits to the integer types than in the C  *)
(* code, but in the same order of size: a difference of two dates, even    *)
(* one taken for unsigned, is a number of days that fits a TINT.  Dates    *)
(* are so far from the ends of the range that no sum of them overflows.    *)
(***************************************************************************)
EXTENDS Integers

CONSTANTS
  Second,     (* microseconds in a second                                  *)
  SecondsPerDay,     (* seconds in a day                                          *)
  Bits,       (* of TTIME, TDATE, TINT64 and TUINT64                       *)
  IntBits     (* of TINT                                                   *)

Day == Second * SecondsPerDay

ASSUME SizeAssumption ==
  /\ Second \in Nat \ {0} /\ SecondsPerDay \in Nat \ {0}
  /\ Bits \in Nat \ {0} /\ IntBits \in Nat \ {0}
  /\ 2^Bits <= Day * 2^(IntBits - 1)

(* A conversion to an unsigned or to a signed integer of w bits. *)
Unsigned(x, w) == x % 2^w
Signed(x, w) ==
  LET u == x % 2^w IN IF u < 2^(w - 1) THEN u ELSE u - 2^w

(* Division and remainder of C, which round to 0. *)
Sign(x) == IF x < 0 THEN -1 ELSE 1
Quot(x, y) == Sign(x) * ((x * Sign(x)) \div y)
Rem(x, y) == x - y * Quot(x, y)

(* Half of the range. *)
Dates == (-(2^(Bits - 2)))..(2^(Bits - 2) - 1)

TAddTime(a, b) == a + b
TSubTime(a, b) == a - b
TCmpTime(a, b) == IF a < b THEN -1 ELSE IF a > b THEN 1 ELSE 0
TAddDate(d, ndays, tm) == Signed(d + ndays * Day + tm, Bits)
TSubDate(d, ndays, tm) == Signed(d - ndays * Day - tm, Bits)

(* Mutant: a signed division. *)
TDiffDateSigned(d1, d2) ==
  LET dd == d1 - d2 IN
  [ndays |-> Signed(Quot(dd, Day), IntBits), tm |-> dd % Day]

(* The difference is unsigned: that of an earlier and a later date is a    *)
(* large number of days.                                                   *)
TDiffDate(d1, d2) ==
  LET dd == Unsigned(d1 - d2, Bits) IN
  [ndays |-> Signed(dd \div Day, IntBits), tm |-> dd % Day]

TCreateTime(d, s, us) == d * Day + s * Second + us

(* With all three parts asked for.  -0x80000000 is unsigned in C, and no   *)
(* x is both at least that and at most 0x7fffffff: success is never TRUE.  *)
TExtractTime(t) ==
  LET seconds == Quot(t, Second)
      days    == Quot(seconds, SecondsPerDay) IN
  [us |-> Rem(t, Second), s |-> Rem(seconds, SecondsPerDay),
   d |-> Signed(days, IntBits),
   success |-> days >= 2^(IntBits - 1) /\ days <= 2^(IntBits - 1) - 1]

-----------------------------------------------------------------------------
(* Times and dates can be taken apart and put together: the difference of  *)
(* two dates, added to one and subtracted from the other, makes the other, *)
(* whichever is the later one; times before 0 are composed of the parts    *)
(* they are extracted to, all of the same sign.                            *)
Compose(date1, date2) ==
  LET diff == TDiffDate(date1, date2)
      parts == TExtractTime(date1)
      sum  == TAddTime(date1, date2)
  IN /\ TAddDate(date2, diff.ndays, diff.tm) = date1
     /\ TSubDate(date1, diff.ndays, diff.tm) = date2
     /\ date1 >= date2 =>
          diff.ndays >= 0 /\ TCmpTime(TSubTime(diff.tm, Day), 0) = -1
     /\ TCreateTime(parts.d, parts.s, parts.us) = date1
     /\ \A x \in {parts.d, parts.s, parts.us} : x # 0 => Sign(x) = Sign(date1)
     /\ TSubTime(sum, date2) = date1
=============================================================================
