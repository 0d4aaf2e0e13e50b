------------------------------ MODULE ClpMath ------------------------------
(***************************************************************************)
(* The arithmetic of x/clp (keeper/calculations.go and the helpers of      *)
(* rewards.go and provider_distribution.go), over whole numbers.           *)
(*                                                                         *)
(* An sdk.Dec is a whole number of its last decimals, of which DecUnit make*)
(* one: 10^18 in the code, where depths go far beyond it.  The instances   *)
(* scale both down together, so that what rounding at the last decimal     *)
(* does to a large pool happens to a small one.  Swaps and adds are        *)
(* computed with big.Rat and big.Int, which are exact.  Swap fees are      *)
(* f / FeeDen and the PMTP running rate is whole: both are exact sdk.Decs. *)
(***************************************************************************)
EXTENDS Integers, Sequences

CONSTANTS
    FeeDen,     \* fee rates are f / FeeDen
    DecUnit     \* sdk.Dec's precision multiplier

ASSUME FeeDenAssumption == FeeDen \in Nat \ {0}
ASSUME DecUnitAssumption == DecUnit \in Nat \ {0}

Least(a, b) == IF a <= b THEN a ELSE b
AbsInt(x) == IF x < 0 THEN -x ELSE x

-----------------------------------------------------------------------------
(* sdk.Dec *)

\* n / d, rounded half to even: chopPrecisionAndRound.
RoundHalfEven(n, d) ==
    LET q == n \div d
        twice == 2 * (n % d)
    IN  IF twice > d \/ (twice = d /\ q % 2 = 1) THEN q + 1 ELSE q

NewDec(n) == n * DecUnit
DecMul(x, y) == RoundHalfEven(x * y, DecUnit)
DecQuo(x, y) == RoundHalfEven((x * DecUnit * DecUnit) \div y, DecUnit)
TruncateInt(x) == x \div DecUnit
RoundInt(x) == RoundHalfEven(x, DecUnit)

\* big.Int.Sqrt, the square root ApproxRatSquareRoot takes.
Isqrt[n \in Nat] ==
    IF n < 2 THEN n
    ELSE LET s == 2 * Isqrt[n \div 4]
         IN  IF (s + 1) * (s + 1) <= n THEN s + 1 ELSE s

-----------------------------------------------------------------------------
(* Swaps *)

\* CalcSwapResult: x in, against depths X (in) and Y (out).
CalcSwapResult(toFury, X, x, Y, rate, fee) ==
    IF X = 0 \/ x = 0 \/ Y = 0 THEN 0
    ELSE LET num == IF toFury THEN x * Y ELSE x * Y * (1 + rate)
             den == IF toFury THEN (X + x) * (1 + rate) ELSE X + x
         IN  num \div den - (num * fee) \div (den * FeeDen)

\* CalculateDiscountedSentAmount
CalculateDiscountedSentAmount(sent, fee) == sent - RoundHalfEven(sent * fee, FeeDen)

-----------------------------------------------------------------------------
(* Withdrawals *)

\* 10000 / wBasisPoints; the models withdraw 10000, 5000 or 2500 points, so the
\* divisor is whole.
WBasisDivisor(wBasisPoints) == 10000 \div wBasisPoints

CalculateWithdrawal(P, native, external, units, wBasisPoints) ==
    LET claim == DecQuo(NewDec(units), NewDec(WBasisDivisor(wBasisPoints)))
        ratio == DecQuo(NewDec(P), claim)
    IN  [native   |-> TruncateInt(DecQuo(NewDec(native), ratio)),
         external |-> TruncateInt(DecQuo(NewDec(external), ratio)),
         left     |-> TruncateInt(NewDec(units) - claim)]

\* Mutant: the ratio is cut to a whole number.
CalculateWithdrawalWhole(P, native, external, units, withdraw) ==
    [native   |-> RoundInt(DecQuo(NewDec(native), NewDec(P \div withdraw))),
     external |-> RoundInt(DecQuo(NewDec(external), NewDec(P \div withdraw))),
     left     |-> units - withdraw]

CalculateWithdrawalFromUnits(P, native, external, units, withdraw) ==
    LET ratio == DecQuo(NewDec(P), NewDec(withdraw))
    IN  [native   |-> RoundInt(DecQuo(NewDec(native), ratio)),
         external |-> RoundInt(DecQuo(NewDec(external), ratio)),
         left     |-> units - withdraw]

ConvWBasisPointsToUnits(total, wBasisPoints) == total \div WBasisDivisor(wBasisPoints)

-----------------------------------------------------------------------------
(* Adds *)

\* What CalculateExternalSwapAmountAsymmetricRat passes to the square root, for
\* depths R, A, amounts r, a, fee f / FeeDen and PMTP rate p (times FeeDen^2).
ExternalRadicand(R, A, r, a, f, p) ==
    LET F == FeeDen
    IN  R * (a + A) *
          ( f * f * (a + A) * R + 2 * f * F * p * R * (a - A) - 4 * f * F * A * (p + 1) * r
            - 4 * f * F * A * R + F * F * p * p * R * (a + A) + 4 * F * F * A * (p + 1) * (r + R) )

CalculateExternalSwapAmountAsymmetric(R, A, r, a, f, p) ==
    LET F    == FeeDen
        root == Isqrt[ExternalRadicand(R, A, r, a, f, p) \div (F * F)]
        top  == F * root + f * R * (a + A)
                  + F * (p * R * (a - A) - 2 * A * (p + 1) * r - 2 * A * R)
    IN  AbsInt(top) \div (2 * F * (p + 1) * (r + R))

\* The linear coefficient (times FeeDen) and the radicand (times FeeDen^2) of
\* CalculateNativeSwapAmountAsymmetricRat.
NativeLinear(R, A, r, a, f, p) ==
    (FeeDen * p - f * (p + 1)) * A * (r + R) + 2 * FeeDen * R * (a + A)

NativeRadicand(R, A, r, a, f, p) ==
    LET w == NativeLinear(R, A, r, a, f, p)
    IN  w * w - 4 * FeeDen * FeeDen * (a + A) * (a * R * R - A * r * R)

\* Mutant: the fee is left out of the linear coefficient.
NativeSwapAmountWithoutFee(R, A, r, a, f, p) ==
    LET top == Isqrt[NativeRadicand(R, A, r, a, f, p) \div (FeeDen * FeeDen)]
                 - (p * A * (r + R) + 2 * R * (a + A))
    IN  AbsInt(top) \div (2 * (a + A))

CalculateNativeSwapAmountAsymmetric(R, A, r, a, f, p) ==
    LET F    == FeeDen
        root == Isqrt[NativeRadicand(R, A, r, a, f, p) \div (F * F)]
        top  == F * root - NativeLinear(R, A, r, a, f, p)
    IN  AbsInt(top) \div (2 * F * (a + A))

GetLiquidityAddSymmetryState(A, a, R, r) ==
    CASE A = 0 \/ R = 0     -> "ErrorEmptyPool"
      [] a = 0 /\ r = 0     -> "ErrorNothingAdded"
      [] a = 0              -> "NeedMoreX"
      [] R * a < r * A      -> "NeedMoreX"
      [] R * a = r * A      -> "Symmetric"
      [] OTHER              -> "NeedMoreY"

\* CalculatePoolUnits: ok is FALSE where it returns an error.
CalculatePoolUnits(P, R, A, r, a, sellFee, buyFee, p) ==
    LET state == GetLiquidityAddSymmetryState(A, a, R, r)
        grown(X, x, status, s) ==
            LET u == (P * x) \div X
            IN  [ok |-> TRUE, pool |-> P + u, lp |-> u, status |-> status, swap |-> s]
    IN  CASE state = "ErrorEmptyPool" ->
               [ok |-> a # 0 /\ r # 0, pool |-> r, lp |-> r, status |-> "NoSwap", swap |-> 0]
          [] state = "ErrorNothingAdded" ->
               [ok |-> TRUE, pool |-> P, lp |-> 0, status |-> "NoSwap", swap |-> 0]
          [] state = "Symmetric" -> grown(R, r, "NoSwap", 0)
          [] state = "NeedMoreX" ->
               LET s == CalculateNativeSwapAmountAsymmetric(R, A, r, a, sellFee, p)
               IN  grown(R + s, r - s, "SellNative", s)
          [] state = "NeedMoreY" ->
               LET s == CalculateExternalSwapAmountAsymmetric(R, A, r, a, buyFee, p)
               IN  grown(A + s, a - s, "BuyNative", s)

=============================================================================
