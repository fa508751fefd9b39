--------------------------- MODULE ShellArguments ---------------------------
(***************************************************************************)
(* Integers on the command lines of "cia401" and "cia402": the parser      *)
(* reads a text of any length one character at a time into a register of   *)
(* 64 bits and checks the range its caller allows.  Widths are scaled.     *)
(***************************************************************************)
EXTENDS Integers

CONSTANTS
    Max,       \* UINT64_MAX
    Half,      \* INT32_MAX
    Ranges     \* what callers ask for: records [signed, low, high]

Decimal     == 10
Hexadecimal == 16

ShellArgumentsAssumption ==
    /\ Half \in Nat /\ Max \in Nat /\ Max > Half + 1
    /\ \A r \in Ranges :
          /\ r.signed \in BOOLEAN /\ r.low \in Int /\ r.high \in Int
          /\ IF r.signed THEN r.low >= -Half - 1 /\ r.high <= Half
                         ELSE r.low = 0 /\ r.high <= Max

VARIABLES
    range,      \* what the caller asks for
    at,         \* "sign", "prefix", "digits", "done"
    negative, base, parsed, hasDigit,
    exact,      \* the number the text so far denotes, or Max + 1 if larger
    malformed,  \* the text is not an integer in the caller's notation
    result      \* what the caller gets, or Rejected

vars == <<range, at, negative, base, parsed, hasDigit, exact, malformed, result>>
text == <<range, negative, base, parsed, hasDigit, exact>>

Rejected == Max + 1

Init ==
    /\ range \in Ranges
    /\ at = "sign" /\ negative = FALSE /\ base = Decimal
    /\ parsed = 0 /\ hasDigit = FALSE /\ exact = 0
    /\ malformed = FALSE /\ result = Rejected

Reject == at' = "done" /\ result' = Rejected

Sign ==
    /\ at = "sign"
    /\ IF range.signed THEN at' = "prefix" /\ UNCHANGED <<result, malformed>>
                       ELSE Reject /\ malformed' = TRUE
    /\ negative' \in BOOLEAN
    /\ UNCHANGED <<range, base, parsed, hasDigit, exact>>

Prefix ==
    /\ at \in {"sign", "prefix"}
    /\ base' = Hexadecimal /\ at' = "digits"
    /\ UNCHANGED <<range, negative, parsed, hasDigit, exact, malformed, result>>

(* Would the register overflow?  The second form forgets the digit.        *)
OverflowsLater(digit) == parsed > Max \div base
Overflows(digit)      == parsed > (Max - digit) \div base

Digit(digit) ==
    /\ at # "done" /\ digit < base
    /\ exact' = IF exact * base + digit > Max THEN Max + 1 ELSE exact * base + digit
    /\ IF Overflows(digit)
       THEN Reject /\ UNCHANGED <<parsed, hasDigit>>
       ELSE /\ parsed' = (parsed * base + digit) % (Max + 1)
            /\ hasDigit' = TRUE
            /\ at' = "digits" /\ UNCHANGED result
    /\ UNCHANGED <<range, negative, base, malformed>>

(* A character that is no digit, or no digit of this base                  *)
Stray ==
    /\ at # "done"
    /\ Reject /\ malformed' = TRUE
    /\ UNCHANGED text

(* The end of the text: CO_401_mshParseLong() or, without a sign,          *)
(* CO_401_mshParseUnsignedLong()                                           *)
Signed(magnitude) == IF negative THEN -magnitude ELSE magnitude

LongAccepted     == parsed <= Half + 1 /\ range.low <= Signed(parsed) /\ Signed(parsed) <= range.high
UnsignedAccepted == parsed <= range.high

End ==
    /\ at # "done" /\ at' = "done"
    /\ malformed' = ~hasDigit
    /\ result' = IF hasDigit /\ (IF range.signed THEN LongAccepted ELSE UnsignedAccepted)
                 THEN Signed(parsed) ELSE Rejected
    /\ UNCHANGED text

Next == Sign \/ Prefix \/ Stray \/ End \/ \E digit \in 0 .. Hexadecimal - 1 : Digit(digit)

Spec == Init /\ [][Next]_vars
-----------------------------------------------------------------------------
(* A text is accepted if and only if it is an integer in the range asked   *)
(* for, and then the caller gets that integer: numbers too large for the   *)
(* register are refused and not folded into the range.                     *)
InRange == exact <= Max /\ range.low <= Signed(exact) /\ Signed(exact) <= range.high

ArgumentsAreExact ==
    at = "done" =>
        IF ~malformed /\ InRange THEN result = Signed(exact) ELSE result = Rejected
=============================================================================
