--------------------------- MODULE ContentLength ---------------------------
(***************************************************************************)
(* http_parse_u64 of http.c, the reader of every Content-Length, one loop  *)
(* iteration per step, in the arithmetic of an unsigned type with greatest *)
(* value Max (UINT64_MAX in the code). The number the digits really denote *)
(* is kept beside it, in unbounded arithmetic, as the reference.           *)
(***************************************************************************)
EXTENDS Integers

CONSTANTS
  Max,         \* UINT64_MAX
  MaxDigits    \* bound: characters of the header value

ASSUME ContentLengthAssumption == Max \in Nat /\ Max >= 9 /\ MaxDigits \in Nat

VARIABLES
  value,       \* the local variable of http_parse_u64
  exact,       \* the number written so far
  read,        \* how many characters have been read
  result       \* "reading", "ok", or why http_parse_u64 returned 1

vars == <<value, exact, read, result>>

Digit == 0 .. 9

Init == value = 0 /\ exact = 0 /\ read = 0 /\ result = "reading"

\* the next character is a digit
Takes(d) ==
  /\ result = "reading" /\ read < MaxDigits
  /\ read' = read + 1
  /\ exact' = exact * 10 + d

\* value * 10u + d, in the width of the type
Shifted(d) == (value * 10 + d) % (Max + 1)

\* Mutant: the test for overflow is left out.
ReadDigitUnchecked(d) ==
  /\ Takes(d)
  /\ value' = Shifted(d) /\ UNCHANGED result

\* the test comes before the multiplication
ReadDigit(d) ==
  /\ Takes(d)
  /\ IF value > (Max - d) \div 10
     THEN result' = "overflow" /\ UNCHANGED value
     ELSE value' = Shifted(d) /\ UNCHANGED result

\* a character that is not a digit
ReadOther ==
  /\ result = "reading" /\ read < MaxDigits
  /\ read' = read + 1 /\ result' = "malformed"
  /\ UNCHANGED <<value, exact>>

\* the terminating NUL; an empty value is refused on entry
ReadEnd ==
  /\ result = "reading"
  /\ result' = IF read = 0 THEN "malformed" ELSE "ok"
  /\ UNCHANGED <<value, exact, read>>

Next == (\E d \in Digit : ReadDigit(d)) \/ ReadOther \/ ReadEnd

Spec == Init /\ [][Next]_vars

-----------------------------------------------------------------------------

\* value stays within its type.
TypeOK ==
  /\ value \in 0 .. Max /\ exact \in Nat /\ read \in Nat
  /\ result \in {"reading", "ok", "overflow", "malformed"}

\* A Content-Length that http_parse_u64 accepts is the number written in the
\* header, never that number reduced by the width of the type.
ParsedIsExact == result = "ok" => value = exact

\* http_parse_u64 reports overflow only for numbers the type cannot hold: the
\* greatest length itself, and every length below it, is read.
OverflowIsReal == result = "overflow" => exact > Max
=============================================================================
