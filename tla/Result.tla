------------------------------- MODULE Result -------------------------------
(***************************************************************************)
(* What is stored of an answer: classify_result(). An answer is trimmed    *)
(* and taken for a decimal number, for Cacti's "name:value" fields, for an *)
(* octet string, or for a decimal number wrapped in text, in this order;   *)
(* anything else is stored as U.                                           *)
(*                                                                         *)
(* A text is a sequence of characters. "U" stands for every character that *)
(* no rule mentions and the space for all padding. The widths of a counter *)
(* and of a double are constants.                                          *)
(***************************************************************************)
EXTENDS Integers, Sequences, FiniteSetsExt, Functions

CONSTANTS
    CounterBits,    \* width of uint64_t: 64; a multiple of 8
    FloatDigits,    \* a double is finite below 10^FloatDigits
    ResultsBuffer   \* RESULTS_BUFFER: a text and its final NUL fit

ASSUME WidthAssumption == /\ CounterBits \in {8, 16, 24}
                          /\ FloatDigits \in Nat /\ ResultsBuffer \in Nat \ {0}

Numerals == <<"0", "1", "2", "3", "4", "5", "6", "7", "8", "9">>
DecimalDigits == Range(Numerals)
HexNumerals == Numerals \o <<"a", "b", "c", "d", "e", "F">>
Signs == {"+", "-"}
Undefined == <<"U">>

\* hex_digit()
HexDigit(c) == IF c \in Range(HexNumerals)
               THEN (CHOOSE i \in DOMAIN HexNumerals : HexNumerals[i] = c) - 1 ELSE -1

CounterMax == 2 ^ CounterBits - 1
SignedMin == 2 ^ (CounterBits - 1)          \* magnitude of INT64_MIN

\* s[i], or the NUL behind the text.
At(s, i) == IF i \in 1..Len(s) THEN s[i] ELSE "NUL"

\* The first position from i on whose character is not in C.
Skip(s, i, C) == Min({j \in i..(Len(s) + 1) : At(s, j) \notin C})

Number(digits) ==
    LET value[k \in 0..Len(digits)] ==
          IF k = 0 THEN 0 ELSE 10 * value[k - 1] + HexDigit(digits[k])
    IN value[Len(digits)]
DigitsOf(s) == SelectSeq(s, LAMBDA c : c \in DecimalDigits)

-----------------------------------------------------------------------------
(* Decimal numbers *)

\* decimal_syntax(): positions of the mantissa, the point and the exponent as
\* the cursor meets them.
DecimalSyntax(s) ==
    LET start == IF At(s, 1) \in Signs THEN 2 ELSE 1
        point == Skip(s, start, DecimalDigits)
        pointed == At(s, point) = "."
        mantissa == IF pointed THEN Skip(s, point + 1, DecimalDigits) ELSE point
        digits == mantissa - start - (IF pointed THEN 1 ELSE 0)
        raised == At(s, mantissa) = "e"
        power == IF At(s, mantissa + 1) \in Signs THEN mantissa + 2 ELSE mantissa + 1
        end == IF raised THEN Skip(s, power, DecimalDigits) ELSE mantissa
    IN [ok |-> /\ digits > 0
               /\ raised => At(s, power) \in DecimalDigits
               /\ At(s, end) = "NUL",
        integral |-> ~pointed /\ ~raised,
        coefficient |-> Number(DigitsOf(SubSeq(s, start, mantissa - 1))),
        places |-> IF pointed THEN mantissa - point - 1 ELSE 0,
        exponent |-> IF ~raised \/ At(s, mantissa + 1) = "-" THEN 0
                     ELSE Number(SubSeq(s, power, end - 1))]

\* strtod() and isfinite()
Finite(d) ==
    \/ d.coefficient = 0
    \/ /\ d.exponent < FloatDigits + d.places
       /\ d.coefficient < 10 ^ (FloatDigits + d.places - d.exponent)

NoNumber == [kind |-> "unknown", text |-> Undefined, value |-> 0]

\* parse_decimal(): an integer wider than 64 bits is a real number.
DecimalValue(s, d, negative) ==
    CASE d.ok /\ d.integral /\ negative /\ d.coefficient <= SignedMin ->
            [kind |-> "signed", text |-> s, value |-> -d.coefficient]
      [] d.ok /\ d.integral /\ ~negative /\ d.coefficient <= CounterMax ->
            [kind |-> "counter", text |-> s, value |-> d.coefficient]
      [] /\ d.ok /\ Finite(d)
         /\ d.integral => d.coefficient > (IF negative THEN SignedMin ELSE CounterMax) ->
            [kind |-> "float", text |-> s, value |-> 0]
      [] OTHER -> NoNumber

ParseDecimal(s) == DecimalValue(s, DecimalSyntax(s), At(s, 1) = "-")

-----------------------------------------------------------------------------
(* Fields and octets *)

Occurrences(s, C) == Cardinality({i \in DOMAIN s : s[i] \in C})

\* multipart_syntax()
MultipartSyntax(s) ==
    LET delimiters == Occurrences(s, {":", "!"})
        spaces == Occurrences(s, {" "})
    IN delimiters > 0 /\ (spaces = 0 \/ spaces + 1 = delimiters)

IsOctets(s) ==
    /\ Len(s) % 3 = 2
    /\ \A i \in DOMAIN s : s[i] \in (IF i % 3 = 0 THEN {" ", ":", "-"} ELSE Range(HexNumerals))

Octets(s) == [i \in 1..((Len(s) + 1) \div 3) |->
                16 * HexDigit(s[3 * i - 2]) + HexDigit(s[3 * i - 1])]

\* parse_octets(): the octets are shifted into a counter; one that would leave
\* it is noticed before the shift, and in the mutated form after it.
Overflows_late(n) == n > CounterMax
Overflows(n) == n > CounterMax \div 256

ParseOctets(s) ==
    LET octets == Octets(s)
        parsed[k \in 0..Len(octets)] ==
          IF k = 0 THEN [number |-> 0, overflow |-> FALSE]
          ELSE LET n == parsed[k - 1]
               IN [number |-> (n.number * 256 + octets[k]) % 2 ^ CounterBits,
                   overflow |-> n.overflow \/ Overflows(n.number)]
    IN parsed[Len(octets)]

-----------------------------------------------------------------------------
(* classify_result() *)

\* rtrim(), ltrim() and trim(); strspn() and the loop from the end do the same.
Rtrim(s) == SubSeq(s, 1, Max({0} \cup {i \in DOMAIN s : s[i] # " "}))
Ltrim(s) == SubSeq(s, Skip(s, 1, {" "}), Len(s))
Trim(s) == Ltrim(Rtrim(s))

\* strip_alpha(): up to the last digit, from the first digit or "-".
StripAlpha(s) ==
    LET end == Max({0} \cup {i \in DOMAIN s : s[i] \in DecimalDigits})
        start == Min({end + 1} \cup {i \in 1..end : s[i] \in DecimalDigits \cup {"-"}})
    IN SubSeq(s, start, end)

\* "length >= sizeof(out->text)"
TooLong(s) == Len(s) >= ResultsBuffer

\* snprintf("%llu")
DecimalText[n \in 0..CounterMax] ==
    IF n < 10 THEN <<Numerals[n + 1]>>
    ELSE Append(DecimalText[n \div 10], Numerals[(n % 10) + 1])

Octet(octets) ==
    IF octets.overflow THEN NoNumber
    ELSE [kind |-> "hex_counter", text |-> DecimalText[octets.number],
          value |-> octets.number]

\* The order of the attempts on a trimmed text, decimal being the first of them.
Classify(text, decimal) ==
    IF text = <<>> \/ TooLong(text) THEN NoNumber
    ELSE IF decimal.kind # "unknown" THEN decimal
    ELSE IF MultipartSyntax(text) THEN [kind |-> "multipart", text |-> text, value |-> 0]
    ELSE IF IsOctets(text) THEN Octet(ParseOctets(text))
    ELSE ParseDecimal(StripAlpha(text))

ClassifyTrimmed(text) == Classify(text, ParseDecimal(text))
ClassifyResult(raw) == ClassifyTrimmed(Trim(raw))
=============================================================================
