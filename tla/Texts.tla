------------------------------- MODULE Texts --------------------------------
(***************************************************************************)
(* Every short text, one character at a time, given to the code that takes *)
(* texts apart: an answer to classify_result() (Result), the name of a     *)
(* device to split_host_spec() (HostSpec). The properties compare what the *)
(* cursors of the code find with grammars.                                 *)
(***************************************************************************)
EXTENDS Result, HostSpec

CONSTANTS
    AnswerCharacters, AnswerLength,
    NameCharacters, NameLength

VARIABLES
    use,            \* of the text: "answer" or "name"
    text

textVars == <<use, text>>

TextsInit == text = <<>>

Extend(characters, length) ==
    /\ Len(text) < length
    /\ \E c \in characters : text' = Append(text, c)
    /\ UNCHANGED use

TextsNext == \/ use = "answer" /\ Extend(AnswerCharacters, AnswerLength)
             \/ use = "name" /\ Extend(NameCharacters, NameLength)

-----------------------------------------------------------------------------
(* Answers *)

AllDigits(s) == Range(s) \subseteq DecimalDigits
Sign(s) == s = <<>> \/ (Len(s) = 1 /\ s[1] \in Signs)
Fraction(s) == s = <<>> \/ (s[1] = "." /\ AllDigits(Tail(s)))
Exponent(s) ==
    \/ s = <<>>
    \/ /\ s[1] = "e"
       /\ \E a \in 1..(Len(s) - 1) : Sign(SubSeq(s, 2, a)) /\ AllDigits(From(s, a + 1))

\* "PHP is_numeric() grammar": sign, digits, fraction, exponent.
Decimal(s) ==
    \E a \in 0..Len(s) :
      /\ Sign(SubSeq(s, 1, a))
      /\ \E b \in a..Len(s) :
           /\ AllDigits(SubSeq(s, a + 1, b))
           /\ \E c \in b..Len(s) :
                /\ Fraction(SubSeq(s, b + 1, c)) /\ Exponent(From(s, c + 1))
                /\ DigitsOf(SubSeq(s, a + 1, c)) # <<>>

\* The number in a text, from its first to its last digit, with the minus sign
\* before the first digit or before the point that belongs to it.
NumberIn(s) ==
    LET digits == {i \in DOMAIN s : s[i] \in DecimalDigits}
        first == Min(digits)
        sign == IF At(s, first - 1) = "." THEN first - 2 ELSE first - 1
    IN SubSeq(s, IF At(s, sign) = "-" THEN sign ELSE first, Max(digits))

Exact(octets) ==
    LET value[k \in 0..Len(octets)] == IF k = 0 THEN 0 ELSE 256 * value[k - 1] + octets[k]
    IN value[Len(octets)]

\* What NumberNotGuessed asks of the result for an answer, and of the result for the
\* text that is stored of it.
Faithful(trimmed, result) ==
    /\ result.kind \in {"signed", "counter", "float"} =>
         /\ Decimal(result.text)
         /\ result.text \in {trimmed, NumberIn(trimmed)}
    /\ result.kind = "hex_counter" =>
         Exact(Octets(trimmed)) = result.value /\ result.value <= CounterMax
    /\ Len(trimmed) < ResultsBuffer /\ "e" \notin Range(trimmed) /\ Decimal(trimmed) =>
         result.kind \in {"signed", "counter", "float"} /\ result.text = trimmed
    /\ Len(result.text) < ResultsBuffer

Stable(result, again) ==
    /\ again.text = result.text
    /\ again.kind # "float" => again.value = result.value

\* "stored as U rather than as a guess": a stored number follows the grammar,
\* and is the whole answer or all of it from the first digit to the last with its
\* minus sign, points and exponents between them included; or it is exactly the
\* octets it was made of, which fit a counter; and an answer that is a plain decimal
\* is stored as it is (decimal_syntax, parse_octets, strip_alpha). What is stored
\* fits its buffer, and is stored alike when it is classified again, as an SNMP
\* answer is that was trimmed when it was formatted. One guess remains, and is the
\* code's: in an answer that is no number by itself strip_alpha() drops a point
\* before the first digit that has no minus sign before it, so ".9 U" is stored as 9.
NumberNotGuessed ==
    LET result == ClassifyResult(text)
    IN use = "answer" => /\ Faithful(Trim(text), result)
                         /\ Stable(result, ClassifyResult(result.text))

-----------------------------------------------------------------------------
(* Names *)

Plain(host) == host # <<>> /\ Range(host) \cap {":", "[", "]"} = {}
Suffix(port) == port = <<>> \/ (port[1] = ":" /\ Port(Tail(port)) > 0)
PortOf(port) == IF port = <<>> THEN 0 ELSE Port(Tail(port))

\* A name that is put together as "[transport:]host[:port]" comes apart into the
\* same parts, whichever of the three forms its host has, and every probe of the
\* name that get_namebyhost() kept resolves the same host as the name itself.
NamesComeApart ==
    LET Split(parts) == SplitHostSpec(text) = parts
        Prefix(a) == a = 0 \/ (a = 2 /\ Len(text) >= 2 /\ text[1] \in Transports /\ text[2] = ":")
        Method(a) == IF a = 0 THEN "none" ELSE text[1]
    IN use = "name" =>
         /\ \A a \in {0, 2}, b \in 0..Len(text) :
              LET host == SubSeq(text, a + 1, b)
                  port == From(text, b + 1)
              IN Prefix(a) /\ a <= b /\ Suffix(port) =>
                   /\ Plain(host) /\ (a = 0 /\ port # <<>> => host \notin {<<t>> : t \in Transports})
                        => Split(Parts(Method(a), FALSE, host, PortOf(port)))
                   /\ Len(host) >= 2 /\ host[1] = "[" /\ Position(host, "]") = Len(host)
                        => Split(Parts(Method(a), TRUE, SubSeq(host, 2, Len(host) - 1), PortOf(port)))
         /\ \A a \in {0, 2} :
              LET host == From(text, a + 1)
              IN Prefix(a) /\ (a = 0 => ~Prefix(2)) /\ CharCount(host, ":") > 1
                   /\ "[" \notin Range(host) => Split(Parts(Method(a), TRUE, host, 0))
         /\ PingAddress(GetNameByHost(text)) = PingAddress(text)
=============================================================================
