----------------------------- MODULE CheckDigits -----------------------------
(***************************************************************************)
(* The checksum validators of internal/redact/validators.go.  A number is  *)
(* the sequence of its digits, the separators a formatted number carries   *)
(* already dropped, as digitsOf does.                                      *)
(***************************************************************************)
EXTENDS Naturals, Sequences, SequencesExt

TotalOver(f(_), n) == FoldLeft(LAMBDA acc, i : acc + f(i), 0, [i \in 1..n |-> i])

(* A run of one repeated digit is a placeholder, not a number.             *)
NotAllSameDigit(d) == \E i \in DOMAIN d : d[i] # d[1]

(* The number formed by the first n digits, 0 when there are fewer: no     *)
(* issuer's range contains 0.                                              *)
Leading(d, n) ==
    IF n > Len(d) THEN 0
    ELSE FoldLeft(LAMBDA acc, x : 10 * acc + x, 0, SubSeq(d, 1, n))

(* The lengths the issuer of a card number uses; none when no network      *)
(* assigns the prefix.  No prefix meets two of the tests.       *)
IssuerLengths(d) ==
    LET p2 == Leading(d, 2)
        p3 == Leading(d, 3)
        p4 == Leading(d, 4)
    IN  CASE Leading(d, 1) = 4              -> {13, 16, 19}
          [] p2 \in 51..55                  -> {16}
          [] p4 \in 2221..2720              -> {16}
          [] p2 \in {34, 37}                -> {15}
          [] p4 = 6011 \/ p2 = 65           -> 16..19
          [] p3 \in 644..649                -> 16..19
          [] p4 \in 3528..3589              -> 16..19
          [] p3 \in 300..305 \/ p2 \in {36, 38, 39} -> 14..19
          [] p2 = 62                        -> 16..19
          [] OTHER                          -> {}

PlausibleCardIIN(d) == Len(d) \in IssuerLengths(d)

(* Every second digit from the right is doubled, nine cast out.            *)
LuhnSum(d) ==
    TotalOver(LAMBDA i : LET n == d[Len(d) - i + 1]
                   IN  IF i % 2 = 1 THEN n
                       ELSE IF 2 * n > 9 THEN 2 * n - 9 ELSE 2 * n,
        Len(d))

(* "bare" is a 19-digit run written without separators: an identifier.     *)
ValidLuhn(d, bare) ==
    /\ Len(d) \in 13..19
    /\ NotAllSameDigit(d)
    /\ ~(Len(d) = 19 /\ bare)
    /\ PlausibleCardIIN(d)
    /\ LuhnSum(d) % 10 = 0

(* The Individual Number: the check digit is the last of twelve.           *)
ValidMyNumber(d) ==
    /\ Len(d) = 12
    /\ NotAllSameDigit(d)
    /\ LET r == TotalOver(LAMBDA n : d[12 - n] * (IF n > 6 THEN n - 5 ELSE n + 1), 11) % 11
       IN  d[12] = IF r > 1 THEN 11 - r ELSE 0

(* The Corporate Number: the check digit leads a body of twelve.           *)
ValidCorporateNumber(d) ==
    /\ Len(d) = 13
    /\ NotAllSameDigit(d)
    /\ d[1] = 9 - (TotalOver(LAMBDA n : d[14 - n] * (IF n % 2 = 1 THEN 1 ELSE 2), 12) % 9)
=============================================================================
