--------------------------- MODULE GuardDetectors ---------------------------
(****************************************************************************)
(* What the guard recognises in the text of a cell: detectors.ts.  A text   *)
(* is given by what its three splittings yield, in their order: the tokens  *)
(* between blanks and punctuation, the runs shaped like an IBAN, and the    *)
(* runs of digits.  Whether a token is an address, or a prefix a valid      *)
(* IBAN, is the libraries' verdict and comes with the text; the limits, the *)
(* choice of candidates and the checksum of a card are the guard's own.     *)
(****************************************************************************)
EXTENDS Naturals, Sequences

CONSTANTS
  TokenLimit,     \* tokens of a text that are looked at
  CandidateLimit  \* candidates of each kind that are looked at

ASSUME DetectorAssumption == TokenLimit \in Nat /\ CandidateLimit \in Nat

Categories == {"email", "phone", "payment_card", "iban", "ip"}

First(s, n) == {i \in DOMAIN s : i <= n}

\* The digit at i counts double when an odd number of digits follows it.
Counted(digits, i) ==
  LET d == IF (Len(digits) - i) % 2 = 1 THEN 2 * digits[i] ELSE digits[i]
  IN IF d > 9 THEN d - 9 ELSE d

luhn(digits) ==
  LET sum[i \in 0..Len(digits)] ==
        IF i = 0 THEN 0 ELSE sum[i - 1] + Counted(digits, i)
  IN /\ Len(digits) \in 13..19
     /\ \E i \in DOMAIN digits : digits[i] # digits[1]
     /\ sum[Len(digits)] % 10 = 0

TokenIs(text, kind) ==
  \E i \in First(text.tokens, TokenLimit) :
    text.tokens[i].length <= 254 /\ kind \in text.tokens[i].kinds

\* A candidate is cut at its blanks; only the cut is a valid IBAN.
HasIban(text) ==
  \E i \in First(text.ibans, CandidateLimit) :
    \E cut \in text.ibans[i] : cut.length >= 15 /\ cut.valid

HasCard(text) ==
  \E i \in First(text.numbers, CandidateLimit) :
    ~text.numbers[i].plus /\ luhn(text.numbers[i].digits)

\* A number without its country is read with the region of the scan, if any.
HasPhone(text, region) ==
  \E i \in First(text.numbers, CandidateLimit) :
    LET number == text.numbers[i]
    IN /\ number.plus \/ region # "none"
       /\ Len(number.digits) \in 7..15
       /\ (IF number.plus THEN "any" ELSE region) \in number.phoneIn

detect(text, enabled, region) ==
  {c \in enabled \cap Categories :
     CASE c \in {"email", "ip"} -> TokenIs(text, c)
       [] c = "iban"            -> HasIban(text)
       [] c = "payment_card"    -> HasCard(text)
       [] c = "phone"           -> HasPhone(text, region)}
=============================================================================
