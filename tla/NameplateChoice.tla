-------------------------- MODULE NameplateChoice --------------------------
(***************************************************************************)
(* How the server picks a name for a new nameplate (server.py:227-243) and *)
(* which names it accepts from a client (server.py:11-19).  A name is text;*)
(* the names the server makes are numbers written out, but a client may    *)
(* claim "07", which is a different nameplate from "7", and one written in *)
(* another script's digits.                                                *)
(***************************************************************************)
EXTENDS Integers, Sequences

CONSTANTS
    Radix,      \* 10
    ShortSizes, \* 3: first the names of one to this many digits are tried
    LongSizes,  \* 6: then names of up to this many digits
    MaxLength,  \* 40: longer names are refused
    OtherDigits, \* the decimal digits of other scripts
    Others,     \* characters that are no digits,
    LineFeed,   \* this one among them
    Exhausted   \* no name: ValueError

ASSUME RadixAssumption  == Radix \in Nat /\ Radix > 1
ASSUME SizesAssumption  == /\ ShortSizes \in Nat \ {0}
                           /\ LongSizes \in Nat
                           /\ ShortSizes < LongSizes
                           /\ LongSizes <= MaxLength
                           /\ MaxLength \in Nat
ASSUME OthersAssumption == /\ LineFeed \in Others
                           /\ Others \intersect (Nat \union OtherDigits) = {}
                           /\ OtherDigits \intersect Nat = {}

\* What a power is; the provers do not know it.
ASSUME PowerAssumption ==
    /\ Radix^0 = 1
    /\ \A k \in 0..(LongSizes - 1) : Radix^(k + 1) = Radix * Radix^k

Digits == 0..(Radix - 1)

\* \d, in a pattern for text: every decimal digit of Unicode.
DecimalDigits == Digits \union OtherDigits

NumDigits(n) == CHOOSE k \in 1..LongSizes : Radix^(k-1) <= n /\ n < Radix^k

\* "%d"
Written(n) ==
    [i \in 1..NumDigits(n) |-> (n \div Radix^(NumDigits(n) - i)) % Radix]

ASSUME ExhaustedAssumption == \A n \in 1..(Radix^LongSizes - 1) : Exhausted # Written(n)

\* range(10**(size-1), 10**size)
OfSize(size) == (Radix^(size-1))..(Radix^size - 1)

Free(ns, claimed) == {n \in ns : Written(n) \notin claimed}

SizesTried == 1..ShortSizes

\* Fault: all sizes are drawn from at once.
AnyShort(claimed) ==
    UNION {Free(OfSize(size), claimed) : size \in SizesTried}

\* The free names of the first size that has one.
ShortestFree(claimed) ==
    UNION {Free(OfSize(size), claimed) : size \in {s \in SizesTried :
        \A t \in SizesTried : t < s => Free(OfSize(t), claimed) = {}}}

\* random.randrange(1000, 1000*1000)
Long == (Radix^ShortSizes)..(Radix^LongSizes - 1)

\* _find_available_nameplate_id: every name it may return.  The random tries may
\* all hit claimed names; then it raises ValueError.
Outcomes(claimed) ==
    IF ShortestFree(claimed) # {}
      THEN {Written(n) : n \in ShortestFree(claimed)}
      ELSE {Written(n) : n \in Free(Long, claimed)}
             \union (IF Free(Long, claimed) # Long THEN {Exhausted} ELSE {})

\* The $ of NAMEPLATE_RE also matches before a line feed that ends the text.
WithoutLineFeed(text) ==
    IF text # <<>> /\ text[Len(text)] = LineFeed THEN SubSeq(text, 1, Len(text) - 1) ELSE text

OnlyDigits(text) ==
    /\ WithoutLineFeed(text) # <<>>
    /\ \A i \in DOMAIN WithoutLineFeed(text) : text[i] \in DecimalDigits

\* check_valid_nameplate does not raise.
ValidNameplate(text) == Len(text) <= MaxLength /\ OnlyDigits(text)

-----------------------------------------------------------------------------
\* docs/server-protocol.md:129-130 "the server returns one that is as short as
\* possible", which server.py:230 keeps "to 1-999 for now": an allocated name is one
\* the server itself would accept, nobody holds it, and no free name of up to three
\* digits is shorter.  Once those are all taken any free name of four to six digits
\* may be given, however many shorter ones are free (server.py:238-242), and only
\* then can an allocation fail.
AllocationIsSound(claimed, name) ==
    LET FreeShort == {n \in 1..(Radix^ShortSizes - 1) : Written(n) \notin claimed}
    IN IF name = Exhausted
         THEN FreeShort = {}
         ELSE /\ ValidNameplate(name)
              /\ name \notin claimed
              /\ \A n \in FreeShort : NumDigits(n) >= Len(name)

\* "nameplate %s has non-digits" (server.py:19): a name that is accepted consists
\* of digits, of whatever scripts, but for one line feed at its end.
AcceptedAreDigits(text) ==
    ValidNameplate(text) =>
        \A i \in DOMAIN text :
            text[i] \in DecimalDigits \/ (text[i] = LineFeed /\ i = Len(text) /\ i > 1)
=============================================================================
