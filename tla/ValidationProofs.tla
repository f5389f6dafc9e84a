--------------------------- MODULE ValidationProofs ---------------------------
(***************************************************************************)
(* What TLAPS proves of Validation: the checks and the signature against   *)
(* their reference definitions, for every text, key and payload.           *)
(***************************************************************************)
EXTENDS Validation, FiniteSetTheorems, SequenceTheorems, TLAPS

\* The comparison without a shortcut collects every bit that differs, so it is
\* equality, for strings of any length (validation.rs, constant_time_eq).
THEOREM ComparisonCorrect == ComparisonIsEquality
<1> SUFFICES ASSUME NEW a \in Bytes, NEW b \in Bytes
             PROVE  constant_time_eq(a, b) <=> a = b
    BY DEF ComparisonIsEquality
<1> DEFINE differ == {(a[i] \ b[i]) \cup (b[i] \ a[i]) : i \in DOMAIN a}
<1>1. a \in Seq(SUBSET (0..7)) /\ b \in Seq(SUBSET (0..7))
    BY ValidationAssumption
<1>2. ASSUME constant_time_eq(a, b) PROVE a = b
  <2>1. Len(a) = Len(b) /\ UNION differ = {}
    BY <1>2 DEF constant_time_eq
  <2>2. ASSUME NEW i \in 1..Len(a) PROVE a[i] = b[i]
    <3>1. (a[i] \ b[i]) \cup (b[i] \ a[i]) \in differ
      BY <1>1
    <3>2. (a[i] \ b[i]) \cup (b[i] \ a[i]) = {}
      BY <2>1, <3>1
    <3> QED
      BY <3>2
  <2> QED
    BY <1>1, <2>1, <2>2, SeqEqual
<1>3. ASSUME a = b PROVE constant_time_eq(a, b)
    BY <1>3 DEF constant_time_eq
<1> QED
    BY <1>2, <1>3

\* A digest is of one string of bytes.
LEMMA DigestInjective ==
    ASSUME NEW x, NEW y, Sha256(x) = Sha256(y)
    PROVE  x = y
<1>1. Sha256(x)[1].sha256 = x /\ Sha256(y)[1].sha256 = y
    BY DEF Sha256
<1> QED
    BY <1>1

\* Digests are all as long, so two in a row are told apart.
LEMMA PairInjective ==
    ASSUME NEW a, NEW b, NEW c, NEW d, <<a>> \o <<b>> = <<c>> \o <<d>>
    PROVE  a = c /\ b = d
<1> DEFINE f == <<a>> \o <<b>>
           g == <<c>> \o <<d>>
<1>1. f[1] = a /\ f[2] = b /\ g[1] = c /\ g[2] = d
    OBVIOUS
<1>2. f = g
    OBVIOUS
<1> HIDE DEF f, g
<1> QED
    BY <1>1, <1>2

\* A signature determines what it was made of, given that a digest does.
THEOREM SignatureInjective == SignatureIsInjective
<1> SUFFICES ASSUME NEW s \in Bytes, NEW t \in Bytes, NEW p \in Bytes,
                    NEW q \in Bytes,
                    compute_signature(s, p) = compute_signature(t, q)
             PROVE  s = t /\ p = q
    BY DEF SignatureIsInjective
<1> DEFINE c == Sha256(p)
           d == Sha256(q)
<1>1. Sha256(s) \o Sha256(c) = Sha256(t) \o Sha256(d)
    BY DigestInjective DEF compute_signature
<1>2. <<[sha256 |-> s]>> \o <<[sha256 |-> c]>>
          = <<[sha256 |-> t]>> \o <<[sha256 |-> d]>>
    BY <1>1 DEF Sha256
<1> HIDE DEF c, d
<1>3. [sha256 |-> s] = [sha256 |-> t] /\ [sha256 |-> c] = [sha256 |-> d]
    BY <1>2, PairInjective
<1>4. /\ [sha256 |-> s].sha256 = s /\ [sha256 |-> t].sha256 = t
      /\ [sha256 |-> c].sha256 = c /\ [sha256 |-> d].sha256 = d
    OBVIOUS
<1>5. s = t /\ c = d
    BY <1>3, <1>4
<1> QED
    BY <1>5, DigestInjective DEF c, d

-----------------------------------------------------------------------------
(* The checks on texts *)

\* A text without the characters that take two bytes is as long in both ways.
LEMMA ByteLenIsLen ==
    ASSUME NEW v \in Seq(Characters), \A i \in DOMAIN v : v[i] \notin TwoBytes
    PROVE  ByteLen(v) = Len(v)
<1>1. {i \in DOMAIN v : v[i] \in TwoBytes} = {}
    OBVIOUS
<1>2. Cardinality({i \in DOMAIN v : v[i] \in TwoBytes}) = 0
    BY <1>1, FS_EmptySet
<1>3. Len(v) \in Nat
    OBVIOUS
<1> QED
    BY <1>2, <1>3 DEF ByteLen

\* What it is for a text to begin with 0x.
LEMMA AddressPrefix ==
    ASSUME NEW v \in Seq(Characters)
    PROVE  IsPrefix(<<"0", "x">>, v) <=>
               Len(v) >= 2 /\ v[1] = "0" /\ v[2] = "x"
<1> DEFINE p == <<"0", "x">>
<1>1. p \in Seq(Characters) /\ Len(p) = 2 /\ p[1] = "0" /\ p[2] = "x"
    BY DEF Characters, Alphanumeric, Digits, Lower
<1>2. Len(v) \in Nat /\ \A i \in 1..Len(v) : v[i] \in Characters
    OBVIOUS
<1>3. SubSeq(p, 1, 2) = p
    BY <1>1, SubSeqFull
<1>4. ASSUME Len(v) >= 2
      PROVE  /\ SubSeq(v, 1, 2) \in Seq(Characters) /\ Len(SubSeq(v, 1, 2)) = 2
             /\ SubSeq(v, 1, 2)[1] = v[1] /\ SubSeq(v, 1, 2)[2] = v[2]
  <2>1. \A i \in 1..2 : v[i] \in Characters
    BY <1>2, <1>4
  <2>2. /\ SubSeq(v, 1, 2) \in Seq(Characters) /\ Len(SubSeq(v, 1, 2)) = 2
        /\ \A i \in 1..2 : SubSeq(v, 1, 2)[i] = v[1 + i - 1]
    BY <2>1, SubSeqProperties
  <2> QED
    BY <2>2
<1>5. IsPrefix(p, v) <=> Len(v) >= 2 /\ p = SubSeq(v, 1, 2)
    BY <1>1, <1>2, <1>3 DEF IsPrefix
<1>6. ASSUME Len(v) >= 2
      PROVE  p = SubSeq(v, 1, 2) <=> v[1] = "0" /\ v[2] = "x"
  <2>1. ASSUME v[1] = "0" /\ v[2] = "x" PROVE p = SubSeq(v, 1, 2)
    <3>1. \A i \in 1..Len(p) : p[i] = SubSeq(v, 1, 2)[i]
      BY <1>1, <1>4, <1>6, <2>1
    <3> QED
      BY <1>1, <1>4, <1>6, <3>1, SeqEqual
  <2> QED
    BY <1>1, <1>4, <1>6, <2>1
<1> QED
    BY <1>5, <1>6

\* is_evm_address finds the addresses, and what it counts in bytes is as long in
\* characters, for no character it lets pass takes two.
LEMMA AddressCheck ==
    ASSUME NEW v \in Texts
    PROVE  /\ is_evm_address(v) <=> v \in EvmAddresses
           /\ is_evm_address(v) => Len(v) = AddressLength
<1> DEFINE HasForm == /\ Len(v) = AddressLength
                      /\ v[1] = "0" /\ v[2] = "x"
                      /\ \A i \in 3..Len(v) : v[i] \in HexDigits
           D == [1..(AddressLength - 2) -> HexDigits]
<1>1. v \in Seq(Characters) /\ Len(v) \in Nat /\ DOMAIN v = 1..Len(v)
    BY ValidationAssumption
<1>2. AddressLength \in Nat /\ AddressLength >= 2
    BY ValidationAssumption
<1>3. is_evm_address(v) <=> HasForm
  <2>1. ASSUME Len(v) >= 2, v[1] = "0", v[2] = "x",
               \A i \in 3..Len(v) : v[i] \in HexDigits
        PROVE  ByteLen(v) = Len(v)
    <3>1. \A i \in DOMAIN v : v[i] \notin TwoBytes
      <4> TAKE i \in DOMAIN v
      <4>1. i = 1 \/ i = 2 \/ i \in 3..Len(v)
        BY <1>1
      <4> QED
        BY <2>1, <4>1 DEF TwoBytes, HexDigits, Digits
    <3> QED
      BY <1>1, <3>1, ByteLenIsLen
  <2> QED
    BY <1>1, <1>2, <2>1, AddressPrefix DEF is_evm_address
<1>4. ASSUME NEW d \in D
      PROVE  LET a == <<"0", "x">> \o d IN
             /\ a \in Seq(Characters) /\ Len(a) = AddressLength
             /\ a[1] = "0" /\ a[2] = "x"
             /\ \A i \in 3..AddressLength : a[i] = d[i - 2]
  <2>1. d \in Seq(Characters) /\ Len(d) = AddressLength - 2
    <3>1. HexDigits \subseteq Characters
      BY DEF HexDigits, Characters, Alphanumeric, Upper, Lower
    <3> QED
      BY <1>2, <3>1
  <2>2. <<"0", "x">> \in Seq(Characters) /\ Len(<<"0", "x">>) = 2
    BY DEF Characters, Alphanumeric, Digits, Lower
  <2>3. /\ <<"0", "x">> \o d \in Seq(Characters)
        /\ Len(<<"0", "x">> \o d) = 2 + (AddressLength - 2)
        /\ \A i \in 1..(2 + (AddressLength - 2)) :
              (<<"0", "x">> \o d)[i] =
                  IF i <= 2 THEN <<"0", "x">>[i] ELSE d[i - 2]
    BY <2>1, <2>2, ConcatProperties
  <2> QED
    BY <1>2, <2>3
<1>5. ASSUME v \in EvmAddresses PROVE HasForm
  <2> PICK d \in D : v = <<"0", "x">> \o d
    BY <1>5 DEF EvmAddresses
  <2>1. \A i \in 3..AddressLength : i - 2 \in 1..(AddressLength - 2)
    BY <1>2
  <2> QED
    BY <1>4, <2>1
<1>6. ASSUME HasForm PROVE v \in EvmAddresses
  <2> DEFINE d == [i \in 1..(AddressLength - 2) |-> v[i + 2]]
  <2>1. d \in D
  <3>1. \A i \in 1..(AddressLength - 2) : i + 2 \in 3..Len(v)
    BY <1>2, <1>6
  <3> QED
    BY <1>6, <3>1
  <2> DEFINE a == <<"0", "x">> \o d
  <2>2. /\ a \in Seq(Characters) /\ Len(a) = AddressLength
        /\ a[1] = "0" /\ a[2] = "x"
        /\ \A i \in 3..AddressLength : a[i] = d[i - 2]
    BY <1>4, <2>1
  <2>3. \A i \in 3..AddressLength : d[i - 2] = v[i]
    BY <1>2
  <2>4. \A i \in 1..Len(v) : v[i] = a[i]
    <3> TAKE i \in 1..Len(v)
    <3>1. i = 1 \/ i = 2 \/ i \in 3..AddressLength
      BY <1>1, <1>2, <1>6
    <3> HIDE DEF a, d
    <3> QED
      BY <1>6, <2>2, <2>3, <3>1
  <2> HIDE DEF a
  <2>5. v = a
    BY <1>1, <1>6, <2>2, <2>4, SeqEqual
  <2> QED
    BY <2>1, <2>5 DEF EvmAddresses, a
<1> QED
    BY <1>3, <1>5, <1>6

\* A set with one element more.
LEMMA OneMore ==
    ASSUME NEW S, IsFiniteSet(S), NEW n \in Nat, Cardinality(S) = n,
           NEW x, x \notin S
    PROVE  IsFiniteSet(S \cup {x}) /\ Cardinality(S \cup {x}) = n + 1
BY FS_AddElement

\* is_strong_password finds the strong passwords: a text has a character of a class
\* exactly if it could not be written without the class.
LEMMA StrongPassword ==
    ASSUME NEW v \in Texts
    PROVE  is_strong_password(v) <=> v \in StrongPasswords
<1>1. v \in Seq(Characters) /\ Len(v) \in Nat /\ v \in [1..Len(v) -> Characters]
    BY ValidationAssumption, LenProperties
<1>2. ASSUME NEW class \in SUBSET Characters
      PROVE  Has(v, class) <=> v \notin Seq(Characters \ class)
  <2>1. ASSUME Has(v, class) PROVE v \notin Seq(Characters \ class)
    <3> SUFFICES ASSUME v \in Seq(Characters \ class) PROVE FALSE
      OBVIOUS
    <3>1. v \in [1..Len(v) -> Characters \ class]
      BY LenProperties
    <3> QED
      BY <2>1, <3>1 DEF Has
  <2>2. ASSUME ~ Has(v, class) PROVE v \in Seq(Characters \ class)
    <3>1. v \in [1..Len(v) -> Characters \ class]
      BY <1>1, <2>2 DEF Has
    <3> QED
      BY <1>1, <3>1, SeqDef
  <2> QED
    BY <2>1, <2>2
<1>3. /\ Upper \in SUBSET Characters /\ Lower \in SUBSET Characters
      /\ Digits \in SUBSET Characters
      /\ Characters \ Alphanumeric \in SUBSET Characters
    BY DEF Characters, Alphanumeric
<1>4. (\E i \in DOMAIN v : v[i] \notin Alphanumeric)
          <=> Has(v, Characters \ Alphanumeric)
    BY <1>1 DEF Has
<1>5. is_strong_password(v) <=>
          /\ Has(v, Upper) /\ Has(v, Lower) /\ Has(v, Digits)
          /\ Has(v, Characters \ Alphanumeric)
    BY <1>4 DEF is_strong_password
<1> QED
    BY <1>2, <1>3, <1>5, Zenon DEF StrongPasswords

\* The classes of a strong password have nothing in common: four characters.
LEMMA FourCharacters ==
    ASSUME NEW v \in Seq(Characters), is_strong_password(v)
    PROVE  Cardinality({v[i] : i \in DOMAIN v}) >= 4
<1> DEFINE used == {v[i] : i \in DOMAIN v}
<1> PICK a \in used : a \in Upper
    BY DEF is_strong_password, Has
<1> PICK b \in used : b \in Lower
    BY DEF is_strong_password, Has
<1> PICK c \in used : c \in Digits
    BY DEF is_strong_password, Has
<1> PICK d \in used : d \notin Alphanumeric
    BY DEF is_strong_password
<1>1. a # b /\ a # c /\ b # c /\ d \notin {a, b, c}
    BY DEF Upper, Lower, Digits, Alphanumeric
<1>2. Cardinality({a, b, c, d}) = 4 /\ IsFiniteSet({a, b, c, d})
  <2> DEFINE two == {a} \cup {b}
             three == two \cup {c}
             four == three \cup {d}
  <2>1. IsFiniteSet({a}) /\ Cardinality({a}) = 1 /\ b \notin {a}
    BY <1>1, FS_Singleton
  <2>2. IsFiniteSet(two) /\ Cardinality(two) = 1 + 1
    BY <2>1, OneMore
  <2>3. c \notin two
    BY <1>1
  <2> HIDE DEF two
  <2>4. IsFiniteSet(three) /\ Cardinality(three) = 3
    BY <2>2, <2>3, OneMore
  <2>5. d \notin three
    BY <1>1 DEF two
  <2> HIDE DEF three
  <2>6. IsFiniteSet(four) /\ Cardinality(four) = 4
    BY <2>4, <2>5, OneMore
  <2>7. four = {a, b, c, d}
    BY DEF two, three
  <2> HIDE DEF four
  <2> QED
    BY <2>6, <2>7, Zenon
<1>3. IsFiniteSet(used)
  <2>1. Len(v) \in Nat /\ DOMAIN v = 1..Len(v)
    OBVIOUS
  <2>2. IsFiniteSet(1..Len(v))
    BY <2>1, FS_Interval
  <2>3. v \in Surjection(1..Len(v), used)
    BY <2>1 DEF Surjection
  <2> QED
    BY <2>2, <2>3, FS_Surjection
<1>4. {a, b, c, d} \subseteq used
    OBVIOUS
<1> HIDE DEF used
<1>5. Cardinality({a, b, c, d}) <= Cardinality(used) /\ Cardinality(used) \in Nat
    BY <1>3, <1>4, FS_Subset, FS_CardinalityType
<1> QED
    BY <1>2, <1>5 DEF used

\* The address and the password check find exactly the texts their names promise
\* (validation.rs), and a strong password has four different characters.
THEOREM TextChecksCorrect == \A v \in Texts : TextChecksAreRight(v)
BY ValidationAssumption, AddressCheck, StrongPassword, FourCharacters
   DEF TextChecksAreRight
=============================================================================
