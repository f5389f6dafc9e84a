----------------------------- MODULE Validation -----------------------------
(***************************************************************************)
(* validation.rs: the checks on what a request carries, and the signature. *)
(* A text is a sequence of characters of a small alphabet with a member of *)
(* every class the checks tell apart; "e'" and "aleph", a letter without   *)
(* case, stand for the characters that take more than one byte, "@" for    *)
(* those that are neither letters nor digits.  A byte is the set of its    *)
(* bits.                                                                   *)
(***************************************************************************)
EXTENDS Naturals, FiniteSets, SequencesExt

CONSTANTS
    AddressLength,    \* 42: "0x" and 40 hexadecimal digits
    Injections,       \* the texts INJECTION_RE finds a pattern in
    Texts,            \* the texts requests carry: a bound for TLC
    Bytes             \* the strings of bytes that are signed: a bound for TLC

Digits == {"0", "7"}
HexDigits == Digits \cup {"a", "B"}
Upper == {"B", "Z"}
Lower == {"a", "x", "e'"}
Alphanumeric == Digits \cup Upper \cup Lower \cup {"aleph"}
Characters == Alphanumeric \cup {"@"}
TwoBytes == {"e'", "aleph"}

ASSUME ValidationAssumption ==
    /\ AddressLength \in Nat /\ AddressLength >= 2
    /\ Texts \subseteq Seq(Characters) /\ Injections \subseteq Texts
    /\ Bytes \subseteq Seq(SUBSET (0..7))

\* str::len counts bytes, the validator crate's length counts characters.
ByteLen(value) ==
    Len(value) + Cardinality({i \in DOMAIN value : value[i] \in TwoBytes})

Has(value, class) == \E i \in DOMAIN value : value[i] \in class

is_safe_text(value) == value \notin Injections

is_strong_password(password) ==
    /\ Has(password, Upper)
    /\ Has(password, Lower)
    /\ Has(password, Digits)
    /\ \E i \in DOMAIN password : password[i] \notin Alphanumeric

is_evm_address_anyLength(value) ==
    /\ IsPrefix(<<"0", "x">>, value)
    /\ \A i \in 3..Len(value) : value[i] \in HexDigits
is_evm_address(value) ==
    /\ ByteLen(value) = AddressLength
    /\ IsPrefix(<<"0", "x">>, value)
    /\ \A i \in 3..Len(value) : value[i] \in HexDigits

\* hex::encode of a SHA-256, taken to be injective; all digests are as long.
Sha256(bytes) == <<[sha256 |-> bytes]>>

compute_signature(salt, payload) ==
    Sha256(Sha256(salt) \o Sha256(Sha256(payload)))

\* x ^ y is the bits that differ, acc | (x ^ y) collects them.
constant_time_eq_zipOnly(a, b) ==
    UNION {(a[i] \ b[i]) \cup (b[i] \ a[i]) : i \in DOMAIN a \cap DOMAIN b} = {}
constant_time_eq(a, b) ==
    /\ Len(a) = Len(b)
    /\ UNION {(a[i] \ b[i]) \cup (b[i] \ a[i]) : i \in DOMAIN a} = {}

-----------------------------------------------------------------------------
(* Reference definitions *)

EvmAddresses ==
    {<<"0", "x">> \o digits : digits \in [1..(AddressLength - 2) -> HexDigits]}

\* An upper-case and a lower-case letter, a digit and a special character: without
\* any one of these classes the text could not be written.
StrongPasswords ==
    {v \in Texts : \A class \in {Upper, Lower, Digits, Characters \ Alphanumeric} :
                      v \notin Seq(Characters \ class)}

\* A text is accepted exactly when it has the form its name promises; and the
\* classes of a strong password are so far apart that it has four characters.
TextChecksAreRight(v) ==
    /\ is_evm_address(v) <=> v \in EvmAddresses
    /\ is_strong_password(v) <=> v \in StrongPasswords
    /\ is_strong_password(v) => Cardinality({v[i] : i \in DOMAIN v}) >= 4

\* The comparison without a shortcut is equality.
ComparisonIsEquality == \A a, b \in Bytes : constant_time_eq(a, b) <=> a = b

\* A signature is of one salt and one payload.
SignatureIsInjective ==
    \A s, t, p, q \in Bytes :
        compute_signature(s, p) = compute_signature(t, q) <=> s = t /\ p = q
=============================================================================
