-------------------------------- MODULE Codes --------------------------------
(***************************************************************************)
(* The two kinds of codes by which a client shows who it is.  Pairing      *)
(* codes (crates/adaclaw-server/src/pairing.rs): one slot behind a lock,   *)
(* filled by POST /pair and emptied by the client that presents the code   *)
(* in time.  One-time passwords (crates/adaclaw-security, otp.rs): the     *)
(* text of a secret, and which codes verify accepts.  Bytes, digits of     *)
(* base32 and the buffer between them have 8, 5 and 32 bits in the code.   *)
(*                                                                         *)
(* Outside src/: the owner's device, whose clock is some seconds off.      *)
(* HMAC is taken to give every counter another code.                       *)
(***************************************************************************)
EXTENDS Integers, Sequences

CONSTANTS
  Lifetime,     \* PAIRING_TTL
  MaxCodes, MaxSeconds   \* bounds

ASSUME PairingAssumption == {Lifetime, MaxCodes, MaxSeconds} \subseteq Nat

VARIABLES
  second,
  slot,         \* the code and when it was generated, code 0 for none
  generated,    \* history: when each code was generated; they are told apart by number
  paired        \* history: codes that were consumed, and when

pairingVars == <<second, slot, generated, paired>>

PairingInit == second = 0 /\ slot = [code |-> 0, at |-> 0] /\ generated = <<>> /\ paired = <<>>

SecondPasses ==
  /\ second < MaxSeconds /\ second' = second + 1
  /\ UNCHANGED <<slot, generated, paired>>

(* pair: the new code takes the place of the old one. *)
Pair ==
  /\ Len(generated) < MaxCodes
  /\ generated' = Append(generated, second)
  /\ slot' = [code |-> Len(generated'), at |-> second]
  /\ UNCHANGED <<second, paired>>

(* Mutant: the code stays after its use. *)
ConsumeKeeps(candidate) ==
  /\ slot.code = candidate /\ second < slot.at + Lifetime
  /\ paired' = Append(paired, [code |-> candidate, at |-> second])
  /\ UNCHANGED <<second, generated, slot>>

(* verify_and_consume; a candidate that is not right changes nothing. *)
Consume(candidate) ==
  /\ slot.code = candidate /\ second < slot.at + Lifetime
  /\ paired' = Append(paired, [code |-> candidate, at |-> second])
  /\ slot' = [code |-> 0, at |-> 0]
  /\ UNCHANGED <<second, generated>>

PairingNext ==
  \/ SecondPasses \/ Pair
  \/ \E candidate \in DOMAIN generated : Len(paired) < MaxCodes /\ Consume(candidate)

PairingSpec == PairingInit /\ [][PairingNext]_pairingVars

(* A code pairs one client, in time, and none after a newer code was made  *)
(* or used.                                                                *)
CodesPairOnce ==
  \A i \in DOMAIN paired :
    /\ paired[i].at < generated[paired[i].code] + Lifetime
    /\ \A j \in DOMAIN paired : i < j => paired[i].code < paired[j].code

-----------------------------------------------------------------------------
(* One-time passwords. *)

CONSTANTS
  ByteBits, DigitBits, BufferBits,
  MaxBytes, LastSecond,  \* bounds: length of a secret, time
  StepSeconds,  \* 30
  Skew,         \* 1
  Drifts        \* seconds the device's clock is ahead, negative if behind

ASSUME OtpAssumption ==
  /\ {ByteBits, DigitBits, BufferBits, StepSeconds, Skew, LastSecond} \subseteq Nat
  /\ 0 < DigitBits /\ DigitBits <= ByteBits /\ StepSeconds > 0
  /\ BufferBits >= ByteBits + DigitBits - 1
  /\ Drifts \subseteq Int

VARIABLES
  secret,       \* bytes
  clock, drift, \* the server's clock, and the device's
  codeShown, codeShownAt,  \* the counter of the code that the device showed, and when
  verified      \* "none", or what verify answered at the current second

otpVars == <<secret, clock, drift, codeShown, codeShownAt, verified>>

-----------------------------------------------------------------------------
(* A number is the function from the weights of its bits to the bits.  Both*)
(* conversions shift what they read into the buffer, whose upper bits are  *)
(* lost, and take out what is complete.                                    *)
Bits(n) == [0..(n - 1) -> {0, 1}]
Zero(n) == [w \in 0..(n - 1) |-> 0]

Shifted(buffer, unit, n) ==
  [w \in 0..(BufferBits - 1) |-> IF w < n THEN unit[w] ELSE buffer[w - n]]
Taken(buffer, left, n) == [w \in 0..(n - 1) |-> buffer[left + w]]

Fresh == [buffer |-> Zero(BufferBits), left |-> 0, out |-> <<>>]

Reads(st, unit, inBits, outBits) ==
  LET buffer == Shifted(st.buffer, unit, inBits)
      bits == st.left + inBits
      whole == bits \div outBits
  IN [buffer |-> buffer, left |-> bits - whole * outBits,
      out |-> st.out \o [k \in 1..whole |-> Taken(buffer, bits - k * outBits, outBits)]]

After(units, inBits, outBits) ==
  LET after[n \in 0..Len(units)] ==
        IF n = 0 THEN Fresh ELSE Reads(after[n - 1], units[n], inBits, outBits)
  IN after[Len(units)]

(* Mutant: bits that fill no digit are left out. *)
EncodeWhole(bytes) == After(bytes, ByteBits, DigitBits).out

(* base32_encode: what is left fills the high bits of a last digit. *)
Encode(bytes) ==
  LET st == After(bytes, ByteBits, DigitBits)
      free == DigitBits - st.left
  IN IF st.left = 0 THEN st.out
     ELSE Append(st.out, Taken(Shifted(st.buffer, Zero(free), free), 0, DigitBits))

(* base32_decode: bits that fill no byte are dropped. *)
Decode(digits) == After(digits, DigitBits, ByteBits).out

Secrets == UNION {[1..n -> Bits(ByteBits)] : n \in 1..MaxBytes}

-----------------------------------------------------------------------------
OtpInit ==
  /\ secret \in Secrets
  /\ clock = 0 /\ drift \in Drifts
  /\ codeShown = (IF drift < 0 THEN 0 ELSE drift \div StepSeconds)
  /\ codeShownAt = 0 /\ verified = "none"

CounterAt(t) == t \div StepSeconds

ClockGoesOn ==
  /\ clock < LastSecond
  /\ clock' = clock + 1 /\ verified' = "none"
  /\ UNCHANGED <<secret, drift, codeShown, codeShownAt>>

(* The owner reads a code, which he may type much later. *)
ShowsCode ==
  /\ clock + drift >= 0
  /\ codeShown' = CounterAt(clock + drift) /\ codeShownAt' = clock /\ verified' = "none"
  /\ UNCHANGED <<secret, clock, drift>>

(* Mutant: the steps to come are not looked at. *)
AcceptsBehind(counter) == codeShown \in {counter - k : k \in 0..Skew}

(* As 64 bit integers: before the first counter comes the greatest. *)
Accepts(counter) == \E k \in 0..Skew : codeShown \in {counter + k, counter - k}

Verify ==
  /\ verified = "none"
  /\ verified' = IF Accepts(CounterAt(clock)) THEN "accepted" ELSE "refused"
  /\ UNCHANGED <<secret, clock, drift, codeShown, codeShownAt>>

OtpNext == ClockGoesOn \/ ShowsCode \/ Verify

OtpSpec == OtpInit /\ [][OtpNext]_otpVars

-----------------------------------------------------------------------------
(* A secret that was shown as text and typed into the configuration is     *)
(* the same secret, whatever its length: no bit is lost in the buffer.     *)
SecretSurvivesText == Decode(Encode(secret)) = secret

(* A code is accepted for Skew steps before and after the time at which    *)
(* the device showed it by its own clock, and never a step more than that. *)
CodesLiveAsLong ==
  verified # "none" /\ codeShownAt + drift >= 0 =>
    LET age == clock - (codeShownAt + drift)
        far == IF age < 0 THEN -age ELSE age
    IN /\ far <= Skew * StepSeconds => verified = "accepted"
       /\ far >= (Skew + 1) * StepSeconds => verified = "refused"

(* What pairing.rs and otp.rs promise of a code: it is good once, in its   *)
(* time, and of the secret that was shown.                                 *)
CodesHold ==
  CodesPairOnce /\ SecretSurvivesText /\ CodesLiveAsLong
=============================================================================
