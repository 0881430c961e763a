------------------------------ MODULE ZBase32 -------------------------------
(***************************************************************************)
(* zbase32_encode of wkd_hash.rs: bytes go into a bit buffer from the right *)
(* and leave it from the left, five bits at a time.  A character is its    *)
(* index in the alphabet.  The buffer is never emptied: what has been taken *)
(* out of it is shifted on until it falls off the end of the word.         *)
(***************************************************************************)
EXTENDS Naturals, Sequences

CONSTANTS
  Bytes,     \* the bytes that occur
  Word,      \* the values of the buffer's word, 2^32 in the code
  MaxBytes   \* bound: length of the input

ASSUME BytesType == Bytes \subseteq 0..255
ASSUME WordType  == Word \in Nat \ {0} /\ Word % 2^12 = 0
ASSUME InputType == MaxBytes \in Nat

VARIABLES data,             \* the bytes consumed so far
          buffer, bits_in_buffer, out,
          step              \* "byte", "emit", "done"

encoderVars == <<data, buffer, bits_in_buffer, out, step>>

Shifted(n) == (buffer * 2^n) % Word

\* for &byte in data.
TakeByte(byte) ==
  /\ step = "byte" /\ Len(data) < MaxBytes
  /\ data' = Append(data, byte)
  /\ buffer' = Shifted(8) + byte
  /\ bits_in_buffer' = bits_in_buffer + 8
  /\ step' = "emit"
  /\ out' = out

\* while bits_in_buffer >= 5.
EmitGroup ==
  /\ step = "emit"
  /\ IF bits_in_buffer >= 5
     THEN /\ bits_in_buffer' = bits_in_buffer - 5
          /\ out' = Append(out, (buffer \div 2^bits_in_buffer') % 32)
          /\ step' = step
     ELSE step' = "byte" /\ UNCHANGED <<bits_in_buffer, out>>
  /\ UNCHANGED <<data, buffer>>

\* Mutant of EmitRest: the last bits are not moved to the left of their group.
EmitRestUnshifted ==
  /\ step = "byte"
  /\ out' = IF bits_in_buffer > 0 THEN Append(out, buffer % 2^bits_in_buffer) ELSE out
  /\ step' = "done"
  /\ UNCHANGED <<data, buffer, bits_in_buffer>>

\* if bits_in_buffer > 0, at the end of the input.
EmitRest ==
  /\ step = "byte"
  /\ out' = IF bits_in_buffer > 0
            THEN Append(out, Shifted(5 - bits_in_buffer) % 32) ELSE out
  /\ step' = "done"
  /\ UNCHANGED <<data, buffer, bits_in_buffer>>

EncoderInit ==
  data = <<>> /\ buffer = 0 /\ bits_in_buffer = 0 /\ out = <<>> /\ step = "byte"

EncoderNext == (\E byte \in Bytes : TakeByte(byte)) \/ EmitGroup \/ EmitRest

EncoderSpec == EncoderInit /\ [][EncoderNext]_encoderVars

-----------------------------------------------------------------------------
\* The bits of a sequence of w-bit numbers, most significant first.
BitsOf(s, w) ==
  [i \in 1..(w * Len(s)) |->
     (s[((i - 1) \div w) + 1] \div 2^(w - 1 - ((i - 1) % w))) % 2]

\* o is the bits of s in fives, filled up with zeros to a whole group and no further.
Encodes(s, o) ==
  LET bits == BitsOf(s, 8)  written == BitsOf(o, 5)
  IN /\ Len(written) \in Len(bits)..(Len(bits) + 4)
     /\ \A i \in DOMAIN written :
          written[i] = IF i \in DOMAIN bits THEN bits[i] ELSE 0

\* Once all is consumed the output encodes the input.
EncodesTheBits == step = "done" => Encodes(data, out)
=============================================================================
