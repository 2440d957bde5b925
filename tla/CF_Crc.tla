-------------------------------- MODULE CF_Crc --------------------------------
(***************************************************************************)
(* The modular checksum of cf_crc.c, digested piece by piece.  A word has  *)
(* four digits of the given radix, 256 in the code.                        *)
(***************************************************************************)
EXTENDS Integers, Sequences, SequencesExt

CONSTANT Radix

ASSUME RadixAssumption == Radix \in Nat /\ Radix > 1

(* The radix to the power of 1 to 4. *)
Power == <<Radix, Radix * Radix, Radix * Radix * Radix, Radix * Radix * Radix * Radix>>

Word == 0 .. Power[4] - 1

CRC_Start == [working |-> 0, result |-> 0, index |-> 0]

(* One iteration of the loop of CF_CRC_Digest. *)
DigestOctet(c, octet) ==
  LET working == (c.working * Radix + octet) % Power[4]
      full    == c.index = 3
  IN  [working |-> working, index |-> IF full THEN 0 ELSE c.index + 1,
       result  |-> IF full THEN (c.result + working) % Power[4] ELSE c.result]

(* Mutant: every piece begins a new word. *)
CRC_Digest_NewWord(c, data) == FoldLeft(DigestOctet, [c EXCEPT !.index = 0], data)

CRC_Digest(c, data) == FoldLeft(DigestOctet, c, data)

CRC_Finalize(c) ==
  IF c.index = 0 THEN c
  ELSE [working |-> 0, index |-> 0,
        result  |-> (c.result + c.working * Power[4 - c.index]) % Power[4]]
===============================================================================
