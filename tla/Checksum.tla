------------------------------ MODULE Checksum -------------------------------
(***************************************************************************)
(* The two checksums of JpcapSender.c.  They add the words as they lie in  *)
(* memory, low byte first, and the result is stored the same way.  A       *)
(* message is a sequence of words as the wire means them and a sequence of *)
(* bytes behind them; sums stay far below 2^31.                            *)
(***************************************************************************)
EXTENDS Words, SequencesExt

Sum(ws) ==
  LET sum[i \in 0 .. Len(ws)] == IF i = 0 THEN 0 ELSE sum[i - 1] + ws[i]
  IN  sum[Len(ws)]
WordsOf(bytes) ==
  [i \in 1 .. Len(bytes) \div 2 |-> 256 * bytes[2 * i - 1] + bytes[2 * i]]
InMemory(ws) == [i \in DOMAIN ws |-> Swap16(ws[i])]
IsOdd(bytes) == Len(bytes) % 2 = 1

Fold16(sum)  == (sum % 65536) + (sum \div 65536)
Complement(sum) == 65535 - U16(Fold16(Fold16(sum)))

(* in_cksum masks the last word with 0xff00: of an odd message the last    *)
(* byte is left out, and what lies behind it in memory is counted.         *)
in_cksum(words, bytes, behind) ==
  Swap16(Complement(Sum(InMemory(words \o WordsOf(bytes)))
                    + IF IsOdd(bytes) THEN 256 * behind ELSE 0))

(* in_cksum2 counts the last byte as the low one of a word.                *)
in_cksum2Odd(pseudo, words, bytes) ==   \* mutant: the odd byte of in_cksum
  Swap16(Complement(Sum(InMemory(pseudo \o words \o WordsOf(bytes)))))
in_cksum2(pseudo, words, bytes) ==
  Swap16(Complement(Sum(InMemory(pseudo \o words \o WordsOf(bytes)))
                    + IF IsOdd(bytes) THEN Last(bytes) ELSE 0))

-----------------------------------------------------------------------------
(* The reference, RFC 1071: the receiver adds all words, checksum and      *)
(* pseudo-header included, an odd byte as the high one, in one's           *)
(* complement, and wants all ones: a positive multiple of 2^16 - 1.        *)
Accepts(words, bytes) ==
  LET sum == Sum(words \o WordsOf(bytes))
             + IF IsOdd(bytes) THEN 256 * Last(bytes) ELSE 0
  IN  sum > 0 /\ sum % 65535 = 0
=============================================================================
