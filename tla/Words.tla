-------------------------------- MODULE Words --------------------------------
(***************************************************************************)
(* Numbers as the native code of jpcap holds them, on a machine that       *)
(* stores the low byte of a word first.  A word on the wire is named by    *)
(* the number its sender means by it, which is what ntohs gives of it; 32  *)
(* bits are a pair of such words.                                          *)
(***************************************************************************)
EXTENDS Integers

Words == 0 .. 2^16 - 1
Bytes == 0 .. 2^8 - 1

U8(n)  == n % 256                                    \* (u_char) n
U16(n) == n % 65536                                  \* (u_short) n
S8(n)  == IF U8(n) < 128 THEN U8(n) ELSE U8(n) - 256 \* (jbyte) n
S16(n) == IF U16(n) < 32768 THEN U16(n) ELSE U16(n) - 65536   \* (short) n

(* Of two 32-bit numbers: the comparison is unsigned if one of them is.    *)
UnsignedGreater(a, b) == IF (a < 0) = (b < 0) THEN a > b ELSE a < 0

(* htons and ntohs; htonl and ntohl of a pair.                             *)
Swap16(w) == (w % 256) * 256 + w \div 256
Swap32(p) == <<Swap16(p[2]), Swap16(p[1])>>

Bit(w, i) == (w \div 2^i) % 2 = 1
=============================================================================
