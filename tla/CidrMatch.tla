------------------------------ MODULE CidrMatch ------------------------------
(***************************************************************************)
(* CidrMaskMatchV4 and CidrMaskMatchV6 (driver/socket.c:199-219) over      *)
(* addresses of reduced width: an IPv4 address has W4 bits instead of 32,  *)
(* an IPv6 address is four words of B bits instead of 32.  Both sides of   *)
(* each comparison are in network byte order in the code (the mask goes    *)
(* through Htonl), so byte order cancels and is left out.  A prefix is     *)
(* given as its address and its length, as in IP_ADDRESS_PREFIX.           *)
(*                                                                         *)
(* The reference definition is prefix match on bit strings: the first len  *)
(* bits of the address equal those of the prefix.                          *)
(***************************************************************************)
EXTENDS Naturals, Bitwise

CONSTANTS
    W4,     \* bits of an IPv4 address (32 in the code)
    B       \* bits of one of the four words of an IPv6 address (32 in the code)

ASSUME W4 \in Nat \ {0} /\ B \in Nat \ {0}

Words == 1..4
V6Bits == 4 * B

(* Fault variant: the mask is one bit too short.                          *)
MaskShort(w, len) == 2^w - 2^(w - len + 1)

(* ~0U << (w - len), truncated to w bits, for 1 <= len <= w.               *)
Mask(w, len) == 2^w - 2^(w - len)

(* Lines 199-204.  A zero length matches everything (and avoids the shift  *)
(* by the full width).                                                     *)
CidrMaskMatchV4(addr, pfx, len) ==
    len = 0 \/ (addr & Mask(W4, len)) = pfx

(* Fault variant: RtlEqualMemory compares one word too few.               *)
WholeWordsEqualShort(addr, pfx, whole) == \A k \in 1..whole - 1 : addr[k] = pfx[k]

(* Line 213: RtlEqualMemory of the first WholeParts words.                 *)
WholeWordsEqual(addr, pfx, whole) == \A k \in 1..whole : addr[k] = pfx[k]

(* Lines 206-219: compare the whole words, then the leftover bits of the   *)
(* next word under a mask.  Addresses are functions Words -> 0..2^B-1.     *)
CidrMaskMatchV6(addr, pfx, len) ==
    LET whole == len \div B
        left  == len % B
    IN \/ len = 0
       \/ /\ WholeWordsEqual(addr, pfx, whole)
          /\ \/ whole = 4 \/ left = 0
             \/ (addr[whole + 1] & Mask(B, left)) = pfx[whole + 1]

-----------------------------------------------------------------------------
(* Reference definitions.                                                  *)

(* Bit k of a w-bit number, counting from the most significant (k = 0).   *)
BitAt(x, w, k) == (x \div 2^(w - 1 - k)) % 2

(* Bit k of an IPv6 address, counting from the most significant.          *)
V6BitAt(a, k) == BitAt(a[k \div B + 1], B, k % B)

PrefixMatchV4(addr, pfx, len) ==
    \A k \in 0..len - 1 : BitAt(addr, W4, k) = BitAt(pfx, W4, k)

PrefixMatchV6(addr, pfx, len) ==
    \A k \in 0..len - 1 : V6BitAt(addr, k) = V6BitAt(pfx, k)

(* The number x of w bits with all but its first len bits cleared, by     *)
(* arithmetic rather than by a mask.                                       *)
KeepHigh(x, w, len) == x - (x % 2^(w - len))

(* The routing table holds prefixes with their host bits cleared: the      *)
(* prefixes of length len are the addresses cut to len bits.               *)
PrefixesV4(len) == {KeepHigh(a, W4, len) : a \in 0..2^W4 - 1}

PrefixV6(a, len) ==
    [k \in Words |-> LET bits == len - (k - 1) * B IN
                     IF bits >= B THEN a[k]
                     ELSE IF bits <= 0 THEN 0
                     ELSE KeepHigh(a[k], B, bits)]
=============================================================================
