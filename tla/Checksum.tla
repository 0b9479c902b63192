------------------------------ MODULE Checksum ------------------------------
(***************************************************************************)
(* checksum() of 18-RawSockets: the Internet checksum of a packet.  The    *)
(* sum of the 16-bit words of the packet is taken as given: the loop adds  *)
(* them in an unsigned int, which 2^16 words cannot overflow.              *)
(***************************************************************************)
EXTENDS Naturals

Word == 65536

\* sum = (sum >> 16) + (sum & 0xFFFF); sum += sum >> 16;
FoldOnce(sum) == (sum \div Word) + (sum % Word)
Fold(sum) == LET once == FoldOnce(sum) IN once + once \div Word

\* result = ~sum, in 16 bits.
Complement(sum) == Word - 1 - (sum % Word)
Checksum(sum) == Complement(Fold(sum))

\* Who receives a packet sums it up with its checksum; nothing but 1s may be left.
Accepts(sum) == Checksum(sum) = 0
=============================================================================
