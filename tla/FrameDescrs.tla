---------------------------- MODULE FrameDescrs ----------------------------
(***************************************************************************)
(* FrameDescr of gc.hpp: what the compiler tells the collector of a frame, *)
(* packed into one word.  The pointer map is an array of signed chars, so  *)
(* the eighth slot of a byte is its sign bit, and >> copies that bit.      *)
(***************************************************************************)
EXTENDS Integers

CONSTANT kMapBytes  \* 6

ASSUME FrameDescrsAssumption == kMapBytes \in 0..6

SignedChar(n) == ((n + 128) % 256) - 128

nthByte(ix) == ix \div 8

nthBit(ix) == ix % 8

\* Right shift of a signed number rounds down, as \div does.
BitOf(byte, bit) == (byte \div 2 ^ bit) % 2

WithBit(byte, bit) ==
  IF BitOf(byte, bit) = 1 THEN byte ELSE SignedChar(byte + 2 ^ bit)

\* unpack(0).
NoPtrs == [frameSize |-> 0, ptrBitMap |-> [b \in 0..(kMapBytes - 1) |-> 0]]

\* A descriptor reads only the map it has.
isPtr(fd, ix) == BitOf(fd.ptrBitMap[nthByte(ix)], nthBit(ix)) = 1

\* Mutant: the byte is assigned, and the bits set before are gone.
setIsPtr_Assigned(fd, ix) ==
  [fd EXCEPT !.ptrBitMap[nthByte(ix)] = SignedChar(2 ^ nthBit(ix))]

setIsPtr(fd, ix) ==
  [fd EXCEPT !.ptrBitMap[nthByte(ix)] = WithBit(@, nthBit(ix))]

\* The offsets from the top of the frame that the collector visits.
PtrSlots(fd) == {ix \in 0..(fd.frameSize - 1) : isPtr(fd, ix)}

IsFrameDescr(fd) ==
  /\ fd.frameSize \in 0..(2 ^ 16 - 1)
  /\ fd.ptrBitMap \in [0..(kMapBytes - 1) -> -128..127]
=============================================================================
