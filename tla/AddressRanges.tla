---------------------------- MODULE AddressRanges ----------------------------
(***************************************************************************)
(* The range arithmetic of the journals of src/skyrim, on addresses and    *)
(* sizes that are natural numbers: every subtraction in the code is taken  *)
(* from the larger operand, so none of them wraps.                         *)
(***************************************************************************)
EXTENDS Naturals

\* [address, address + size) lies inside [base, base + extent); an empty
\* range or a null base is inside nothing.
Contains(base, extent, address, size) ==
  /\ base # 0 /\ extent # 0 /\ size # 0
  /\ address >= base
  /\ address - base < extent
  /\ size <= extent - (address - base)

RangesOverlap(leftAddress, leftSize, rightAddress, rightSize) ==
  IF leftAddress <= rightAddress
  THEN rightAddress - leftAddress < leftSize
  ELSE leftAddress - rightAddress < rightSize

\* The addresses a range covers: what the two tests are about.
Covered(address, size) == {a \in Nat : address <= a /\ a < address + size}
=============================================================================
