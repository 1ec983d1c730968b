--------------------------- MODULE MCAddressLibrary ---------------------------
(***************************************************************************)
(* Words of four bits, with two spans, and two contents of one size of     *)
(* which one is supported.  The headers leave five bytes for three         *)
(* entries, eight for two, ten for one, or are defective in one field.     *)
(***************************************************************************)
EXTENDS AddressLibrary

MCSizeOf == [content \in Content |-> PrefixSize + SuffixSize + 10]

Three == [format |-> 2, runtimeMatches |-> TRUE, nameLength |-> 5,
          pointerSize |-> PointerSize, count |-> 3]

MCHeader ==
  {Three, [Three EXCEPT !.nameLength = 2, !.count = 2],
   [Three EXCEPT !.nameLength = 0, !.count = 1],
   [Three EXCEPT !.format = 1], [Three EXCEPT !.runtimeMatches = FALSE],
   [Three EXCEPT !.nameLength = -1], [Three EXCEPT !.nameLength = 11],
   [Three EXCEPT !.pointerSize = 4], [Three EXCEPT !.count = 0],
   [Three EXCEPT !.count = 6]}

MCSymmetry == Permutations(Buffer)
=============================================================================
