------------------------- MODULE MCEngineObservation -------------------------
(***************************************************************************)
(* An address space of sixteen words of which the image takes eight, with  *)
(* pointers of four: a slot can lie at either end, beyond it, or past the  *)
(* end of the address space and so wrap back into the image.               *)
(***************************************************************************)
EXTENDS EngineObservation

Fingerprint(digest) == [filename |-> "TESV.exe", version |-> "1.6.1170", digest |-> digest]
Genuine == Fingerprint("genuine")
Foreign == Fingerprint("foreign")

Record(fingerprint) ==
  [identifier |-> "record", architecture |-> "X64", fingerprint |-> fingerprint]
MCBuiltIn == <<Record(Genuine)>>

\* The built-in table, one that admits another executable, and one that has the
\* right record in another place.
MCTable == {MCBuiltIn, <<Record(Foreign)>>,
            <<[Record(Genuine) EXCEPT !.identifier = Missing], Record(Genuine)>>}

MCIdentityOf(fingerprint) ==
  [module |-> "SkyrimSE.exe", architecture |-> "X64", fingerprint |-> fingerprint,
   base |-> 4, size |-> 8]
MCIdentity ==
  {MCIdentityOf(Genuine), MCIdentityOf(Foreign), [MCIdentityOf(Genuine) EXCEPT !.size = 12]}

Edition == [kind |-> "AddressLibrary", version |-> "1.6.1170", variant |-> "AnniversaryEdition"]
MCProviders == {[target |-> Edition, artifact |-> "library"]}
Supplied == [available |-> TRUE, target |-> Edition, artifact |-> "library",
             version |-> <<0, 2, 0>>, adapter |-> <<0, 0, 0>>]
MCProvider == {Supplied, [Supplied EXCEPT !.artifact = "copy"],
               [Supplied EXCEPT !.version = <<1, 0, 0>>]}

Data ==
  [identifier |-> "data", capability |-> "CameraInverseViewProjection", relocationId |-> 1,
   target |-> Edition, contract |-> "ReadOnlyData", prologue |-> 0, slot |-> 0, rtti |-> Missing,
   provider |-> [minimum |-> <<0, 1, 9>>, maximum |-> <<0, 3, 0>>],
   adapter |-> [minimum |-> <<0, 0, 0>>, maximum |-> <<0, 0, 0>>]]
Prologue(bytes) == [Data EXCEPT !.contract = "CompleteFunctionPrologue", !.prologue = bytes]
Slot(slot) == [Data EXCEPT !.contract = "DeclaredVtableSlot", !.slot = slot, !.rtti = "class"]

MCDescriptorList ==
  {<<Data, [Data EXCEPT !.capability = "WeatherTimeOfDay"]>>,
   <<Prologue(4), Data>>, <<Data, Slot(1)>>, <<Slot(3)>>, <<Slot(4)>>, <<Prologue(5)>>,
   <<[Data EXCEPT !.capability = "unknown"]>>,
   <<[Data EXCEPT !.relocationId = 0], [Data EXCEPT !.capability = "WeatherTimeOfDay"]>>}

Span(base, size) == [base |-> base, size |-> size, readable |-> TRUE, executable |-> TRUE]
MCRegion == {Span(4, 8), Span(10, 6), [Span(4, 8) EXCEPT !.readable = FALSE],
             [Span(4, 8) EXCEPT !.executable = FALSE]}
MCAddress == {Unresolved, 3, 4, 8, 11}
=============================================================================
