-------------------------- MODULE MCWrapperAdmission --------------------------
(***************************************************************************)
(* The two builds of the allowlist; two that are neither; files whose      *)
(* headers or version strings are short of something; one that authors its *)
(* strings across two languages.  The buffer of a path starts at two       *)
(* characters and stops at five, which is no doubling of it.               *)
(***************************************************************************)
EXTENDS WrapperAdmission, TLC

Text(parts) == [parts |-> parts, clean |-> TRUE]
None == Text(<<>>)
Strings(version, name) == [version |-> version, name |-> name]

Genuine ==
  [digest |-> "first", size |-> 6, magic |-> TRUE, lfanew |-> 2, signature |-> TRUE,
   machine |-> "X64", fixedInfo |-> TRUE, translations |-> <<"french", "german">>,
   strings |-> [french |-> Strings(Text(<<0, 5, 0, 4>>), "d3d11.dll"),
                german |-> Strings(Text(<<0, 5, 0, 4>>), Missing)]]

MCAbout ==
  [first |-> Genuine,
   second |-> [Genuine EXCEPT !.digest = "second", !.translations = <<>>,
                !.strings = "neutral unicode" :> Strings(Text(<<0, 5, 0, 10>>), "d3d11.dll")
                              @@ "US ansi" :> Strings(Text(<<0, 5, 0, 9>>), "other.dll")],
   updated |-> [Genuine EXCEPT !.digest = "updated", !.translations = <<"german", "french">>,
                 !.strings.french.version = Text(<<0, 5, 0, 5>>),
                 !.strings.german.version = None],
   patched |-> [Genuine EXCEPT !.digest = "patched"],
   divided |-> [Genuine EXCEPT !.digest = "divided", !.lfanew = 3,
                 !.strings = [french |-> Strings(Text(<<0, 5, 0, 4>>), Missing),
                              german |-> Strings(None, "proxy.dll")]],
   nameless |-> [Genuine EXCEPT !.digest = "nameless",
                  !.strings = [french |-> Strings([Text(<<0, 5, 0, 4>>) EXCEPT !.clean = FALSE],
                                                   "d3d11.dll"),
                               german |-> Strings(Text(<<0, 5, 0, 4>>), Missing)]],
   bare |-> [Genuine EXCEPT !.digest = "bare", !.fixedInfo = FALSE],
   alien |-> [Genuine EXCEPT !.digest = "alien", !.signature = FALSE],
   cut |-> [Genuine EXCEPT !.digest = "cut", !.size = 4]]

Build(digest, version) ==
  [digest |-> digest, size |-> 6, version |-> version, machine |-> "X64", name |-> "d3d11.dll"]
MCAllowlist == <<Build("first", <<0, 5, 0, 4>>), Build("second", <<0, 5, 0, 9>>)>>
=============================================================================
