----------------------------- MODULE MCContext -----------------------------
(* Instances of Context for TLC: a first-fit allocator, two members for    *)
(* lazybiosParseAll to fill, and the loader chain of each family of        *)
(* backends.                                                               *)
EXTENDS ContextRefinement

LowestFree(used) ==
  CHOOSE b \in Blocks \ used : \A c \in Blocks \ used : b <= c

ElevenBlocks == 1 .. 11
TwelveBlocks == 1 .. 12

OneType    == <<"Type17">>
ThreeTypes == <<"Type0", "Type17", "dell_Type177">>

(* linux.c; and the chains without a lazybiosFile in them: sunos.c,        *)
(* netbsd.c.                                                               *)
LinuxLoaders == {<<"file", "devmem">>}
RawLoaders   == {<<"single", "devmem">>, <<"single", "single", "legacy">>}

=============================================================================
