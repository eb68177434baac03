------------------------------ MODULE MCLoader ------------------------------
(***************************************************************************)
(* Model of the loader: the native bridge with its modules and methods,    *)
(* symbol resolution inside one module, and relocation of one image.  They *)
(* share no variable, so a behaviour exercises one, chosen by focus.       *)
(***************************************************************************)
EXTENDS Loader, ElfSymbols, Relocs

VARIABLE focus

(* A library with patches and two configured methods, one whose image is    *)
(* larger than its file, one whose file is larger than its image, a 32-bit   *)
(* one, and a file shorter than an ELF header.                              *)
MCInfo ==
  [l \in {"a", "b", "long", "arm32", "tiny"} |->
    [class |-> CASE l = "arm32" -> "32" [] l = "tiny" -> "none" [] OTHER -> "64",
     short |-> l = "tiny", file |-> IF l \in {"a", "long"} THEN 2 ELSE 1,
     vaddr |-> IF l \in {"a", "b"} THEN 2 ELSE 1,
     patches |-> l = "a", onload |-> 0, conf |-> IF l = "a" THEN <<"x", "y">> ELSE <<>>]]

(* "a" and "b" collide. *)
MCHashOf == [n \in Name |-> IF n = "c" THEN 1 ELSE 2]
(* Local, global and weak definitions, an import, and a definition with the *)
(* value 0.                                                                 *)
MCForms ==
  {[bind |-> b, shndx |-> "section", value |-> 1] : b \in {"local", "global", "weak"}}
  \union {[bind |-> "global", shndx |-> x, value |-> 0] : x \in {"undef", "section"}}
MCTables == {{"sysv"}, {"sysv", "gnu"}, {"gnu"}}

(* Relocation tables: entries of every type before, inside, across the end  *)
(* of and behind the image, also unaligned; every short RELR table over     *)
(* addresses and bitmaps; and packed streams of up to two groups with a     *)
(* header that counts all, some or none.  The file of a 64-bit library is   *)
(* shorter than the image, as long, or longer; a 32-bit one is as long.     *)
MCIn(how, size) ==
  [how |-> how, size |-> size, table |-> <<>>, plt |-> <<>>, stream |-> <<>>, count |-> 0]
MCRel(how, types, offs) ==
  LET es == [type : types, off : offs, sym : {1, 2, 3}, addend : {2}]
  IN {[MCIn(how, ImageSize) EXCEPT !.table = t, !.plt = p] :
        t \in {<<>>} \union [1..1 -> es],
        p \in {<<>>} \union (IF how = "rela" THEN [1..1 -> es] ELSE {})}
MCGroups == [type : {0, 1, 2}, addend : {-3, 1}, deltas : {<<>>, <<2>>, <<4, 0>>, <<0, 3>>}]
MCStreams(how, size) ==
  {[MCIn(how, size) EXCEPT !.table = g, !.stream = EncodePacked(c, g), !.count = c] :
     g \in UNION {[1..k -> MCGroups] : k \in 0..2}, c \in 0..4}
MCRelInputs ==
  MCRel("rela", {"relative", "abs", "jump_slot", "copy"}, {0, 2, 3, 8, 9})
  \union MCRel("rel", {"relative", "abs"}, {0, 2, 3, 6, 7})
  \union {[MCIn("relr", n) EXCEPT !.table = t] :
            n \in {4, ImageSize, ImageSize + 1},
            t \in {u \in UNION {[1..k -> {0, 2, 4, 5, 13}] : k \in 0..4} :
                    u = <<>> \/ u[1] \in {2, 4}}}
  \union MCStreams("packed32", ImageSize)
  \union UNION {MCStreams("packed", n) : n \in {4, ImageSize, ImageSize + 1}}

MCInit ==
  /\ focus \in {"loader", "symbols", "relocs"}
  /\ LoaderInit /\ SymInit
  /\ \/ focus = "relocs" /\ RelInit
     \/ /\ focus # "relocs"
        /\ relIn = MCIn("rela", ImageSize)
        /\ RelInit
MCNext ==
  /\ UNCHANGED focus
  /\ \/ focus = "loader" /\ LoaderNext /\ UNCHANGED <<symVars, relVars>>
     \/ focus = "symbols" /\ SymNext /\ UNCHANGED <<loaderVars, relVars>>
     \/ focus = "relocs" /\ RelNext /\ UNCHANGED <<loaderVars, symVars>>
MCSpec == MCInit /\ [][MCNext]_<<focus, loaderVars, symVars, relVars>>
MCFairSpec == MCSpec /\ WF_symVars(focus = "symbols" /\ (SysvStep \/ GnuStep \/ GetSymbolReturn)
                                     /\ UNCHANGED <<focus, loaderVars, relVars>>)
=============================================================================
