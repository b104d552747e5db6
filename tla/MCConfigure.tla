---------------------------- MODULE MCConfigure ----------------------------
(***************************************************************************)
(* Configure for TLC: one field of each kind, and a tree of a directory in a *)
(* directory with a file in it. The default is the outer directory. Nothing *)
(* is typed but blanks and nonsense: the other values are picked.           *)
(***************************************************************************)
EXTENDS Configure

MCFields == {"flake_dir", "sb_keys_sops", "build_memory_mib"}
MCOptional == {"sb_keys_sops", "build_memory_mib"}
MCNumbers == {"build_memory_mib"}
MCDirFields == {"flake_dir"}
MCFileFields == {"sb_keys_sops"}
MCWords == [f \in MCFields |-> {}]

MCDirs == {"/", "/hosts"}
MCFiles == {"/hosts/keys"}
MCListing == "/" :> <<"/hosts">> @@ "/hosts" :> <<"/hosts/keys">>
MCParent == [e \in MCDirs \cup MCFiles |-> IF e = "/hosts/keys" THEN "/hosts" ELSE "/"]

MCOther == {"flake_dir" :> "/hosts" @@ "sb_keys_sops" :> None @@ "build_memory_mib" :> None}

=============================================================================
