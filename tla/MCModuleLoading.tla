-------------------------- MODULE MCModuleLoading --------------------------
(***************************************************************************)
(* Three modules: snd_hda needs snd_pcm and snd, snd_pcm needs snd; the    *)
(* dependency entry of snd_hda spells snd_pcm with a dash.  The guest's    *)
(* list is any subset of the modules, so it may lack a module another one  *)
(* needs, and a dependency may be popped before, while or after the module *)
(* that needs it is parsed.                                                *)
(***************************************************************************)
EXTENDS ModuleLoading

MCModules == {"snd", "snd_pcm", "snd_hda"}

MCNames == MCModules \cup {"snd-pcm"}

MCCanon == [n \in MCNames |-> IF n = "snd-pcm" THEN "snd_pcm" ELSE n]

MCDeps == [m \in MCModules |->
             CASE m = "snd"     -> <<>>
               [] m = "snd_pcm" -> <<"snd">>
               [] m = "snd_hda" -> <<"snd-pcm", "snd">>]

MCRank == [m \in MCModules |->
             CASE m = "snd" -> 0 [] m = "snd_pcm" -> 1 [] m = "snd_hda" -> 2]
=============================================================================
