-------------------------- MODULE MCSceneScheduler --------------------------
(* Small instances of the scene scheduler for TLC. *)
EXTENDS SceneScheduler, TLC

CONSTANTS s1, s2, c1, c2, c3

OneScene == {s1}
TwoScenes == {s1, s2}
TwoComponents == {c1, c2}
ThreeComponents == {c1, c2, c3}

MCPriorities == {0, 1}

(* Components without a stage and with one, or with two. *)
UpdateOnly == {{}, {"update"}}
EndStages == {{}, {"fixed_update", "late_update"}}

(* Bounds for the run with three components, all of them in one stage: the *)
(* host only registers components, before the first update, and every      *)
(* other call comes from a callback; priorities change in that stage.      *)
HostOnlyRegisters ==
    /\ pass.stage = "idle" /\ edits' # edits =>
          nextOrder' # nextOrder /\ \A s \in Scenes, m \in Modes : processed[s][m] = 0
    /\ \A c \in Components, g \in Stages :
          g # "update" => priority'[c][g] = priority[c][g]

ComponentsAlike == Permutations(Components)
=============================================================================
