--------------------------------- MODULE MCMixer ---------------------------------
(* Two threads of one core and one of another. *)
EXTENDS Mixer

ThreeThreads == {0, 1, 4}
=============================================================================
