----------------------------- MODULE MuxerContract -----------------------------
(***************************************************************************)
(* What android.media.MediaMuxer asks of its caller: tracks are added before *)
(* it is started, samples are written, to a track it has, between start and  *)
(* stop, and what has been stopped is released and not used again.           *)
(***************************************************************************)
EXTENDS Sequences

CONSTANTS Muxers, Tracks, Samples

VARIABLES
    state,   \* of each muxer: "initialized", "started" or "released"
    tracks,  \* the tracks added to it
    file     \* the samples written with it

vars == <<state, tracks, file>>

Init ==
    /\ state = [m \in Muxers |-> "initialized"]
    /\ tracks = [m \in Muxers |-> {}]
    /\ file = [m \in Muxers |-> <<>>]

AddTrack(m, track) ==
    /\ state[m] = "initialized" /\ track \notin tracks[m]
    /\ tracks' = [tracks EXCEPT ![m] = @ \cup {track}]
    /\ UNCHANGED <<state, file>>

Start(m) ==
    /\ state[m] = "initialized" /\ tracks[m] # {}
    /\ state' = [state EXCEPT ![m] = "started"]
    /\ UNCHANGED <<tracks, file>>

WriteSampleData(m, sample) ==
    /\ state[m] = "started" /\ tracks[m] # {}
    /\ file' = [file EXCEPT ![m] = Append(@, sample)]
    /\ UNCHANGED <<state, tracks>>

StopAndRelease(m) ==
    /\ state[m] = "started"
    /\ state' = [state EXCEPT ![m] = "released"]
    /\ UNCHANGED <<tracks, file>>

Next ==
    \E m \in Muxers :
        \/ \E track \in Tracks : AddTrack(m, track)
        \/ Start(m)
        \/ \E sample \in Samples : WriteSampleData(m, sample)
        \/ StopAndRelease(m)

Spec == Init /\ [][Next]_vars

===============================================================================
